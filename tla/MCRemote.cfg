SPECIFICATION PartSpec
CONSTANTS
    desk = desk
    p1 = p1
    p2 = p2
PROPERTIES
    
    InvocationsSettle
    
CHECK_DEADLOCK FALSE
