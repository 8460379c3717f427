----------------------------- MODULE RateLimit -----------------------------
(***************************************************************************)
(* The server's rate limiters (ratelimit.rs): every kind of request has a   *)
(* burst limiter and a limiter per minute, each keyed by client or address. *)
(* A limiter is the cell-rate algorithm of the governor crate: per key, the *)
(* time up to which its capacity is spoken for.                             *)
(***************************************************************************)
EXTENDS Integers, FiniteSets, FiniteSetsExt, TLC

CONSTANTS
    Keys,
    Policy,      \* kind -> [burst, period, minute]: the configuration; 0 disables a limiter
    MinutePeriod, \* time the limiter per minute takes to make up for one request
    MaxTargets,  \* bound on the targets of an invite
    MaxTime,
    MaxPasses    \* bound on the requests let through

VARIABLES
    now,
    spent,    \* kind -> limiter -> key -> time up to which its capacity is used
    passed,   \* requests let through: [kind, key, at, n, nr]
    verdict   \* the answer to the last request

vars == <<now, spent, passed, verdict>>

Kinds == DOMAIN Policy

\* RateLimiters::from: a policy that is off, or a limit of zero, makes no limiter.
Quota(kind, limiter) ==
    IF limiter = "burst"
    THEN [capacity |-> Policy[kind].burst, period |-> IF Policy[kind].period = 0 THEN 1 ELSE Policy[kind].period]
    ELSE [capacity |-> Policy[kind].minute, period |-> MinutePeriod]

Init ==
    /\ now = 0
    /\ spent = [k \in Kinds |-> [l \in {"burst", "minute"} |-> [x \in Keys |-> 0]]]
    /\ passed = {}
    /\ verdict = [at |-> 0, result |-> "none"]

-----------------------------------------------------------------------------
(* One limiter.                                                             *)

\* check_key_n: the capacity is spoken for up to here when the request passes.
Charged(kind, l, x, n) == Max({spent[kind][l][x], now}) + n * Quota(kind, l).period

\* How long the request has to wait; nothing when it passes.
Wait(kind, l, x, n) ==
    Max({0, Charged(kind, l, x, n) - (now + Quota(kind, l).capacity * Quota(kind, l).period)})

\* The wait that is announced is the time one request costs.
CheckWithOnePeriod(kind, l, x, n) ==
    CASE Quota(kind, l).capacity = 0 -> [result |-> "off", wait |-> 0]
      [] n > Quota(kind, l).capacity -> [result |-> "too many", wait |-> 0]
      [] Wait(kind, l, x, n) > 0     -> [result |-> "limited", wait |-> Quota(kind, l).period]
      [] OTHER                       -> [result |-> "ok", wait |-> 0]

\* check and check_n: a limiter that is off lets everything pass, and what exceeds
\* its capacity never passes.
Check(kind, l, x, n) ==
    CASE Quota(kind, l).capacity = 0 -> [result |-> "off", wait |-> 0]
      [] n > Quota(kind, l).capacity -> [result |-> "too many", wait |-> 0]
      [] Wait(kind, l, x, n) > 0     -> [result |-> "limited", wait |-> Wait(kind, l, x, n)]
      [] OTHER                       -> [result |-> "ok", wait |-> 0]

Passes(c) == c.result \in {"ok", "off"}

-----------------------------------------------------------------------------
(* A request.                                                               *)

\* check_call_invite asks the burst limiter first, the others last.
First(kind)  == IF kind = "call_invite" THEN "burst" ELSE "minute"
Second(kind) == IF kind = "call_invite" THEN "minute" ELSE "burst"

\* An invitation is charged for every target.
Weight(kind, targets) == IF kind = "call_invite" THEN Max({1, targets}) ELSE 1

\* The first limiter is charged even when the second refuses.
Request(kind, x, targets) ==
    LET n  == Weight(kind, targets)
        c1 == Check(kind, First(kind), x, n)
        c2 == Check(kind, Second(kind), x, n)
        charge1 == IF c1.result = "ok" THEN {First(kind)} ELSE {}
        charge2 == IF Passes(c1) /\ c2.result = "ok" THEN {Second(kind)} ELSE {}
    IN  /\ Cardinality(passed) < MaxPasses
        /\ spent' = [spent EXCEPT ![kind] = [l \in DOMAIN @ |-> [y \in Keys |->
                        IF y = x /\ l \in charge1 \cup charge2 THEN Charged(kind, l, x, n) ELSE @[l][y]]]]
        /\ passed' = IF Passes(c1) /\ Passes(c2)
                     THEN passed \cup {[kind |-> kind, key |-> x, at |-> now, n |-> targets, nr |-> Cardinality(passed)]}
                     ELSE passed
        /\ verdict' = IF ~Passes(c1) THEN [at |-> now, kind |-> kind, key |-> x, n |-> n, limiter |-> First(kind)] @@ c1
                      ELSE [at |-> now, kind |-> kind, key |-> x, n |-> n, limiter |-> Second(kind)] @@ c2
        /\ UNCHANGED now

Tick ==
    /\ now < MaxTime
    /\ now' = now + 1
    /\ UNCHANGED <<spent, passed, verdict>>

Next ==
    \/ Tick
    \/ \E kind \in Kinds, x \in Keys, targets \in 0 .. MaxTargets : Request(kind, x, targets)

Spec == Init /\ [][Next]_vars

-----------------------------------------------------------------------------
(* Properties.                                                              *)

TypeOK ==
    /\ \A k \in Kinds : \A l \in {"burst", "minute"} : spent[k][l] \in [Keys -> Nat]
    /\ verdict.result \in {"none", "ok", "off", "limited", "too many"}

Limits == {"burst", "minute"}

\* However requests are spread over time, no stretch of time lets more invitation
\* targets through than the burst capacity and what the limiters make up for in
\* that time.
PassedInAnyWindow ==
    \A k \in Kinds, x \in Keys, l \in Limits, a \in 0 .. now : \A b \in a .. now :
        Quota(k, l).capacity > 0 =>
            MapThenSumSet(LAMBDA p : IF k = "call_invite" THEN Max({1, p.n}) ELSE 1,
                          {p \in passed : p.kind = k /\ p.key = x /\ p.at \in a .. b})
            <= Quota(k, l).capacity + (b - a) \div Quota(k, l).period

\* "The limit is exhausted; retry after the given duration": the limiter that
\* refused lets the same request pass after that time, and not before, unless
\* another request came in between.
WaitIsExact ==
    verdict.result = "limited" /\ verdict.at <= now =>
        LET waited == now - verdict.at
            again  == Check(verdict.kind, verdict.limiter, verdict.key, verdict.n)
        IN  Passes(again) <=> waited >= verdict.wait

=============================================================================
