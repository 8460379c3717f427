---------------------------- MODULE MCDownloads ----------------------------
(***************************************************************************)
(* What the server hands out and takes in over HTTP, for TLC: tokens and    *)
(* logins (Access), client releases (Releases) and coverage datasets        *)
(* (DatasetInstall).  The three share no variable: a behaviour is one of    *)
(* the component that part names, the others stay as they start.            *)
(***************************************************************************)
EXTENDS Access, TLC

CONSTANTS u, s1, r1, r2, t1, t2, a, b, broken

VARIABLES
    part,
    clock, github, retired, catalog, signatures, task, reloaded, left,   \* Releases
    server, network, current, backup, deployed, job, spare               \* DatasetInstall

releaseVars == <<clock, github, retired, catalog, signatures, task, reloaded, left>>
datasetVars == <<server, network, current, backup, deployed, job, spare>>

-----------------------------------------------------------------------------
(* Releases: all kinds of releases and channels for one task; and two tasks *)
(* that check and refresh concurrently.                                     *)

Deb == [bundle |-> "deb", arch |-> "x86_64"]
Dmg == [bundle |-> "other", arch |-> "x86_64"]

Raw(version, pre, mandatory, assets) ==
    [version |-> version, draft |-> FALSE, titled |-> TRUE, pre |-> pre, prerelease |-> FALSE,
     mandatory |-> mandatory, breaking |-> FALSE, assets |-> assets, upload |-> 0]

First  == Raw(1, "", FALSE, {Deb})
Second == Raw(2, "", TRUE, {Deb, Dmg})
Third  == Raw(3, "", FALSE, {Deb})
Beta   == Raw(3, "beta", FALSE, {Deb})
Draft  == [Raw(2, "", FALSE, {Deb}) EXCEPT !.draft = TRUE]
Empty  == Raw(2, "rc", FALSE, {Dmg})

Query(channel) == [channel |-> channel, version |-> 0, bundle |-> "deb", arch |-> "x86_64"]

Channels == [visibility |-> [stable |-> <<"stable">>, beta |-> <<"beta", "stable">>],
             required   |-> [stable |-> {3}]]

One == INSTANCE Releases WITH
    Raws <- {First, Second, Third, Beta, Draft, Empty}, Queries <- {Query("stable"), Query("beta"), Query("rc")},
    Policy <- Channels, Tasks <- {t1}, PageSize <- 1, MaxPages <- 2, ReleaseTtl <- 1, SignatureTtl <- 2,
    FetchTime <- 1, MaxTime <- 2, MaxEdits <- 2, MaxChecks <- 3

Two == INSTANCE Releases WITH
    Raws <- {First, Second}, Queries <- {Query("stable")},
    Policy <- Channels, Tasks <- {t1, t2}, PageSize <- 1, MaxPages <- 2, ReleaseTtl <- 1, SignatureTtl <- 2,
    FetchTime <- 1, MaxTime <- 3, MaxEdits <- 2, MaxChecks <- 2

-----------------------------------------------------------------------------
(* DatasetInstall: one installation at a time, with crashes and faults; and  *)
(* with a single fault.                                                     *)

Shas == {a, b, broken}
Token(signed, sub) == [signed |-> signed, issuer |-> "github", audience |-> "vacs", sub |-> sub]

ReloadTokens == {Token(TRUE, "dataset"), Token(TRUE, "releases"), Token(FALSE, "dataset")}

Install == INSTANCE DatasetInstall WITH
    Valid <- {a, b}, Tokens <- ReloadTokens, Parallel <- 1,
    MaxReloads <- 2, MaxFaults <- 2, MaxCrashes <- 2, MaxDeploys <- 2, left <- spare

Fault == INSTANCE DatasetInstall WITH
    Valid <- {a, b}, Tokens <- ReloadTokens, Parallel <- 1,
    MaxReloads <- 3, MaxFaults <- 1, MaxCrashes <- 0, MaxDeploys <- 1, left <- spare

-----------------------------------------------------------------------------

PartInit ==
    /\ part \in {"access", "one", "two", "install", "fault"}
    /\ Init /\ (part # "access" => require)
    /\ IF part = "two" THEN Two!Init ELSE One!Init
    /\ IF part = "fault" THEN Fault!Init ELSE Install!Init
    /\ part \notin {"install", "fault"} => deployed = a /\ current.data = a

PartNext ==
    \/ part = "access" /\ Next /\ UNCHANGED <<part, releaseVars, datasetVars>>
    \/ part = "one" /\ One!Next /\ UNCHANGED <<part, vars, datasetVars>>
    \/ part = "two" /\ Two!Next /\ UNCHANGED <<part, vars, datasetVars>>
    \/ part = "install" /\ Install!Next /\ UNCHANGED <<part, vars, releaseVars>>
    \/ part = "fault" /\ Fault!Next /\ UNCHANGED <<part, vars, releaseVars>>

\* the fairness of DatasetInstall's Spec
PartSpec ==
    /\ PartInit /\ [][PartNext]_<<part, vars, releaseVars, datasetVars>>
    /\ WF_datasetVars(part = "install" /\ Install!Sync)
    /\ \A j \in Install!Jobs : WF_datasetVars(part = "install" /\ Install!FetchAndInstall(j))

-----------------------------------------------------------------------------
(* Properties of the components, in the part they belong to.                *)




\* After the last crash and the last fault the server comes up and stays up.
Recovers == part = "install" => Install!Recovers

=============================================================================
