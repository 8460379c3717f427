--------------------------- MODULE DatasetInstall ---------------------------
(***************************************************************************)
(* How the server installs coverage datasets: vacs-server/src/dataset.rs,    *)
(* the reload endpoint of routes/admin.rs and the startup of main.rs. A       *)
(* dataset is named by the commit it was built from. On disk there is the      *)
(* coverage directory and, while it is being replaced, its backup; each holds  *)
(* a dataset and the marker file that says which commit it is. The server may   *)
(* crash between any two steps and any step outside the process may fail.     *)
(***************************************************************************)
EXTENDS Naturals, FiniteSets

CONSTANTS None, Shas, Valid, Tokens, Parallel,
          MaxReloads, MaxFaults, MaxCrashes, MaxDeploys

VARIABLES
    server,     \* "down", "starting" or "up"
    network,    \* the dataset that is served
    current,    \* the coverage directory, or None
    backup,     \* the directory beside it that is called .old, or None
    deployed,   \* the commit the deployed tag points at
    job,        \* fetch_and_install: one at startup, one for each reload under way
    left        \* what is left of the bounds

vars == <<server, network, current, backup, deployed, job, left>>

Startup == 0
Jobs    == 0 .. Parallel

\* A directory fresh from the archive has no marker.
Dir(data) == [data |-> data, marker |-> None]
Idle      == [pc |-> "idle", sha |-> None]

\* what the administrator's token has to say before a dataset is reloaded
VerifyGithubOidc(token, allowed) ==
    token.signed /\ token.issuer = "github" /\ token.audience = "vacs" /\ token.sub = allowed

TypeOK ==
    /\ server \in {"down", "starting", "up"}
    /\ IF server = "up" THEN network \in Shas ELSE network = None
    /\ {current, backup} \subseteq {None} \union [data : Shas, marker : Shas \union {None}]
    /\ deployed \in Valid
    /\ job \in [Jobs -> [pc : {"idle", "download", "validate", "clear", "stash", "place",
                               "move", "rollback", "tidy", "mark", "swap"}, sha : Shas \union {None}]]
    /\ left \in [reloads : 0 .. MaxReloads, faults : 0 .. MaxFaults,
                 crashes : 0 .. MaxCrashes, deploys : 0 .. MaxDeploys]

Init ==
    /\ server = "down"
    /\ network = None
    /\ deployed \in Valid
    /\ current \in {[data |-> s, marker |-> s] : s \in Valid}
    /\ backup = None
    /\ job = [j \in Jobs |-> Idle]
    /\ left = [reloads |-> MaxReloads, faults |-> MaxFaults, crashes |-> MaxCrashes, deploys |-> MaxDeploys]

Spend(what) == left[what] > 0 /\ left' = [left EXCEPT ![what] = @ - 1]

-----------------------------------------------------------------------------
(* Startup: main and sync_on_startup. *)

LocalSha == IF current = None THEN None ELSE current.marker

\* The server comes up on what the coverage directory holds; without one it exits.
LoadFromDisk ==
    IF current = None
    THEN server' = "down" /\ network' = None
    ELSE server' = "up" /\ network' = current.data

\* The commit of the tag; an annotated tag is followed to what it points at.
ResolveDeployedSha == deployed

\* The tag is resolved and compared with the marker.
Sync ==
    /\ server = "down"
    /\ \/ /\ LocalSha # ResolveDeployedSha
          /\ server' = "starting"
          /\ job' = [job EXCEPT ![Startup] = [pc |-> "download", sha |-> ResolveDeployedSha]]
          /\ UNCHANGED <<network, left>>
       \/ /\ LocalSha = ResolveDeployedSha
          /\ LoadFromDisk
          /\ UNCHANGED <<job, left>>
       \/ \* GitHub cannot be reached
          /\ Spend("faults")
          /\ LoadFromDisk
          /\ UNCHANGED job
    /\ UNCHANGED <<current, backup, deployed>>

\* The tag is moved to another commit.
Deploy(s) ==
    /\ s # deployed
    /\ deployed' = s
    /\ Spend("deploys")
    /\ UNCHANGED <<server, network, current, backup, job>>

\* The directories survive a crash; temporary ones are never looked at again.
Crash ==
    /\ server # "down"
    /\ Spend("crashes")
    /\ server' = "down"
    /\ network' = None
    /\ job' = [j \in Jobs |-> Idle]
    /\ UNCHANGED <<current, backup, deployed>>

\* reload_dataset, up to the first await of fetch_and_install. The request names the
\* commit; every request is served by a task of its own.
ReloadDataset(j, token, s) ==
    /\ server = "up"
    /\ j # Startup
    /\ job[j] = Idle
    /\ VerifyGithubOidc(token, "dataset")
    /\ Spend("reloads")
    /\ job' = [job EXCEPT ![j] = [pc |-> "download", sha |-> s]]
    /\ UNCHANGED <<server, network, current, backup, deployed>>

-----------------------------------------------------------------------------
(* fetch_and_install, one step for each thing it awaits or does on disk. *)

Goto(j, pc) == job' = [job EXCEPT ![j].pc = pc]

\* The reload reports the error; at startup what is on disk is loaded instead.
Fail(j) ==
    /\ job' = [job EXCEPT ![j] = Idle]
    /\ IF j = Startup THEN LoadFromDisk ELSE UNCHANGED <<server, network>>

DownloadAndExtract(j) ==
    /\ job[j].pc = "download"
    /\ \/ Goto(j, "validate") /\ UNCHANGED <<server, network, left>>
       \/ Spend("faults") /\ Fail(j)
    /\ UNCHANGED <<current, backup, deployed>>

\* The dataset is loaded before the directory is touched.
Validate(j) ==
    /\ job[j].pc = "validate"
    /\ \/ job[j].sha \in Valid /\ Goto(j, "clear") /\ UNCHANGED <<server, network>>
       \/ job[j].sha \notin Valid /\ Fail(j)
    /\ UNCHANGED <<current, backup, deployed, left>>

\* A backup that was left behind stops the installation.
StopAtBackup(j) ==
    /\ job[j].pc = "clear"
    /\ IF backup = None THEN Goto(j, "stash") /\ UNCHANGED <<server, network>> ELSE Fail(j)
    /\ UNCHANGED <<current, backup, deployed, left>>

\* atomic_replace_dir: a backup that an earlier swap left behind is removed.
ClearBackup(j) ==
    /\ job[j].pc = "clear"
    /\ \/ backup' = None /\ Goto(j, "stash") /\ UNCHANGED <<server, network, left>>
       \/ backup # None /\ Spend("faults") /\ Fail(j) /\ UNCHANGED backup
    /\ UNCHANGED <<current, deployed>>

\* The current directory becomes the backup. A rename onto a directory that is not
\* empty fails.
Stash(j) ==
    /\ job[j].pc = "stash"
    /\ \/ /\ current = None
          /\ Goto(j, "move")
          /\ UNCHANGED <<server, network, current, backup, left>>
       \/ /\ current # None /\ backup = None
          /\ backup' = current /\ current' = None
          /\ Goto(j, "place")
          /\ UNCHANGED <<server, network, left>>
       \/ /\ current # None
          /\ \/ backup # None /\ UNCHANGED left
             \/ Spend("faults")
          /\ Fail(j)
          /\ UNCHANGED <<current, backup>>
    /\ UNCHANGED deployed

\* The new directory is renamed into place.
Place(j) ==
    /\ job[j].pc \in {"place", "move"}
    /\ \/ /\ current = None
          /\ current' = Dir(job[j].sha)
          /\ Goto(j, "tidy")
          /\ UNCHANGED <<server, network, left>>
       \/ /\ \/ current # None /\ UNCHANGED left
             \/ Spend("faults")
          /\ IF job[j].pc = "place"
             THEN Goto(j, "rollback") /\ UNCHANGED <<server, network>>
             ELSE Fail(j)
          /\ UNCHANGED current
    /\ UNCHANGED <<backup, deployed>>


\* When that failed, the backup is renamed back, and the installation has failed
\* either way.
Rollback(j) ==
    /\ job[j].pc = "rollback"
    /\ IF backup # None /\ current = None
       THEN \/ /\ current' = backup /\ backup' = None
               /\ job' = [job EXCEPT ![j] = Idle]
               /\ IF j = Startup THEN server' = "up" /\ network' = backup.data
                                 ELSE UNCHANGED <<server, network>>
               /\ UNCHANGED left
            \/ Spend("faults") /\ Fail(j) /\ UNCHANGED <<current, backup>>
       ELSE Fail(j) /\ UNCHANGED <<current, backup, left>>
    /\ UNCHANGED deployed

\* The backup is removed; when that fails it is left for the next installation.
Tidy(j) ==
    /\ job[j].pc = "tidy"
    /\ \/ backup' = None /\ UNCHANGED left
       \/ backup # None /\ Spend("faults") /\ UNCHANGED backup
    /\ Goto(j, "mark")
    /\ UNCHANGED <<server, network, current, deployed>>

\* save_sha writes into the coverage directory, whatever it holds by now.
SaveSha(j) ==
    /\ job[j].pc = "mark"
    /\ \/ /\ current # None
          /\ current' = [current EXCEPT !.marker = job[j].sha]
          /\ Goto(j, "swap")
          /\ UNCHANGED <<server, network, left>>
       \/ /\ \/ current = None /\ UNCHANGED left
             \/ Spend("faults")
          /\ Fail(j)
          /\ UNCHANGED current
    /\ UNCHANGED <<backup, deployed>>

\* The caller puts the network it was given to use: replace_network, or main.
ReplaceNetwork(j) ==
    /\ job[j].pc = "swap"
    /\ server' = "up"
    /\ network' = job[j].sha
    /\ job' = [job EXCEPT ![j] = Idle]
    /\ UNCHANGED <<current, backup, deployed, left>>

FetchAndInstall(j) ==
    \/ DownloadAndExtract(j) \/ Validate(j) \/ ClearBackup(j) \/ Stash(j) \/ Place(j)
    \/ Rollback(j) \/ Tidy(j) \/ SaveSha(j) \/ ReplaceNetwork(j)

Next ==
    \/ Sync
    \/ Crash
    \/ \E s \in Valid : Deploy(s)
    \/ \E j \in Jobs : FetchAndInstall(j)
    \/ \E j \in Jobs, token \in Tokens, s \in Shas : ReloadDataset(j, token, s)

\* The service manager restarts the server, and tasks that can go on do.
Spec == Init /\ [][Next]_vars /\ WF_vars(Sync) /\ \A j \in Jobs : WF_vars(FetchAndInstall(j))

-----------------------------------------------------------------------------
(* Properties. *)

AtRest == \A j \in Jobs : job[j] = Idle

\* The marker of the coverage directory names the dataset that is in it: the next
\* startup compares nothing but the marker (sync_on_startup).
MarkerNamesTheDataset == current # None /\ current.marker # None => current.data = current.marker

\* A dataset that does not load never reaches the disk (fetch_and_install validates it
\* before it touches the coverage directory).
OnlyValidDatasetsOnDisk == \A d \in {current, backup} \ {None} : d.data \in Valid

\* Once nothing is being installed, a running server serves what the coverage directory
\* holds, unless the directory carries no marker and the next startup replaces it.
ServedIsInstalled ==
    AtRest /\ server = "up" /\ current # None /\ current.marker # None => network = current.data

\* An installation in which one thing fails leaves the server with a coverage directory:
\* the swap is rolled back (atomic_replace_dir).
FailedSwapsAreUndone == AtRest => current # None

\* After the last crash and the last fault the server comes up and stays up: no
\* interrupted installation leaves it unable to start (main).
Recovers == <>[](server = "up")

\* "Atomically replace `dst` with `src` using directory renames": a server that is not
\* running always has a coverage directory to start from.
ReplacementIsAtomic == server = "down" => current # None

=============================================================================
