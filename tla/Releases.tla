------------------------------ MODULE Releases ------------------------------
(***************************************************************************)
(* Client updates: the update check of vacs-server/src/release.rs over the    *)
(* GitHub catalog of release/catalog/github.rs and the policy of             *)
(* release/policy.rs. The catalog is a cache that every check may refresh,     *)
(* with the locks of its parts taken one after another; checks, the            *)
(* administrator's reload and what happens at GitHub interleave.              *)
(*                                                                         *)
(* A version is a number in the order of semver; a release at GitHub is a      *)
(* record with what the filters look at.                                    *)
(***************************************************************************)
EXTENDS Naturals, Sequences, FiniteSets, SequencesExt, FiniteSetsExt

CONSTANTS None, Raws, Queries, Policy, Tasks,
          PageSize, MaxPages,          \* 100 and 10 in the code
          ReleaseTtl, SignatureTtl, FetchTime,
          MaxTime, MaxEdits, MaxChecks

VARIABLES
    clock,
    github,      \* the releases, the newest first; signed says which upload is current
    retired,     \* for what was edited: when a version was withdrawn, a signature replaced
    catalog,     \* releases by version, the version lists of the channels, when it was written
    signatures,  \* the cached signatures of assets
    task,        \* the requests being served
    reloaded,    \* what was the newest release at GitHub when it answered the last reload that succeeded
    left

vars == <<clock, github, retired, catalog, signatures, task, reloaded, left>>

Channels == {"stable", "beta", "rc"}

-----------------------------------------------------------------------------
(* What the code makes of a release. *)

\* BundleType::from_file_name and derive_release_asset_arch: other files are no assets
AssetsOf(raw) == {x \in raw.assets : x.bundle # "other" /\ x.arch # "other"}

DeriveReleaseChannel(raw) ==
    CASE ~raw.prerelease /\ raw.pre = "" -> "stable"
      [] raw.pre = "rc"                  -> "rc"
      [] OTHER                           -> "beta"

\* filter_map_release: drafts, releases of other parts and empty ones are skipped
FilterMapRelease(raw) ==
    IF raw.draft \/ ~raw.titled \/ AssetsOf(raw) = {} THEN {}
    ELSE {[version |-> raw.version, channel |-> DeriveReleaseChannel(raw),
           required |-> raw.mandatory \/ raw.breaking, assets |-> AssetsOf(raw)]}

\* fetch_all_releases: the pages that arrived, up to the first that did not
Pages(raws, n) == SubSeq(raws, 1, Min({n * PageSize, Len(raws)}))
PageCount      == (Len(github) + PageSize - 1) \div PageSize

\* the later of two releases of one version wins
ByVersion(raws) ==
    LET metas(i)  == FilterMapRelease(raws[i])
        listing(v) == {i \in 1 .. Len(raws) : \E m \in metas(i) : m.version = v}
    IN  [v \in {m.version : m \in UNION {metas(i) : i \in 1 .. Len(raws)}} |->
            CHOOSE m \in metas(Max(listing(v))) : TRUE]

VersionsOf(raws, ch) ==
    {r.version : r \in {m \in UNION {FilterMapRelease(raws[i]) : i \in 1 .. Len(raws)} : m.channel = ch}}

-----------------------------------------------------------------------------
(* Policy *)

VisibleChannels(ch) == IF ch \in DOMAIN Policy.visibility THEN Policy.visibility[ch] ELSE <<ch>>

IsRequired(ch, v) ==
    \E c \in Range(VisibleChannels(ch)) :
        c \in DOMAIN Policy.required /\ v \in Policy.required[c]

-----------------------------------------------------------------------------
Idle == [pc |-> "idle"]

TypeOK ==
    /\ clock \in 0 .. MaxTime
    /\ \A v \in DOMAIN catalog.releases : catalog.releases[v].version = v
    /\ catalog.at \in {None} \union (0 .. clock)
    /\ \A url \in DOMAIN signatures : signatures[url].at \in 0 .. clock
    /\ \A t \in Tasks : task[t].pc \in {"idle", "list", "fetch", "pages", "lists", "prefetch", "sign"}

Init ==
    /\ clock = 0
    /\ github \in {<<r>> : r \in {x \in Raws : x.version = 1}}
    /\ retired = {}
    /\ LET raws == Pages(github, 1)
       IN  catalog = [releases |-> ByVersion(raws), lists |-> [ch \in Channels |-> VersionsOf(raws, ch)], at |-> 0]
    /\ signatures = <<>>
    /\ task = [t \in Tasks |-> Idle]
    /\ reloaded = {}
    /\ left = [edits |-> MaxEdits, checks |-> MaxChecks]

Spend(what) == left[what] > 0 /\ left' = [left EXCEPT ![what] = @ - 1]

\* A fetch has its timeout, and everything else is instantaneous beside it.
Tick ==
    /\ clock < MaxTime
    /\ \A t \in Tasks : 
           \/ task[t].pc = "idle"
           \/ task[t].pc = "pages" /\ clock < task[t].since + FetchTime
    /\ clock' = clock + 1
    /\ UNCHANGED <<github, retired, catalog, signatures, task, reloaded, left>>

\* At GitHub: a release is published, withdrawn, or uploaded again with a new signature.
\* A version number is used once.
Publish(raw) ==
    /\ \A i \in 1 .. Len(github) : github[i].version < raw.version
    /\ \A r \in retired : r.version # raw.version
    /\ github' = <<raw>> \o github
    /\ Spend("edits")
    /\ UNCHANGED <<clock, retired, catalog, signatures, task, reloaded>>

Withdraw(i) ==
    /\ github' = RemoveAt(github, i)
    /\ retired' = retired \union {[version |-> github[i].version, upload |-> None, at |-> clock]}
    /\ Spend("edits")
    /\ UNCHANGED <<clock, catalog, signatures, task, reloaded>>

Reupload(i) ==
    /\ github' = [github EXCEPT ![i].upload = @ + 1]
    /\ retired' = retired \union {[version |-> github[i].version, upload |-> github[i].upload, at |-> clock]}
    /\ Spend("edits")
    /\ UNCHANGED <<clock, catalog, signatures, task, reloaded>>

\* the signature at an asset's URL now: the upload of its release, or None
SignatureAt(v) ==
    LET at == {i \in 1 .. Len(github) : github[i].version = v}
    IN  IF at = {} THEN None ELSE github[Max(at)].upload

-----------------------------------------------------------------------------
(* The catalog *)

\* the release that was published last, if the catalog is to have it
Newest == IF github = <<>> THEN {} ELSE {m.version : m \in FilterMapRelease(Head(github))}

Expired == catalog.at = None \/ clock - catalog.at > ReleaseTtl

\* reload_releases
RefreshCatalog(t) ==
    /\ task[t] = Idle
    /\ Spend("checks")
    /\ task' = [task EXCEPT ![t] = [pc |-> "fetch", check |-> None]]
    /\ UNCHANGED <<clock, github, retired, catalog, signatures, reloaded>>


\* GitHub answers with the releases as they are now; a page that does not arrive ends
\* the list, the first one fails the request.
FetchAllReleases(t) ==
    /\ task[t].pc = "fetch"
    /\ \/ \E n \in 1 .. Min({MaxPages, Max({1, PageCount})}) :
              task' = [task EXCEPT ![t] = [pc |-> "pages", raws |-> Pages(github, n),
                                                   newest |-> Newest, whole |-> n >= PageCount, since |-> clock] @@ @]
       \/ task' = [task EXCEPT ![t] = Idle]
    /\ UNCHANGED <<clock, github, retired, catalog, signatures, reloaded, left>>

\* The map of releases is written before the lists that are looked up in it.
WriteReleases(t) ==
    /\ task[t].pc = "pages"
    /\ catalog' = [catalog EXCEPT !.releases = ByVersion(task[t].raws)]
    /\ task' = [task EXCEPT ![t].pc = "lists"]
    /\ UNCHANGED <<clock, github, retired, signatures, reloaded, left>>

WriteVersions(t) ==
    /\ task[t].pc = "lists"
    /\ catalog' = [catalog EXCEPT !.lists = [ch \in Channels |-> VersionsOf(task[t].raws, ch)],
                                  !.at = clock]
    /\ task' = [task EXCEPT ![t].pc = "prefetch"]
    /\ reloaded' = IF task[t].whole THEN reloaded ELSE {}
    /\ UNCHANGED <<clock, github, retired, signatures, left>>

\* prefetch_latest_signatures: of each channel the latest release, each signature or none
PrefetchLatestSignatures(t) ==
    /\ task[t].pc = "prefetch"
    /\ LET latest == {Max(catalog.lists[ch]) : ch \in {c \in Channels : catalog.lists[c] # {}}}
                         \cap DOMAIN catalog.releases
           there  == {v \in latest : SignatureAt(v) # None}
       IN  \E got \in SUBSET there :
               signatures' = [v \in got |-> [at |-> clock, upload |-> SignatureAt(v)]] @@ signatures
    /\ task' = [task EXCEPT ![t] =
                    IF @.check = None THEN Idle ELSE [pc |-> "list", check |-> @.check]]
    /\ reloaded' = IF task[t].check = None THEN task[t].newest ELSE reloaded
    /\ UNCHANGED <<clock, github, retired, catalog, left>>

Listed(ch) == {catalog.releases[v] : v \in catalog.lists[ch] \cap DOMAIN catalog.releases}

-----------------------------------------------------------------------------
(* UpdateChecker::check *)

StartCheck(t, q) ==
    /\ task[t] = Idle
    /\ Spend("checks")
    /\ task' = [task EXCEPT ![t] =
                    [pc |-> "list",
                     check |-> [query |-> q, todo |-> VisibleChannels(q.channel), newer |-> {},
                                offer |-> None, required |-> FALSE]]]
    /\ UNCHANGED <<clock, github, retired, catalog, signatures, reloaded>>

\* newer than the client and built for it
Suits(m, q) ==
    /\ m.version > q.version
    /\ \E x \in m.assets : x.bundle = q.bundle /\ x.arch = q.arch

\* The first pass collects what is newer, the second asks whether any of it is required.
\* Each list may find the catalog out of date and fetch it first.
ListChannel(t) ==
    /\ task[t].pc = "list"
    /\ LET c    == task[t].check
           q    == c.query
           ch   == Head(c.todo)
           good == {m \in Listed(ch) : Suits(m, q)}
           put(d) == task' = [task EXCEPT ![t] = [pc |-> "list", check |-> d]]
       IN  CASE c.todo # <<>> /\ Expired ->
                    task' = [task EXCEPT ![t].pc = "fetch"]
             [] c.todo # <<>> /\ ~Expired /\ c.offer = None ->
                    put([c EXCEPT !.todo = Tail(@), !.newer = @ \union {m.version : m \in good}])
             [] c.todo # <<>> /\ ~Expired /\ c.offer # None ->
                    IF \E m \in good : m.required \/ IsRequired(ch, m.version)
                    THEN put([c EXCEPT !.todo = <<>>, !.required = TRUE])
                    ELSE put([c EXCEPT !.todo = Tail(@)])
             [] c.todo = <<>> /\ c.offer = None ->
                    IF c.newer = {} THEN task' = [task EXCEPT ![t] = Idle]
                    ELSE put([c EXCEPT !.offer = Max(c.newer), !.todo = VisibleChannels(q.channel)])
             [] OTHER -> task' = [task EXCEPT ![t].pc = "sign"]
    /\ UNCHANGED <<clock, github, retired, catalog, signatures, reloaded, left>>

\* A cached signature that is too old is dropped and fetched again; without one there
\* is no answer.
LoadSignature(t) ==
    /\ task[t].pc = "sign"
    /\ LET v     == task[t].check.offer
           fresh == v \in DOMAIN signatures /\ clock - signatures[v].at < SignatureTtl
       IN  \/ fresh /\ UNCHANGED signatures
           \/ /\ ~fresh /\ SignatureAt(v) # None
              /\ signatures' = [w \in {v} |-> [at |-> clock, upload |-> SignatureAt(v)]] @@ signatures
           \/ /\ ~fresh
              /\ signatures' = RestrictDomain(signatures, LAMBDA w : w # v)
    /\ task' = [task EXCEPT ![t] = Idle]
    /\ UNCHANGED <<clock, github, retired, catalog, reloaded, left>>

Next ==
    \/ Tick
    \/ \E raw \in Raws : Publish(raw)
    \/ \E i \in 1 .. Len(github) : Withdraw(i) \/ Reupload(i)
    \/ \E t \in Tasks :
           \/ RefreshCatalog(t) \/ FetchAllReleases(t) \/ WriteReleases(t) \/ WriteVersions(t)
           \/ PrefetchLatestSignatures(t) \/ ListChannel(t) \/ LoadSignature(t)
           \/ \E q \in Queries : StartCheck(t, q)

Spec == Init /\ [][Next]_vars

-----------------------------------------------------------------------------
(* Properties. *)

\* A signature that a check would hand out from the cache was the one at GitHub no longer
\* ago than the lifetime of the cache (load_signature, prefetch_latest_signatures).
SignaturesAreRecent ==
    \A v \in DOMAIN signatures : clock - signatures[v].at < SignatureTtl =>
        \A r \in retired : r.version = v /\ r.upload = signatures[v].upload => clock - r.at <= SignatureTtl

\* What a check finds without asking GitHub was there no longer ago than the lifetime of
\* the catalog and the time one fetch may take (list, fetch_releases).
CatalogIsRecent ==
    ~Expired => \A ch \in Channels : \A m \in Listed(ch) :
        \A r \in retired : r.version = m.version /\ r.upload = None => clock - r.at <= ReleaseTtl + FetchTime

\* With nobody else at the catalog, the offer is the newest release the client can see and
\* run, and it is called required exactly when some release it can see and run, up to and
\* with the offer, is (UpdateChecker::check, which reads the lists twice).
OfferFitsTheCatalog ==
    \A t \in Tasks : task[t].pc = "sign" =>
        LET c    == task[t].check
            good == {m \in UNION {Listed(ch) : ch \in Range(VisibleChannels(c.query.channel))} : Suits(m, c.query)}
        IN  /\ c.offer = Max({m.version : m \in good})
            /\ c.required = \E m \in good : m.required \/ IsRequired(m.channel, m.version)

\* "Repopulate the release catalog so the updater offers a new release before the cache
\* TTL expires": the newest release when GitHub answered a reload, or one after it, is
\* listed once the reload has succeeded, unless it was withdrawn or a later list was cut short.
ReloadTakesEffect ==
    \A v \in reloaded : (\A r \in retired : r.version # v) /\ (\A t \in Tasks : task[t].pc # "lists") =>
        \E ch \in Channels : \E m \in Listed(ch) : m.version >= v

=============================================================================
