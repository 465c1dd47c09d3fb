------------------------------ MODULE DecisionApi ------------------------------
(***************************************************************************)
(* The decision API (api/index.py over webapp/service.py) and the file     *)
(* that the refresh worker replaces under it.                              *)
(*                                                                         *)
(* The publisher is PublishedRelease: the worker's own promise.  A request *)
(* runs in a thread of the pool.  The release is read from the file on     *)
(* every decision, and twice: once for the catalog and the projections,    *)
(* once for the metadata.  The bootstrap, which readiness and squad import *)
(* use, is read once and kept by lru_cache(maxsize=1) until the process    *)
(* ends.                                                                   *)
(*                                                                         *)
(* A release is known by its place in the order of publication.            *)
(***************************************************************************)
EXTENDS Naturals, Sequences, PublishedRelease

CONSTANTS
  Requests,      \* requests received in one behaviour
  Horizons,      \* horizons a release may have, each named by its Gameweeks
  AllowedHealth  \* FPL_ALLOWED_RELEASE_HEALTH

VARIABLES
  (* the release file *)
  history,    \* what the file has held, oldest first; the last one is there now
  (* the API process *)
  cache,      \* _bootstrap's cached value: the releases its two reads found
  pc,         \* what the thread of each request does next
  kind,       \* the endpoint that the request is for
  file,       \* whether _release_path found the release file
  catalog,    \* the release that load_release_catalog read
  metadata,   \* the release that the metadata were read from
  boot,       \* the bootstrap that the request was given
  answer,
  (* history, read by properties only *)
  arrived     \* the release that was there when the request arrived

requestVars == <<pc, kind, file, catalog, metadata, boot, answer, arrived>>
apiVars == <<cache, requestVars>>
vars == <<pVars, history, apiVars>>

Kinds == {"ready", "bootstrap", "entry", "decision"}
Threads == {"idle", "catalog", "metadata", "remember", "picks", "resolve",
            "ready", "bootstrap", "decide", "done"}
Answers == {"none", "lost", "refused", "unavailable", "ok",
            "release_artifact", "runtime", "withheld"}

\* What a release is to its readers.  Without a release file the service reads the
\* database: "research" health, no release ID, no benchmark.
Releases ==
  [file: {TRUE}, horizon: Horizons, health: {"research", "shadow", "production"},
   benchmark: BOOLEAN] \cup
  [file: {FALSE}, horizon: Horizons, health: {"research"}, benchmark: {FALSE}]

\* What the exporter writes (DeadlineRefresh, PublishedPassedGates).
ExportedReleases ==
  {r \in Releases : r.file /\ r.health \in {"shadow", "production"}}

NoRelease == 0
Current == Len(history)
Versions == NoRelease .. Current
NoPair == [catalog |-> NoRelease, metadata |-> NoRelease]
Pairs == [catalog: Versions, metadata: Versions]

Init ==
  /\ PInit
  /\ \E r \in Releases : history = <<r>>
  /\ cache = NoPair
  /\ pc = [q \in Requests |-> "idle"]
  /\ kind = [q \in Requests |-> "decision"]
  /\ file = [q \in Requests |-> FALSE]
  /\ catalog = [q \in Requests |-> NoRelease]
  /\ metadata = [q \in Requests |-> NoRelease]
  /\ boot = [q \in Requests |-> NoPair]
  /\ answer = [q \in Requests |-> "none"]
  /\ arrived = [q \in Requests |-> NoRelease]

Goto(q, stage) == pc' = [pc EXCEPT ![q] = stage]

Reply(q, a) ==
  /\ Goto(q, "done")
  /\ answer' = [answer EXCEPT ![q] = a]

-----------------------------------------------------------------------------
(* The publisher. *)

Publish ==
  /\ Switch
  /\ \E r \in ExportedReleases : history' = Append(history, r)
  /\ UNCHANGED apiVars

Prepare ==
  /\ (\E a \in Attempts : Open(a)) \/ Accept \/ Close
  /\ UNCHANGED <<history, apiVars>>

-----------------------------------------------------------------------------
(* One request. *)

\* Where a request goes with a bootstrap in hand.
WithBootstrap(k) == IF k = "entry" THEN "picks" ELSE k

\* A request that needs the bootstrap gets the cached one, if there is one.
Receive(q, k) ==
  /\ pc[q] = "idle"
  /\ kind' = [kind EXCEPT ![q] = k]
  /\ arrived' = [arrived EXCEPT ![q] = Current]
  /\ file' = [file EXCEPT ![q] = history[Current].file]
  /\ IF k # "decision" /\ cache # NoPair
       THEN boot' = [boot EXCEPT ![q] = cache] /\ Goto(q, WithBootstrap(k))
       ELSE Goto(q, "catalog") /\ UNCHANGED boot
  /\ UNCHANGED <<pVars, history, cache, catalog, metadata, answer>>

\* What the release, once read, is for.
Purpose(q) ==
  CASE kind[q] = "decision" -> "decide"
    [] kind[q] # "decision" /\ boot[q] = NoPair -> "remember"
    [] OTHER -> "resolve"

\* Mutant of LoadCatalog: a decision is taken from the bootstrap's release.
LoadCachedCatalog(q) ==
  /\ pc[q] = "catalog"
  /\ file[q]
  /\ catalog' = [catalog EXCEPT ![q] =
       IF kind[q] = "decision" /\ cache # NoPair THEN cache.catalog ELSE Current]
  /\ Goto(q, "metadata")
  /\ UNCHANGED <<pVars, history, cache, kind, file, metadata, boot, answer, arrived>>

\* load_release_catalog: the first read.
LoadCatalog(q) ==
  /\ pc[q] = "catalog"
  /\ file[q]
  /\ catalog' = [catalog EXCEPT ![q] = Current]
  /\ Goto(q, "metadata")
  /\ UNCHANGED <<pVars, history, cache, kind, file, metadata, boot, answer, arrived>>

\* The second read of the same path.
LoadMetadata(q) ==
  /\ pc[q] = "metadata"
  /\ metadata' = [metadata EXCEPT ![q] = Current]
  /\ Goto(q, Purpose(q))
  /\ UNCHANGED <<pVars, history, cache, kind, file, catalog, boot, answer, arrived>>

\* No release file: one connection to the database, which may hold no horizon.
LoadDatabase(q) ==
  /\ pc[q] = "catalog"
  /\ ~file[q]
  /\ \/ /\ catalog' = [catalog EXCEPT ![q] = 1]
        /\ metadata' = [metadata EXCEPT ![q] = 1]
        /\ Goto(q, Purpose(q))
        /\ UNCHANGED answer
     \/ /\ Reply(q, "refused")
        /\ UNCHANGED <<catalog, metadata>>
  /\ UNCHANGED <<pVars, history, cache, kind, file, boot, arrived>>

\* lru_cache keeps the first result of several concurrent misses; each of them
\* returns its own.
Remember(q) ==
  /\ pc[q] = "remember"
  /\ LET pair == [catalog |-> catalog[q], metadata |-> metadata[q]] IN
       /\ boot' = [boot EXCEPT ![q] = pair]
       /\ cache' = IF cache = NoPair THEN pair ELSE cache
  /\ Goto(q, WithBootstrap(kind[q]))
  /\ UNCHANGED <<pVars, history, kind, file, catalog, metadata, answer, arrived>>

\* /api/ready and /api/health judge the bootstrap they were given; they may also find
\* the alpha configuration wanting.
IsReady(b) ==
  /\ history[b.catalog].health \in AllowedHealth
  /\ history[b.catalog].health = "production" => history[b.metadata].benchmark

Ready(q) ==
  /\ pc[q] = "ready"
  /\ \/ IsReady(boot[q]) /\ Reply(q, "ok")
     \/ Reply(q, "refused")
  /\ UNCHANGED <<pVars, history, cache, kind, file, catalog, metadata, boot, arrived>>

Bootstrap(q) ==
  /\ pc[q] = "bootstrap"
  /\ Reply(q, "ok")
  /\ UNCHANGED <<pVars, history, cache, kind, file, catalog, metadata, boot, arrived>>

\* squad_from_entry without a Gameweek asks FPL for the picks of the bootstrap's first
\* Gameweek, then looks for the release file again.
FetchPicks(q) ==
  /\ pc[q] = "picks"
  /\ \/ /\ Goto(q, "catalog")
        /\ file' = [file EXCEPT ![q] = history[Current].file]
        /\ UNCHANGED answer
     \/ Reply(q, "unavailable") /\ UNCHANGED file
  /\ UNCHANGED <<pVars, history, cache, kind, catalog, metadata, boot, arrived>>

\* resolve_entry_picks: the squad may have players without projections.
Resolve(q) ==
  /\ pc[q] = "resolve"
  /\ Reply(q, "ok") \/ Reply(q, "refused")
  /\ UNCHANGED <<pVars, history, cache, kind, file, catalog, metadata, boot, arrived>>

\* Mutant of Rating: any ready artifact rates any decision.
RatingAnyHorizon(c, m) ==
  IF m.benchmark THEN "release_artifact"
  ELSE IF c.health = "production" THEN "withheld" ELSE "runtime"

\* _squad_rating_payload: a ready materialized benchmark is used when its Gameweeks are
\* the horizon's; without one a benchmark is built, but not for a production release.
Rating(c, m) ==
  IF m.benchmark
    THEN IF m.horizon = c.horizon THEN "release_artifact" ELSE "withheld"
    ELSE IF c.health = "production" THEN "withheld" ELSE "runtime"

\* recommend_web_lineups, recommend_web_transfers, compare_web_wildcard: the request may
\* be invalid, the rating may be withheld for want of a population, and there is
\* no receipt, hence no answer, for a decision without a release ID.
Decide(q) ==
  /\ pc[q] = "decide"
  /\ \/ Reply(q, "refused")
     \/ /\ history[catalog[q]].file
        /\ \E a \in {Rating(history[catalog[q]], history[metadata[q]]), "withheld"} :
             Reply(q, a)
  /\ UNCHANGED <<pVars, history, cache, kind, file, catalog, metadata, boot, arrived>>

\* The API process is restarted: its cache is gone, and so are the requests in it.
Restart ==
  /\ cache' = NoPair
  /\ pc' = [q \in Requests |-> IF pc[q] = "idle" THEN "idle" ELSE "done"]
  /\ answer' = [q \in Requests |->
       IF pc[q] \in {"idle", "done"} THEN answer[q] ELSE "lost"]
  /\ UNCHANGED <<pVars, history, kind, file, catalog, metadata, boot, arrived>>

-----------------------------------------------------------------------------

Handle(q) ==
  \/ \E k \in Kinds : Receive(q, k)
  \/ LoadCatalog(q) \/ LoadMetadata(q) \/ LoadDatabase(q) \/ Remember(q)
  \/ Ready(q) \/ Bootstrap(q) \/ FetchPicks(q) \/ Resolve(q) \/ Decide(q)

Next ==
  \/ Publish \/ Prepare
  \/ \E q \in Requests : Handle(q)
  \/ Restart

Spec == Init /\ [][Next]_vars

-----------------------------------------------------------------------------
(* Properties. *)

Decided(q) == answer[q] \in {"release_artifact", "runtime", "withheld"}

\* Every variable has its type, and every release published since the start was
\* exportable.
TypeOK ==
  /\ served \in Attempts \cup {Nothing}
  /\ open \in Attempts \cup {Nothing}
  /\ accepted \in BOOLEAN
  /\ spent \subseteq Attempts
  /\ history \in Seq(Releases)
  /\ history # <<>>
  /\ \A i \in 2 .. Current : history[i] \in ExportedReleases
  /\ cache \in Pairs
  /\ pc \in [Requests -> Threads]
  /\ kind \in [Requests -> Kinds]
  /\ file \in [Requests -> BOOLEAN]
  /\ catalog \in [Requests -> Versions]
  /\ metadata \in [Requests -> Versions]
  /\ boot \in [Requests -> Pairs]
  /\ answer \in [Requests -> Answers]
  /\ arrived \in [Requests -> Versions]

\* A decision is computed from a release that was published when the request arrived
\* or after, whatever the process has cached: a client that sends a second request
\* after the answer to its first never goes back to an older release.
FreshDecisions ==
  \A q \in Requests :
    Decided(q) => arrived[q] <= catalog[q] /\ catalog[q] <= metadata[q]

\* Whatever two releases the two reads found, a rating compares squads over the
\* same Gameweeks, and a production release is rated by a materialized benchmark or
\* not at all (docs/WEB_APP.md).
RatingsAreSound ==
  \A q \in Requests :
    /\ answer[q] = "release_artifact" =>
         history[metadata[q]].horizon = history[catalog[q]].horizon
    /\ answer[q] = "runtime" => history[catalog[q]].health # "production"

\* Of several bootstraps loaded at once, from releases that may differ, the first is
\* kept and no later one replaces it until the process restarts: the clients that
\* come after are all given the same.
BootstrapKept ==
  [][cache # NoPair => cache' \in {cache, NoPair}]_vars

-----------------------------------------------------------------------------
(* The inductive invariant behind FreshDecisions and RatingsAreSound. *)

\* Only before the first publication is there no release file.
FilesAppear ==
  \A q \in Requests :
    /\ pc[q] # "idle" => arrived[q] >= 1
    /\ pc[q] = "catalog" /\ ~file[q] => arrived[q] = 1

\* Each read finds what is there, and what is there only gets newer.
ReadsInOrder ==
  \A q \in Requests :
    /\ pc[q] \in {"metadata", "remember", "resolve", "decide"} =>
         arrived[q] <= catalog[q] /\ catalog[q] >= 1
    /\ pc[q] \in {"remember", "resolve", "decide"} => catalog[q] <= metadata[q]
    /\ pc[q] = "remember" => kind[q] # "decision"

\* A request without an answer is in progress.
AnswersEnd == \A q \in Requests : pc[q] # "done" => answer[q] = "none"

IInv ==
  /\ TypeOK
  /\ FilesAppear
  /\ ReadsInOrder
  /\ AnswersEnd
  /\ FreshDecisions
  /\ \A q \in Requests : Decided(q) => catalog[q] >= 1
  /\ RatingsAreSound

===============================================================================
