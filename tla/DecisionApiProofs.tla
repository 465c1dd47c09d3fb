--------------------------- MODULE DecisionApiProofs ---------------------------
(***************************************************************************)
(* What the decision API guarantees for any number of requests, releases   *)
(* and horizons; and what the limiter in front of it guarantees for every  *)
(* limit, window and number of requests.                                   *)
(***************************************************************************)
EXTENDS DecisionApi, RateLimiter, TLAPS

\* Publishing appends one exportable release and leaves the earlier ones alone.
LEMMA PublishAppends ==
  ASSUME TypeOK, NEW r \in ExportedReleases, history' = Append(history, r)
  PROVE  /\ history' \in Seq(Releases)
         /\ history' # <<>>
         /\ Current' = Current + 1
         /\ \A i \in 1 .. Current : history'[i] = history[i]
         /\ \A i \in 2 .. Current' : history'[i] \in ExportedReleases
<1>1. history \in Seq(Releases) /\ r \in Releases
  BY DEF TypeOK, ExportedReleases
<1>2. /\ Len(Append(history, r)) = Len(history) + 1
      /\ Append(history, r) \in Seq(Releases)
      /\ \A i \in 1 .. Len(history) : Append(history, r)[i] = history[i]
      /\ Append(history, r)[Len(history) + 1] = r
  BY <1>1
<1>3. QED
  BY <1>1, <1>2 DEF TypeOK, Current

\* There is always a release to look for.
LEMMA CurrentIsPositive == ASSUME TypeOK PROVE Current \in Nat \ {0}
  BY DEF TypeOK, Current

\* The release file is not lost: from the second release on there is one.
LEMMA FileIsLost == ASSUME TypeOK, ~history[Current].file PROVE Current = 1
<1>1. Current \in Nat \ {0}
  BY CurrentIsPositive
<1>2. CASE Current > 1
  <2>1. history[Current] \in ExportedReleases
    BY <1>1, <1>2 DEF TypeOK
  <2>2. QED
    BY <2>1 DEF ExportedReleases
<1>3. QED
  BY <1>1, <1>2

\* The rating is one of three.
LEMMA RatingMeaning ==
  ASSUME NEW c, NEW m
  PROVE  /\ Rating(c, m) \in {"release_artifact", "runtime", "withheld"}
         /\ Rating(c, m) = "release_artifact" => m.horizon = c.horizon
         /\ Rating(c, m) = "runtime" => c.health # "production"
  BY DEF Rating

-----------------------------------------------------------------------------
(* Each step keeps the invariant. *)

LEMMA PublishKeeps == ASSUME IInv, Publish PROVE IInv'
<1>1. PICK r \in ExportedReleases : history' = Append(history, r)
  BY DEF Publish
<1>2. /\ history' \in Seq(Releases)
      /\ history' # <<>>
      /\ Current' = Current + 1
      /\ \A i \in 1 .. Current : history'[i] = history[i]
      /\ \A i \in 2 .. Current' : history'[i] \in ExportedReleases
  BY <1>1, PublishAppends DEF IInv
<1>3. TypeOK'
  <2>1. UNCHANGED <<cache, pc, kind, file, catalog, metadata, boot, answer, arrived>>
    BY DEF Publish, apiVars, requestVars
  <2>2. Versions \subseteq Versions' /\ Pairs \subseteq Pairs'
    <3>1. Versions \subseteq Versions'
      BY <1>2, CurrentIsPositive DEF IInv, Versions, NoRelease
    <3>2. QED
      BY <3>1 DEF Pairs
  <2>3. /\ cache' \in Pairs' /\ boot' \in [Requests -> Pairs']
        /\ catalog' \in [Requests -> Versions'] /\ metadata' \in [Requests -> Versions']
        /\ arrived' \in [Requests -> Versions']
    BY <2>1, <2>2 DEF IInv, TypeOK
  <2>4. /\ served' \in Attempts \cup {Nothing} /\ open' \in Attempts \cup {Nothing}
        /\ accepted' \in BOOLEAN /\ spent' \subseteq Attempts
    BY DEF IInv, TypeOK, Publish, Switch
  <2>5. QED
    BY <1>2, <2>1, <2>3, <2>4 DEF IInv, TypeOK
<1>4. (FilesAppear /\ ReadsInOrder /\ AnswersEnd /\ FreshDecisions)'
  BY DEF IInv, Publish, apiVars, requestVars, FilesAppear, ReadsInOrder,
     AnswersEnd, FreshDecisions, Decided
<1>5. \A q \in Requests : Decided(q)' => catalog'[q] >= 1
  BY DEF IInv, Publish, apiVars, requestVars, Decided
<1>6. RatingsAreSound'
  <2> SUFFICES ASSUME NEW q \in Requests, Decided(q)
               PROVE  /\ history'[catalog[q]] = history[catalog[q]]
                      /\ history'[metadata[q]] = history[metadata[q]]
    BY DEF IInv, Publish, apiVars, requestVars, RatingsAreSound, Decided
  <2>1. catalog[q] \in 1 .. Current /\ metadata[q] \in 1 .. Current
    BY CurrentIsPositive DEF IInv, TypeOK, Versions, NoRelease, FreshDecisions
  <2>2. QED
    BY <1>2, <2>1
<1>7. QED
  BY <1>3, <1>4, <1>5, <1>6 DEF IInv

LEMMA PrepareKeeps == ASSUME IInv, Prepare PROVE IInv'
<1>1. UNCHANGED <<history, apiVars>>
  BY DEF Prepare
<1>2. served' \in Attempts \cup {Nothing} /\ open' \in Attempts \cup {Nothing}
      /\ accepted' \in BOOLEAN /\ spent' \subseteq Attempts
  BY DEF IInv, TypeOK, Prepare, Open, Accept, Close
<1>3. TypeOK'
  BY <1>1, <1>2 DEF IInv, TypeOK, apiVars, requestVars, Versions, Pairs, Current
<1>4. QED
  BY <1>1, <1>3 DEF IInv, apiVars, requestVars, FilesAppear, ReadsInOrder,
     AnswersEnd, FreshDecisions, RatingsAreSound, Decided

\* A request changes neither the publisher nor the file; what it changes is typed.
LEMMA RequestKeepsTypes ==
  ASSUME TypeOK, UNCHANGED <<pVars, history>>,
         cache' \in Pairs,
         pc' \in [Requests -> Threads],
         kind' \in [Requests -> Kinds],
         file' \in [Requests -> BOOLEAN],
         catalog' \in [Requests -> Versions],
         metadata' \in [Requests -> Versions],
         boot' \in [Requests -> Pairs],
         answer' \in [Requests -> Answers],
         arrived' \in [Requests -> Versions]
  PROVE  TypeOK'
  BY DEF TypeOK, pVars, Versions, Pairs, Current

LEMMA ReceiveKeeps ==
  ASSUME IInv, NEW q \in Requests, NEW k \in Kinds, Receive(q, k)
  PROVE  IInv'
<1>1. Current \in Versions /\ Current \in Nat \ {0}
  BY CurrentIsPositive DEF IInv, Versions, NoRelease
<1>2. history[Current].file \in BOOLEAN
  <2>1. history[Current] \in Releases
    BY <1>1 DEF IInv, TypeOK, Current
  <2>2. \A r \in Releases : r.file \in BOOLEAN
    BY DEF Releases
  <2>3. QED
    BY <2>1, <2>2
<1>3. ~history[Current].file => Current = 1
  BY FileIsLost DEF IInv
<1>4. k # "decision" => WithBootstrap(k) \in {"picks", "ready", "bootstrap"}
  BY DEF WithBootstrap, Kinds, Threads
<1>5. TypeOK'
  <2>1. pc' \in [Requests -> Threads] /\ boot' \in [Requests -> Pairs]
    BY <1>4 DEF IInv, TypeOK, Receive, Goto, Threads
  <2>2. kind' \in [Requests -> Kinds] /\ file' \in [Requests -> BOOLEAN]
        /\ arrived' \in [Requests -> Versions]
    BY <1>1, <1>2 DEF IInv, TypeOK, Receive
  <2>3. QED
    BY <2>1, <2>2, RequestKeepsTypes DEF IInv, TypeOK, Receive
<1>6. /\ pc'[q] \in {"catalog", "picks", "ready", "bootstrap"}
      /\ arrived'[q] = Current
      /\ \A p \in Requests \ {q} :
           pc'[p] = pc[p] /\ arrived'[p] = arrived[p] /\ kind'[p] = kind[p]
  BY <1>4 DEF IInv, TypeOK, Receive, Goto
<1>7. /\ answer[q] = "none"
      /\ UNCHANGED <<history, catalog, metadata, answer>>
  BY DEF IInv, AnswersEnd, Receive
<1>8. FilesAppear'
  <2>1. /\ ~file'[q] => arrived'[q] = 1
        /\ \A p \in Requests \ {q} : file'[p] = file[p]
    BY <1>3, <1>6 DEF IInv, TypeOK, Receive
  <2> SUFFICES ASSUME NEW p \in Requests
               PROVE  /\ pc'[p] # "idle" => arrived'[p] >= 1
                      /\ pc'[p] = "catalog" /\ ~file'[p] => arrived'[p] = 1
    BY DEF FilesAppear
  <2>2. CASE p = q
    BY <1>1, <1>6, <2>1, <2>2
  <2>3. CASE p # q
    BY <1>6, <2>1, <2>3 DEF IInv, FilesAppear
  <2>4. QED
    BY <2>2, <2>3
<1>9. ReadsInOrder'
  BY <1>6, <1>7 DEF IInv, ReadsInOrder
<1>10. AnswersEnd'
  BY <1>6, <1>7 DEF IInv, AnswersEnd
<1>11. FreshDecisions' /\ \A p \in Requests : Decided(p)' => catalog'[p] >= 1
  BY <1>6, <1>7 DEF IInv, FreshDecisions, Decided
<1>12. RatingsAreSound'
  BY <1>7 DEF IInv, RatingsAreSound
<1>13. QED
  BY <1>5, <1>8, <1>9, <1>10, <1>11, <1>12 DEF IInv

LEMMA LoadCatalogKeeps ==
  ASSUME IInv, NEW q \in Requests, LoadCatalog(q)
  PROVE  IInv'
<1>1. Current \in Versions /\ Current \in Nat \ {0} /\ arrived[q] <= Current
  BY CurrentIsPositive DEF IInv, TypeOK, Versions, NoRelease
<1>2. TypeOK'
  <2>1. pc' \in [Requests -> Threads] /\ catalog' \in [Requests -> Versions]
    BY <1>1 DEF IInv, TypeOK, LoadCatalog, Goto, Threads
  <2>2. QED
    BY <2>1, RequestKeepsTypes DEF IInv, TypeOK, LoadCatalog
<1>3. /\ pc'[q] = "metadata" /\ catalog'[q] = Current /\ answer[q] = "none"
      /\ \A p \in Requests \ {q} : pc'[p] = pc[p] /\ catalog'[p] = catalog[p]
  BY DEF IInv, TypeOK, LoadCatalog, Goto, AnswersEnd
<1>4. (FilesAppear /\ ReadsInOrder /\ AnswersEnd)'
  BY <1>1, <1>3 DEF IInv, LoadCatalog, FilesAppear, ReadsInOrder, AnswersEnd
<1>5. (FreshDecisions /\ RatingsAreSound)' /\ \A p \in Requests : Decided(p)' => catalog'[p] >= 1
  BY <1>3 DEF IInv, LoadCatalog, FreshDecisions, RatingsAreSound, Decided
<1>6. QED
  BY <1>2, <1>4, <1>5 DEF IInv

\* What a loaded release is for is a stage after the reads.
LEMMA PurposeIsLater ==
  ASSUME NEW q \in Requests
  PROVE  /\ Purpose(q) \in {"decide", "remember", "resolve"}
         /\ Purpose(q) = "remember" => kind[q] # "decision"
  BY DEF Purpose

LEMMA LoadMetadataKeeps ==
  ASSUME IInv, NEW q \in Requests, LoadMetadata(q)
  PROVE  IInv'
<1>1. Current \in Versions /\ Current \in Nat \ {0} /\ catalog[q] <= Current
  BY CurrentIsPositive DEF IInv, TypeOK, Versions, NoRelease
<1>2. TypeOK'
  <2>1. pc' \in [Requests -> Threads] /\ metadata' \in [Requests -> Versions]
    BY <1>1, PurposeIsLater DEF IInv, TypeOK, LoadMetadata, Goto, Threads
  <2>2. QED
    BY <2>1, RequestKeepsTypes DEF IInv, TypeOK, LoadMetadata
<1>3. /\ pc'[q] \in {"decide", "remember", "resolve"}
      /\ pc'[q] = "remember" => kind[q] # "decision"
      /\ metadata'[q] = Current /\ answer[q] = "none"
      /\ \A p \in Requests \ {q} : pc'[p] = pc[p] /\ metadata'[p] = metadata[p]
  BY PurposeIsLater DEF IInv, TypeOK, LoadMetadata, Goto, AnswersEnd
<1>4. (FilesAppear /\ ReadsInOrder /\ AnswersEnd)'
  BY <1>1, <1>3 DEF IInv, LoadMetadata, FilesAppear, ReadsInOrder, AnswersEnd
<1>5. (FreshDecisions /\ RatingsAreSound)' /\ \A p \in Requests : Decided(p)' => catalog'[p] >= 1
  BY <1>3 DEF IInv, LoadMetadata, FreshDecisions, RatingsAreSound, Decided
<1>6. QED
  BY <1>2, <1>4, <1>5 DEF IInv

\* A reply that is no decision keeps the invariant.
LEMMA ReplyKeeps ==
  ASSUME IInv, NEW q \in Requests, pc[q] # "idle", NEW a \in {"lost", "refused", "unavailable", "ok"},
         Reply(q, a),
         UNCHANGED <<pVars, history, cache, kind, file, catalog, metadata, boot, arrived>>
  PROVE  IInv'
<1>1. TypeOK'
  <2>1. pc' \in [Requests -> Threads] /\ answer' \in [Requests -> Answers]
    BY DEF IInv, TypeOK, Reply, Goto, Threads, Answers
  <2>2. QED
    BY <2>1, RequestKeepsTypes DEF IInv, TypeOK
<1>2. /\ pc'[q] = "done" /\ answer'[q] = a /\ pc[q] # "idle"
      /\ \A p \in Requests \ {q} : pc'[p] = pc[p] /\ answer'[p] = answer[p]
  BY DEF IInv, TypeOK, Reply, Goto
<1>3. QED
  BY <1>1, <1>2 DEF IInv, FilesAppear, ReadsInOrder, AnswersEnd, FreshDecisions,
     RatingsAreSound, Decided

LEMMA LoadDatabaseKeeps ==
  ASSUME IInv, NEW q \in Requests, LoadDatabase(q)
  PROVE  IInv'
<1>1. CASE Reply(q, "refused") /\ UNCHANGED <<catalog, metadata>>
  BY <1>1, ReplyKeeps DEF LoadDatabase
<1>2. CASE /\ catalog' = [catalog EXCEPT ![q] = 1]
           /\ metadata' = [metadata EXCEPT ![q] = 1]
           /\ Goto(q, Purpose(q))
           /\ UNCHANGED answer
  <2>1. 1 \in Versions /\ arrived[q] = 1
    BY CurrentIsPositive DEF IInv, FilesAppear, LoadDatabase, Versions, NoRelease
  <2>2. TypeOK'
    <3>1. /\ pc' \in [Requests -> Threads]
          /\ catalog' \in [Requests -> Versions]
          /\ metadata' \in [Requests -> Versions]
      BY <1>2, <2>1, PurposeIsLater DEF IInv, TypeOK, Goto, Threads
    <3>2. QED
      BY <1>2, <3>1, RequestKeepsTypes DEF IInv, TypeOK, LoadDatabase
  <2>3. /\ pc'[q] \in {"decide", "remember", "resolve"}
        /\ pc'[q] = "remember" => kind[q] # "decision"
        /\ answer[q] = "none"
        /\ catalog'[q] = 1 /\ metadata'[q] = 1
        /\ \A p \in Requests \ {q} :
             pc'[p] = pc[p] /\ catalog'[p] = catalog[p] /\ metadata'[p] = metadata[p]
    BY <1>2, PurposeIsLater DEF IInv, TypeOK, LoadDatabase, Goto, AnswersEnd
  <2>4. UNCHANGED <<history, answer, arrived, file, kind>>
    BY <1>2 DEF LoadDatabase
  <2>5. FilesAppear' /\ AnswersEnd'
    BY <2>3, <2>4 DEF IInv, FilesAppear, AnswersEnd, LoadDatabase
  <2>6. ReadsInOrder'
    BY <2>1, <2>3, <2>4 DEF IInv, ReadsInOrder
  <2>7. (FreshDecisions /\ RatingsAreSound)' /\ \A p \in Requests : Decided(p)' => catalog'[p] >= 1
    BY <2>3, <2>4 DEF IInv, FreshDecisions, RatingsAreSound, Decided
  <2>8. QED
    BY <2>2, <2>5, <2>6, <2>7 DEF IInv
<1>3. QED
  BY <1>1, <1>2 DEF LoadDatabase

LEMMA RememberKeeps ==
  ASSUME IInv, NEW q \in Requests, Remember(q)
  PROVE  IInv'
<1> DEFINE pair == [catalog |-> catalog[q], metadata |-> metadata[q]]
<1>1. pair \in Pairs
  BY DEF IInv, TypeOK, Pairs
<1>2. /\ boot' = [boot EXCEPT ![q] = pair]
      /\ cache' = IF cache = NoPair THEN pair ELSE cache
  BY DEF Remember
<1>3. UNCHANGED <<pVars, history, kind, file, catalog, metadata, answer, arrived>>
  BY DEF Remember
<1>4. /\ pc'[q] \in {"picks", "ready", "bootstrap"} /\ pc[q] = "remember"
      /\ \A p \in Requests \ {q} : pc'[p] = pc[p]
      /\ pc' \in [Requests -> Threads]
  BY DEF IInv, TypeOK, ReadsInOrder, Remember, Goto, WithBootstrap, Kinds, Threads
<1>5. TypeOK'
  BY <1>1, <1>2, <1>3, <1>4, RequestKeepsTypes DEF IInv, TypeOK
<1>6. (FilesAppear /\ ReadsInOrder /\ AnswersEnd)'
  BY <1>3, <1>4 DEF IInv, FilesAppear, ReadsInOrder, AnswersEnd
<1>7. (FreshDecisions /\ RatingsAreSound)' /\ \A p \in Requests : Decided(p)' => catalog'[p] >= 1
  BY <1>3 DEF IInv, FreshDecisions, RatingsAreSound, Decided
<1>8. QED
  BY <1>5, <1>6, <1>7 DEF IInv

LEMMA FetchPicksKeeps ==
  ASSUME IInv, NEW q \in Requests, FetchPicks(q)
  PROVE  IInv'
<1>1. CASE Reply(q, "unavailable") /\ UNCHANGED file
  BY <1>1, ReplyKeeps DEF FetchPicks
<1>2. CASE /\ Goto(q, "catalog")
           /\ file' = [file EXCEPT ![q] = history[Current].file]
           /\ UNCHANGED answer
  <2>1. Current \in Nat \ {0} /\ arrived[q] <= Current /\ arrived[q] >= 1
    BY CurrentIsPositive DEF IInv, TypeOK, Versions, NoRelease, FilesAppear, FetchPicks
  <2>2. history[Current].file \in BOOLEAN /\ (~history[Current].file => Current = 1)
    <3>1. history[Current] \in Releases
      BY <2>1 DEF IInv, TypeOK, Current
    <3>2. \A r \in Releases : r.file \in BOOLEAN
      BY DEF Releases
    <3>3. QED
      BY <3>1, <3>2, FileIsLost DEF IInv
  <2>3. UNCHANGED <<pVars, history, cache, kind, catalog, metadata, boot, answer, arrived>>
    BY <1>2 DEF FetchPicks
  <2>4. TypeOK'
    <3>1. pc' \in [Requests -> Threads] /\ file' \in [Requests -> BOOLEAN]
      BY <1>2, <2>2 DEF IInv, TypeOK, Goto, Threads
    <3>2. QED
      BY <2>3, <3>1, RequestKeepsTypes DEF IInv, TypeOK
  <2>5. /\ pc'[q] = "catalog" /\ answer[q] = "none"
        /\ \A p \in Requests \ {q} : pc'[p] = pc[p]
    BY <1>2 DEF IInv, TypeOK, FetchPicks, Goto, AnswersEnd
  <2>6. /\ ~file'[q] => Current = 1
        /\ \A p \in Requests \ {q} : file'[p] = file[p]
    BY <1>2, <2>2 DEF IInv, TypeOK
  <2>7. FilesAppear'
    <3> SUFFICES ASSUME NEW p \in Requests
                 PROVE  /\ pc'[p] # "idle" => arrived[p] >= 1
                        /\ pc'[p] = "catalog" /\ ~file'[p] => arrived[p] = 1
      BY <2>3 DEF FilesAppear
    <3>1. CASE p = q
      <4>1. ~file'[q] => arrived[q] = 1
        <5>1. arrived[q] \in Nat
          BY DEF IInv, TypeOK, Versions, NoRelease
        <5>2. QED
          BY <2>1, <2>6, <5>1
      <4>2. QED
        BY <2>1, <3>1, <4>1
    <3>2. CASE p # q
      BY <2>5, <2>6, <3>2 DEF IInv, FilesAppear
    <3>3. QED
      BY <3>1, <3>2
  <2>8. ReadsInOrder' /\ AnswersEnd'
    BY <2>3, <2>5 DEF IInv, ReadsInOrder, AnswersEnd
  <2>9. (FreshDecisions /\ RatingsAreSound)' /\ \A p \in Requests : Decided(p)' => catalog'[p] >= 1
    BY <2>3 DEF IInv, FreshDecisions, RatingsAreSound, Decided
  <2>10. QED
    BY <2>4, <2>7, <2>8, <2>9 DEF IInv
<1>3. QED
  BY <1>1, <1>2 DEF FetchPicks

LEMMA DecideKeeps ==
  ASSUME IInv, NEW q \in Requests, Decide(q)
  PROVE  IInv'
<1> DEFINE c == history[catalog[q]]
           m == history[metadata[q]]
<1>1. UNCHANGED <<pVars, history, cache, kind, file, catalog, metadata, boot, arrived>>
  BY DEF Decide
<1>2. pc[q] = "decide"
  BY DEF Decide
<1>3. CASE Reply(q, "refused")
  BY <1>1, <1>2, <1>3, ReplyKeeps
<1>4. ASSUME NEW a \in {Rating(c, m), "withheld"}, Reply(q, a)
      PROVE  IInv'
  <2>1. /\ a \in {"release_artifact", "runtime", "withheld"}
        /\ a = "release_artifact" => m.horizon = c.horizon
        /\ a = "runtime" => c.health # "production"
    BY <1>4, RatingMeaning
  <2>2. /\ pc'[q] = "done" /\ answer'[q] = a
        /\ \A p \in Requests \ {q} : pc'[p] = pc[p] /\ answer'[p] = answer[p]
    BY <1>4 DEF IInv, TypeOK, Reply, Goto
  <2>3. TypeOK'
    <3>1. pc' \in [Requests -> Threads] /\ answer' \in [Requests -> Answers]
      BY <1>4, <2>1 DEF IInv, TypeOK, Reply, Goto, Threads, Answers
    <3>2. QED
      BY <1>1, <3>1, RequestKeepsTypes DEF IInv, TypeOK
  <2>4. arrived[q] <= catalog[q] /\ catalog[q] >= 1 /\ catalog[q] <= metadata[q]
    BY <1>2 DEF IInv, ReadsInOrder
  <2>5. (FilesAppear /\ ReadsInOrder /\ AnswersEnd)'
    BY <1>1, <1>2, <2>2 DEF IInv, FilesAppear, ReadsInOrder, AnswersEnd
  <2>6. FreshDecisions' /\ \A p \in Requests : Decided(p)' => catalog'[p] >= 1
    BY <1>1, <2>2, <2>4 DEF IInv, FreshDecisions, Decided
  <2>7. RatingsAreSound'
    BY <1>1, <2>1, <2>2 DEF IInv, RatingsAreSound
  <2>8. QED
    BY <2>3, <2>5, <2>6, <2>7 DEF IInv
<1>5. QED
  BY <1>3, <1>4 DEF Decide

LEMMA RestartKeeps == ASSUME IInv, Restart PROVE IInv'
<1>1. UNCHANGED <<pVars, history, kind, file, catalog, metadata, boot, arrived>>
  BY DEF Restart
<1>2. \A p \in Requests :
        /\ pc'[p] \in {"idle", "done"}
        /\ pc'[p] = "idle" <=> pc[p] = "idle"
        /\ answer'[p] \in {answer[p], "lost"}
        /\ pc'[p] = "idle" => answer'[p] = answer[p]
  BY DEF Restart
<1>3. TypeOK'
  <2>1. pc' \in [Requests -> Threads] /\ answer' \in [Requests -> Answers]
    BY DEF IInv, TypeOK, Restart, Threads, Answers
  <2>2. cache' \in Pairs
    BY CurrentIsPositive DEF IInv, Restart, Pairs, NoPair, Versions, NoRelease
  <2>3. QED
    BY <1>1, <2>1, <2>2, RequestKeepsTypes DEF IInv, TypeOK
<1>4. (FilesAppear /\ ReadsInOrder /\ AnswersEnd)'
  BY <1>1, <1>2 DEF IInv, FilesAppear, ReadsInOrder, AnswersEnd
<1>5. (FreshDecisions /\ RatingsAreSound)' /\ \A p \in Requests : Decided(p)' => catalog'[p] >= 1
  BY <1>1, <1>2 DEF IInv, FreshDecisions, RatingsAreSound, Decided
<1>6. QED
  BY <1>3, <1>4, <1>5 DEF IInv

-----------------------------------------------------------------------------
(* The invariant and what follows from it. *)

LEMMA InitEstablishes == Init => IInv
<1> SUFFICES ASSUME Init PROVE IInv
  OBVIOUS
<1>1. PICK r \in Releases : history = <<r>>
  BY DEF Init
<1>2. history \in Seq(Releases) /\ Current = 1
  BY <1>1 DEF Current
<1>3. TypeOK
  <2>1. NoRelease \in Versions
    BY <1>2 DEF Versions, NoRelease
  <2>2. NoPair \in Pairs
    BY <2>1 DEF NoPair, Pairs
  <2>3. /\ pc \in [Requests -> Threads] /\ kind \in [Requests -> Kinds]
        /\ file \in [Requests -> BOOLEAN] /\ answer \in [Requests -> Answers]
    BY DEF Init, Threads, Kinds, Answers
  <2>4. /\ served \in Attempts \cup {Nothing} /\ open \in Attempts \cup {Nothing}
        /\ accepted \in BOOLEAN /\ spent \subseteq Attempts
    BY DEF Init, PInit
  <2>5. /\ catalog \in [Requests -> Versions] /\ metadata \in [Requests -> Versions]
        /\ arrived \in [Requests -> Versions] /\ boot \in [Requests -> Pairs]
        /\ cache \in Pairs
    BY <2>1, <2>2 DEF Init
  <2>6. QED
    BY <1>1, <1>2, <2>3, <2>4, <2>5 DEF TypeOK
<1>4. QED
  BY <1>3 DEF Init, IInv, FilesAppear, ReadsInOrder, AnswersEnd, FreshDecisions,
     RatingsAreSound, Decided

LEMMA NextKeeps == ASSUME IInv, [Next]_vars PROVE IInv'
<1>1. ASSUME NEW q \in Requests, Handle(q) PROVE IInv'
  <2>1. CASE Ready(q) \/ Bootstrap(q) \/ Resolve(q)
    BY <2>1, ReplyKeeps DEF Ready, Bootstrap, Resolve
  <2>2. QED
    BY <1>1, <2>1, ReceiveKeeps, LoadCatalogKeeps, LoadMetadataKeeps,
       LoadDatabaseKeeps, RememberKeeps, FetchPicksKeeps, DecideKeeps
    DEF Handle
<1>2. CASE UNCHANGED vars
  <2>1. UNCHANGED <<pVars, history, apiVars>>
    BY <1>2 DEF vars
  <2>2. TypeOK'
    BY <2>1, RequestKeepsTypes DEF IInv, TypeOK, apiVars, requestVars
  <2>3. QED
    BY <2>1, <2>2 DEF IInv, apiVars, requestVars, FilesAppear, ReadsInOrder,
       AnswersEnd, FreshDecisions, RatingsAreSound, Decided
<1>3. QED
  BY <1>1, <1>2, PublishKeeps, PrepareKeeps, RestartKeeps DEF Next

\* Reads are in order and answers are final in every behaviour of the API.
THEOREM InvariantHolds == Spec => []IInv
<1>1. Init => IInv
  BY InitEstablishes
<1>2. IInv /\ [Next]_vars => IInv'
  BY NextKeeps
<1>3. QED
  BY <1>1, <1>2, PTL DEF Spec

\* Every variable keeps its type, and only exportable releases are published.
THEOREM TypesHold == Spec => []TypeOK
<1>1. IInv => TypeOK
  BY DEF IInv
<1>2. QED
  BY <1>1, InvariantHolds, PTL

\* A decision is never computed from a release older than its request, however many
\* releases are published while it is computed (webapp/service.py, _load_web_inputs).
THEOREM DecisionsAreFresh == Spec => []FreshDecisions
<1>1. IInv => FreshDecisions
  BY DEF IInv
<1>2. QED
  BY <1>1, InvariantHolds, PTL

\* A rating compares over one horizon even if its benchmark is of another release
\* (webapp/service.py, _squad_rating_payload).
THEOREM RatingsHold == Spec => []RatingsAreSound
<1>1. IInv => RatingsAreSound
  BY DEF IInv
<1>2. QED
  BY <1>1, InvariantHolds, PTL

\* What the API process caches stays until it restarts (api/index.py, _bootstrap).
THEOREM BootstrapIsKept == Spec => BootstrapKept
<1>1. [Next]_vars => [cache # NoPair => cache' \in {cache, NoPair}]_vars
  BY DEF Next, Publish, Prepare, Handle, Receive, LoadCatalog, LoadMetadata,
     LoadDatabase, Remember, Ready, Bootstrap, FetchPicks, Resolve, Decide, Restart,
     apiVars, vars
<1>2. QED
  BY <1>1, PTL DEF Spec, BootstrapKept

-------------------------------------------------------------------------------
(* The rate limit. *)

\* Of Limit + 1 consecutive members of s, the first and the last are a window apart.
Spread(s, limit) ==
  \A i, j \in 1 .. Len(s) : i + limit <= j => s[i] + Window <= s[j]

\* Admission: when the first k of the admitted have expired and fewer than limit follow
\* them, one more may be admitted.
LEMMA AdmissionSpreads ==
  ASSUME NEW s \in Seq(Times), NEW k \in 0 .. Len(s), NEW limit \in Nat \ {0},
         NEW t \in Times,
         Spread(s, limit),
         \A j \in 1 .. k : s[j] + Window <= t,
         Len(s) - k < limit
  PROVE  /\ Append(s, t) \in Seq(Times)
         /\ Len(Append(s, t)) = Len(s) + 1
         /\ Spread(Append(s, t), limit)
         /\ \A j \in 1 .. k : Append(s, t)[j] + Window <= t
<1>1. /\ Append(s, t) \in Seq(Times)
      /\ Len(Append(s, t)) = Len(s) + 1
      /\ \A j \in 1 .. Len(s) : Append(s, t)[j] = s[j]
      /\ Append(s, t)[Len(s) + 1] = t
  OBVIOUS
<1>2. Len(s) \in Nat
  OBVIOUS
<1>3. ASSUME NEW i \in 1 .. Len(s) + 1, NEW j \in 1 .. Len(s) + 1, i + limit <= j
      PROVE  Append(s, t)[i] + Window <= Append(s, t)[j]
  <2>1. i \in 1 .. Len(s)
    BY <1>2, <1>3
  <2>2. CASE j \in 1 .. Len(s)
    BY <1>1, <1>3, <2>1, <2>2 DEF Spread
  <2>3. CASE j = Len(s) + 1
    <3>1. i \in 1 .. k
      BY <1>2, <1>3, <2>3
    <3>2. QED
      BY <1>1, <2>1, <2>3, <3>1
  <2>4. QED
    BY <1>2, <2>2, <2>3
<1>4. \A j \in 1 .. k : Append(s, t)[j] + Window <= t
  BY <1>1, <1>2
<1>5. QED
  BY <1>1, <1>3, <1>4 DEF Spread

\* Pruning: after it the first k have expired.
LEMMA PruningExpires ==
  ASSUME LimiterTypeOK, PrunedExpired, NEW b \in Buckets, NEW t \in Times, clock <= t,
         NEW k, Prunes(b, t, k)
  PROVE  /\ k \in 0 .. Count(b)
         /\ Count(b) - k <= Limit[b]
         /\ \A j \in 1 .. k : admitted[b][j] + Window <= t
<1>1. /\ pruned[b] \in Nat /\ Count(b) \in Nat /\ Limit[b] \in Nat
      /\ k \in pruned[b] .. Count(b) /\ Count(b) - pruned[b] <= Limit[b]
  BY LimiterAssumption DEF LimiterTypeOK, Prunes, Count
<1>2. ASSUME NEW j \in 1 .. k PROVE admitted[b][j] + Window <= t
  <2>1. CASE j <= pruned[b]
    <3>1. j \in 1 .. pruned[b] /\ j \in 1 .. Len(admitted[b])
      BY <1>1, <2>1 DEF Count
    <3>2. admitted[b][j] \in Times
      BY <3>1 DEF LimiterTypeOK
    <3>3. admitted[b][j] + Window <= clock
      BY <3>1 DEF PrunedExpired
    <3>4. QED
      BY <3>2, <3>3, LimiterAssumption DEF LimiterTypeOK, Times
  <2>2. CASE j > pruned[b]
    BY <1>1, <2>2 DEF Prunes
  <2>3. QED
    BY <1>1, <2>1, <2>2
<1>3. QED
  BY <1>1, <1>2

\* What \div and % mean.
LEMMA Division ==
  ASSUME NEW x \in Int, NEW d \in Nat \ {0}
  PROVE  /\ x \div d \in Int
         /\ x % d \in 0 .. d - 1
         /\ x = d * (x \div d) + (x % d)
<1>1. x % d \in 0 .. d - 1
  BY SMTT(20)
<1>2. x = d * (x \div d) + (x % d)
  BY SMTT(20)
<1>3. QED
  BY <1>1, <1>2

\* Refusal: the delay covers the life of the oldest event.
LEMMA DelayCovers ==
  ASSUME LimiterTypeOK, NEW b \in Buckets, NEW t \in Times, NEW k \in 0 .. Count(b) - 1
  PROVE  /\ RetryAfter(b, t, k) \in Nat
         /\ admitted[b][k + 1] + Window <= t + TicksPerSecond * RetryAfter(b, t, k)
<1> DEFINE w == admitted[b][k + 1] + Window - t
           q == (w + TicksPerSecond - 1) \div TicksPerSecond
<1>1. Count(b) \in Nat /\ t \in Nat /\ Window \in Nat /\ TicksPerSecond \in Nat \ {0}
  BY LimiterAssumption DEF LimiterTypeOK, Count, Times
<1>2. admitted[b][k + 1] \in Nat
  <2>1. k + 1 \in 1 .. Len(admitted[b])
    BY <1>1 DEF Count
  <2>2. admitted[b] \in Seq(Times)
    BY DEF LimiterTypeOK
  <2>3. admitted[b][k + 1] \in Times
    BY <2>1, <2>2
  <2>4. \A x \in Times : x \in Nat
    BY LimiterAssumption DEF Times
  <2>5. QED
    BY <2>3, <2>4
<1>3. w \in Int /\ q \in Int
  BY <1>1, <1>2
<1>4. w <= TicksPerSecond * q
  <2> DEFINE x == w + TicksPerSecond - 1
  <2>1. x \in Int
    BY <1>1, <1>3
  <2>2. x = TicksPerSecond * (x \div TicksPerSecond) + (x % TicksPerSecond)
        /\ x % TicksPerSecond \in 0 .. TicksPerSecond - 1
    BY <1>1, <2>1, Division
  <2>3. QED
    BY <1>1, <1>3, <2>1, <2>2
<1>5. RetryAfter(b, t, k) = IF q < 1 THEN 1 ELSE q
  BY DEF RetryAfter
<1>6. CASE q < 1
  <2>1. TicksPerSecond * q <= TicksPerSecond * 1
    BY <1>1, <1>3, <1>6
  <2>2. QED
    BY <1>1, <1>2, <1>3, <1>4, <1>5, <1>6, <2>1
<1>7. CASE ~(q < 1)
  BY <1>1, <1>2, <1>3, <1>4, <1>5, <1>7
<1>8. QED
  BY <1>6, <1>7

-----------------------------------------------------------------------------
(* Each step keeps the invariant. *)

LEMMA LimiterInitEstablishes == LimiterInit => LimiterInv
<1> SUFFICES ASSUME LimiterInit PROVE LimiterInv
  OBVIOUS
<1>1. \A b \in Buckets : Count(b) = 0 /\ pruned[b] = 0 /\ admitted[b] = <<>>
  BY DEF LimiterInit, Count
<1>2. LimiterTypeOK
  BY <1>1, LimiterAssumption DEF LimiterInit, LimiterTypeOK, Times, Promises
<1>3. PrunedExpired /\ WindowLimit
  BY <1>1 DEF PrunedExpired, WindowLimit
<1>4. QED
  BY <1>2, <1>3 DEF LimiterInit, LimiterInv, PromiseCoversOldest

LEMMA AdmitKeeps == ASSUME LimiterInv, Admit PROVE LimiterInv'
<1> DEFINE s == admitted["general"]
<1>1. PICK k \in 0 .. Count("general") :
        /\ Prunes("general", clock, k)
        /\ Fits("general", k)
        /\ admitted' = [admitted EXCEPT !["general"] = Append(@, clock)]
        /\ pruned' = [pruned EXCEPT !["general"] = k]
        /\ promise' = NoPromise
        /\ UNCHANGED clock
  BY DEF Admit
<1>2. s \in Seq(Times) /\ clock \in Times /\ Limit["general"] \in Nat \ {0}
      /\ Spread(s, Limit["general"]) /\ k \in 0 .. Len(s) /\ k \in Nat
  BY <1>1, LimiterAssumption DEF LimiterInv, LimiterTypeOK, Buckets, WindowLimit, Spread, Count
<1>3. \A j \in 1 .. k : s[j] + Window <= clock
  <2>1. clock <= clock
    BY <1>2, LimiterAssumption DEF Times
  <2>2. QED
    BY <1>1, <1>2, <2>1, PruningExpires DEF LimiterInv, Buckets
<1>4. Len(s) - k < Limit["general"]
  BY <1>1 DEF Fits, Count
<1>5. /\ Append(s, clock) \in Seq(Times)
      /\ Len(Append(s, clock)) = Len(s) + 1
      /\ Spread(Append(s, clock), Limit["general"])
      /\ \A j \in 1 .. k : Append(s, clock)[j] + Window <= clock
  BY <1>2, <1>3, <1>4, AdmissionSpreads
<1>6. /\ admitted'["general"] = Append(s, clock) /\ admitted'["transfer"] = admitted["transfer"]
      /\ pruned'["general"] = k /\ pruned'["transfer"] = pruned["transfer"]
      /\ DOMAIN admitted' = Buckets
  BY <1>1 DEF LimiterInv, LimiterTypeOK, Buckets
<1>7. LimiterTypeOK'
  <2>1. admitted' \in [Buckets -> Seq(Times)]
    BY <1>1, <1>5 DEF LimiterInv, LimiterTypeOK
  <2>2. pruned' \in [Buckets -> Nat]
    BY <1>1, <1>2 DEF LimiterInv, LimiterTypeOK
  <2>3. \A b \in Buckets : pruned'[b] <= Len(admitted'[b])
                          /\ Len(admitted'[b]) - pruned'[b] <= Limit[b]
    BY <1>2, <1>4, <1>5, <1>6 DEF LimiterInv, LimiterTypeOK, Buckets, Count
  <2>4. QED
    BY <1>1, <1>2, <2>1, <2>2, <2>3 DEF LimiterTypeOK, Count, Promises
<1>8. PrunedExpired'
  BY <1>1, <1>5, <1>6 DEF LimiterInv, PrunedExpired, Buckets
<1>9. WindowLimit'
  BY <1>5, <1>6 DEF LimiterInv, WindowLimit, Spread, Buckets, Count
<1>10. PromiseCoversOldest'
  BY <1>1 DEF PromiseCoversOldest
<1>11. QED
  BY <1>7, <1>8, <1>9, <1>10 DEF LimiterInv

\* A refused bucket is full after pruning, and its promise covers its oldest event.
LEMMA RefusalPromises ==
  ASSUME LimiterTypeOK, PrunedExpired, NEW b \in Buckets, NEW t \in Times, clock <= t,
         NEW k, Prunes(b, t, k), ~Fits(b, k)
  PROVE  /\ k \in 0 .. Count(b) - 1
         /\ Count(b) - k = Limit[b]
         /\ RetryAfter(b, t, k) \in Nat
         /\ admitted[b][k + 1] + Window <= t + TicksPerSecond * RetryAfter(b, t, k)
<1>1. Limit[b] \in Nat \ {0} /\ Count(b) \in Nat
  BY LimiterAssumption DEF LimiterTypeOK, Count
<1>2. k \in 0 .. Count(b) /\ Count(b) - k <= Limit[b]
  BY PruningExpires
<1>3. k \in 0 .. Count(b) - 1 /\ Count(b) - k = Limit[b]
  BY <1>1, <1>2 DEF Fits
<1>4. QED
  BY <1>3, DelayCovers

LEMMA RefuseKeeps == ASSUME LimiterInv, NEW scan \in BOOLEAN, Refuse(scan) PROVE LimiterInv'
<1>1. PICK k \in 0 .. Count("general") :
        /\ Prunes("general", clock, k)
        /\ ~Fits("general", k)
        /\ pruned' = [pruned EXCEPT !["general"] = k]
        /\ promise' = [bucket |-> "general", scan |-> scan,
             due |-> clock + TicksPerSecond * RetryAfter("general", clock, k)]
        /\ UNCHANGED <<clock, admitted>>
  BY DEF Refuse
<1>2. clock \in Times /\ clock <= clock /\ "general" \in Buckets
  BY LimiterAssumption DEF LimiterInv, LimiterTypeOK, Times, Buckets
<1>3. /\ k \in 0 .. Count("general") - 1
      /\ Count("general") - k = Limit["general"]
      /\ RetryAfter("general", clock, k) \in Nat
      /\ admitted["general"][k + 1] + Window
           <= clock + TicksPerSecond * RetryAfter("general", clock, k)
  BY <1>1, <1>2, RefusalPromises DEF LimiterInv
<1>4. \A j \in 1 .. k : admitted["general"][j] + Window <= clock
  BY <1>1, <1>2, PruningExpires DEF LimiterInv
<1>5. k \in Nat /\ pruned'["general"] = k /\ pruned'["transfer"] = pruned["transfer"]
  BY <1>1 DEF LimiterInv, LimiterTypeOK, Buckets
<1>6. LimiterTypeOK'
  <2>1. pruned' \in [Buckets -> Nat]
    BY <1>1, <1>5 DEF LimiterInv, LimiterTypeOK
  <2>2. promise' \in Promises
    <3>1. clock + TicksPerSecond * RetryAfter("general", clock, k) \in Nat
      BY <1>2, <1>3, LimiterAssumption DEF Times
    <3>2. QED
      BY <1>1, <1>2, <3>1 DEF Promises
  <2>3. \A b \in Buckets : pruned'[b] <= Count(b) /\ Count(b) - pruned'[b] <= Limit[b]
    BY <1>2, <1>3, <1>5, LimiterAssumption DEF LimiterInv, LimiterTypeOK, Buckets
  <2>4. QED
    BY <1>1, <2>1, <2>2, <2>3 DEF LimiterInv, LimiterTypeOK, Count
<1>7. PrunedExpired'
  BY <1>1, <1>4, <1>5 DEF LimiterInv, PrunedExpired, Buckets
<1>8. WindowLimit'
  BY <1>1 DEF LimiterInv, WindowLimit, Count
<1>9. PromiseCoversOldest'
  BY <1>1, <1>3, <1>5 DEF PromiseCoversOldest, Count
<1>10. QED
  BY <1>6, <1>7, <1>8, <1>9 DEF LimiterInv

\* What was past a window ago is still so a moment later.
LEMMA Later == ASSUME NEW x \in Nat, NEW w \in Nat, NEW c \in Nat, NEW d \in Nat,
                      x + w <= c, c <= d
               PROVE  x + w <= d
OBVIOUS

LEMMA ScanKeeps == ASSUME LimiterInv, Scan PROVE LimiterInv'
<1> DEFINE g == admitted["general"]
           s == admitted["transfer"]
<1>1. PICK k \in 0 .. Count("general"), j \in 0 .. Count("transfer"),
           later \in {clock, clock + 1} \cap Times :
        /\ Prunes("general", clock, k)
        /\ Fits("general", k)
        /\ Prunes("transfer", later, j)
        /\ clock' = later
        /\ pruned' = [general |-> k, transfer |-> j]
        /\ \/ /\ Fits("transfer", j)
              /\ admitted' = [admitted EXCEPT !["general"] = Append(@, clock),
                                         !["transfer"] = Append(@, later)]
              /\ promise' = NoPromise
           \/ /\ ~Fits("transfer", j)
              /\ admitted' = [admitted EXCEPT !["general"] = Append(@, clock)]
              /\ promise' = [bucket |-> "transfer", scan |-> TRUE,
                   due |-> later + TicksPerSecond * RetryAfter("transfer", later, j)]
  BY DEF Scan
<1>2. /\ "general" \in Buckets /\ "transfer" \in Buckets
      /\ clock \in Times /\ later \in Times /\ clock <= clock /\ clock <= later
      /\ clock \in Nat /\ later \in Nat
  BY <1>1, LimiterAssumption DEF LimiterInv, LimiterTypeOK, Buckets, Times
<1>3. /\ g \in Seq(Times) /\ s \in Seq(Times)
      /\ Limit["general"] \in Nat \ {0} /\ Limit["transfer"] \in Nat \ {0}
      /\ Spread(g, Limit["general"]) /\ Spread(s, Limit["transfer"])
      /\ k \in 0 .. Len(g) /\ j \in 0 .. Len(s)
  BY <1>1, <1>2, LimiterAssumption DEF LimiterInv, LimiterTypeOK, WindowLimit, Spread, Count
<1>4. /\ \A i \in 1 .. k : g[i] + Window <= clock
      /\ \A i \in 1 .. j : s[i] + Window <= later
      /\ Len(s) - j <= Limit["transfer"]
  BY <1>1, <1>2, PruningExpires DEF LimiterInv, Count
<1>5. Len(g) - k < Limit["general"]
  BY <1>1 DEF Fits, Count
<1>6. /\ Append(g, clock) \in Seq(Times)
      /\ Len(Append(g, clock)) = Len(g) + 1
      /\ Spread(Append(g, clock), Limit["general"])
      /\ \A i \in 1 .. k : Append(g, clock)[i] + Window <= clock
  BY <1>2, <1>3, <1>4, <1>5, AdmissionSpreads
<1>7. \A i \in 1 .. k : Append(g, clock)[i] + Window <= later
  <2> SUFFICES ASSUME NEW i \in 1 .. k PROVE Append(g, clock)[i] + Window <= later
    OBVIOUS
  <2>1. i \in 1 .. Len(Append(g, clock))
    BY <1>3, <1>6
  <2>2. Append(g, clock)[i] \in Times
    BY <1>6, <2>1
  <2>3. Append(g, clock)[i] + Window <= clock
    BY <1>6
  <2>4. \A x \in Times : x \in Nat
    BY LimiterAssumption DEF Times
  <2>5. Append(g, clock)[i] \in Nat /\ Window \in Nat
    BY <2>2, <2>4, LimiterAssumption
  <2>6. QED
    BY <1>2, <2>3, <2>5, Later
<1> DEFINE t == admitted'["transfer"]
<1>8. /\ admitted' \in [Buckets -> Seq(Times)]
      /\ admitted'["general"] = Append(g, clock)
      /\ Spread(t, Limit["transfer"])
      /\ \A i \in 1 .. j : t[i] + Window <= later
      /\ j <= Len(t) /\ Len(t) - j <= Limit["transfer"]
      /\ promise' \in Promises
      /\ PromiseCoversOldest'
  <2>1. CASE Fits("transfer", j)
    <3>1. Len(s) - j < Limit["transfer"]
      BY <2>1 DEF Fits, Count
    <3>2. /\ Append(s, later) \in Seq(Times)
          /\ Len(Append(s, later)) = Len(s) + 1
          /\ Spread(Append(s, later), Limit["transfer"])
          /\ \A i \in 1 .. j : Append(s, later)[i] + Window <= later
      BY <1>2, <1>3, <1>4, <3>1, AdmissionSpreads
    <3>3. /\ admitted' = [admitted EXCEPT !["general"] = Append(@, clock),
                                         !["transfer"] = Append(@, later)]
          /\ promise' = NoPromise
      BY <1>1, <2>1
    <3>4. admitted' \in [Buckets -> Seq(Times)]
      BY <1>2, <1>6, <3>2, <3>3 DEF LimiterInv, LimiterTypeOK
    <3>5. admitted'["general"] = Append(g, clock) /\ t = Append(s, later)
      BY <1>2, <3>3 DEF LimiterInv, LimiterTypeOK, Buckets
    <3>6. promise' \in Promises /\ PromiseCoversOldest'
      BY <3>3 DEF Promises, PromiseCoversOldest
    <3>7. Spread(t, Limit["transfer"]) /\ (\A i \in 1 .. j : t[i] + Window <= later)
      BY <3>2, <3>5
    <3>8. Len(t) = Len(s) + 1
      BY <3>2, <3>5
    <3>9. j <= Len(t) /\ Len(t) - j <= Limit["transfer"]
      BY <1>3, <3>1, <3>8
    <3>10. QED
      BY <3>4, <3>5, <3>6, <3>7, <3>9
  <2>2. CASE ~Fits("transfer", j)
    <3>1. /\ admitted' = [admitted EXCEPT !["general"] = Append(@, clock)]
          /\ promise' = [bucket |-> "transfer", scan |-> TRUE,
               due |-> later + TicksPerSecond * RetryAfter("transfer", later, j)]
      BY <1>1, <2>2
    <3>2. admitted' \in [Buckets -> Seq(Times)]
      BY <1>6, <3>1 DEF LimiterInv, LimiterTypeOK
    <3>3. admitted'["general"] = Append(g, clock) /\ t = s
      BY <1>2, <3>1 DEF LimiterInv, LimiterTypeOK
    <3>4. /\ j \in 0 .. Count("transfer") - 1
          /\ Count("transfer") - j = Limit["transfer"]
          /\ RetryAfter("transfer", later, j) \in Nat
          /\ s[j + 1] + Window
               <= later + TicksPerSecond * RetryAfter("transfer", later, j)
      BY <1>1, <1>2, <2>2, RefusalPromises DEF LimiterInv
    <3>5. later + TicksPerSecond * RetryAfter("transfer", later, j) \in Nat
      BY <1>2, <3>4, LimiterAssumption
    <3>6. promise' \in Promises
      BY <1>2, <3>1, <3>5 DEF Promises
    <3>7. PromiseCoversOldest'
      BY <1>1, <3>1, <3>3, <3>4 DEF PromiseCoversOldest, Count
    <3>8. QED
      BY <1>3, <1>4, <3>2, <3>3, <3>6, <3>7
  <2>3. QED
    BY <2>1, <2>2
<1>9. pruned'["general"] = k /\ pruned'["transfer"] = j
  BY <1>1
<1>10. LimiterTypeOK'
  <2>1. pruned' \in [Buckets -> Nat]
    BY <1>1, <1>3 DEF Buckets
  <2>2. \A b \in Buckets : pruned'[b] <= Len(admitted'[b])
                          /\ Len(admitted'[b]) - pruned'[b] <= Limit[b]
    BY <1>3, <1>5, <1>6, <1>8, <1>9 DEF Buckets
  <2>3. QED
    BY <1>1, <1>2, <1>8, <2>1, <2>2 DEF LimiterTypeOK, Count
<1>11. PrunedExpired'
  BY <1>1, <1>7, <1>8, <1>9 DEF PrunedExpired, Buckets
<1>12. WindowLimit'
  BY <1>6, <1>8 DEF WindowLimit, Spread, Buckets, Count
<1>13. QED
  BY <1>8, <1>10, <1>11, <1>12 DEF LimiterInv

LEMMA TickKeeps == ASSUME LimiterInv, Tick PROVE LimiterInv'
<1>1. clock \in Nat /\ clock' = clock + 1 /\ clock' \in Times
      /\ UNCHANGED <<admitted, pruned, promise>>
  BY LimiterAssumption DEF LimiterInv, LimiterTypeOK, Tick, Times
<1>2. LimiterTypeOK'
  BY <1>1 DEF LimiterInv, LimiterTypeOK, Count
<1>3. PrunedExpired'
  <2> SUFFICES ASSUME NEW b \in Buckets, NEW j \in 1 .. pruned[b]
               PROVE  admitted[b][j] + Window <= clock + 1
    BY <1>1 DEF PrunedExpired
  <2>1. admitted[b][j] + Window <= clock
    BY DEF LimiterInv, PrunedExpired
  <2>2. j \in 1 .. Len(admitted[b]) /\ admitted[b] \in Seq(Times)
    BY DEF LimiterInv, LimiterTypeOK, Count
  <2>3. admitted[b][j] \in Times
    BY <2>2
  <2>4. \A x \in Times : x \in Nat
    BY LimiterAssumption DEF Times
  <2>5. admitted[b][j] \in Nat /\ Window \in Nat
    BY <2>3, <2>4, LimiterAssumption
  <2>6. QED
    BY <1>1, <2>1, <2>5
<1>4. (WindowLimit /\ PromiseCoversOldest)'
  BY <1>1 DEF LimiterInv, WindowLimit, PromiseCoversOldest, Count
<1>5. QED
  BY <1>2, <1>3, <1>4 DEF LimiterInv

-----------------------------------------------------------------------------
(* The invariant and what follows from it. *)

LEMMA LimiterNextKeeps == ASSUME LimiterInv, [LimiterNext]_limiterVars PROVE LimiterInv'
<1>1. CASE UNCHANGED limiterVars
  BY <1>1 DEF limiterVars, LimiterInv, LimiterTypeOK, PrunedExpired, WindowLimit, PromiseCoversOldest, Count
<1>2. QED
  BY <1>1, AdmitKeeps, RefuseKeeps, ScanKeeps, TickKeeps DEF LimiterNext

\* Deques are bounded by their limits, what left them is a window old, and a refusal
\* promises no less than the life of the oldest event.
THEOREM LimiterInvariantHolds == LimiterSpec => []LimiterInv
<1>1. LimiterInit => LimiterInv
  BY LimiterInitEstablishes
<1>2. LimiterInv /\ [LimiterNext]_limiterVars => LimiterInv'
  BY LimiterNextKeeps
<1>3. QED
  BY <1>1, <1>2, PTL DEF LimiterSpec

\* No deque outgrows its limit (webapp/alpha_access.py, ProcessRateLimiter.check).
THEOREM LimiterTypesHold == LimiterSpec => []LimiterTypeOK
<1>1. LimiterInv => LimiterTypeOK
  BY DEF LimiterInv
<1>2. QED
  BY <1>1, LimiterInvariantHolds, PTL

\* The limit per window, for every limit and window (docs/DEPLOYMENT_RUNBOOK.md).
THEOREM LimitHolds == LimiterSpec => []WindowLimit
<1>1. LimiterInv => WindowLimit
  BY DEF LimiterInv
<1>2. QED
  BY <1>1, LimiterInvariantHolds, PTL

\* The announced delay is long enough for the bucket that refused (api/index.py,
\* Retry-After).
THEOREM RetryAfterHolds == LimiterSpec => []RetryAfterHonest
<1>1. ASSUME LimiterInv PROVE RetryAfterHonest
  <2> SUFFICES ASSUME promise # NoPromise, clock >= promise.due
               PROVE  Room(promise.bucket, clock)
    BY DEF RetryAfterHonest
  <2> DEFINE b == promise.bucket
             k == pruned[b] + 1
  <2>1. b \in Buckets /\ promise.due \in Nat
    BY <1>1 DEF LimiterInv, LimiterTypeOK, Promises
  <2>2. pruned[b] \in Nat /\ Count(b) \in Nat /\ Limit[b] \in Nat \ {0} /\ clock \in Nat
    BY <1>1, <2>1, LimiterAssumption DEF LimiterInv, LimiterTypeOK, Count, Times
  <2>3. /\ Count(b) - pruned[b] = Limit[b]
        /\ admitted[b][k] + Window <= promise.due
    BY <1>1 DEF LimiterInv, PromiseCoversOldest
  <2>4. k \in pruned[b] .. Count(b) /\ Fits(b, k)
    BY <2>2, <2>3 DEF Fits
  <2>5. admitted[b][k] + Window <= clock
    <3>1. k \in 1 .. Len(admitted[b]) /\ admitted[b] \in Seq(Times)
      BY <1>1, <2>1, <2>2, <2>4 DEF LimiterInv, LimiterTypeOK, Count
    <3>2. admitted[b][k] \in Times
      BY <3>1
    <3>3. \A x \in Times : x \in Nat
      BY LimiterAssumption DEF Times
    <3>4. QED
      BY <2>1, <2>2, <2>3, <3>2, <3>3, LimiterAssumption
  <2>6. \A j \in pruned[b] + 1 .. k : j = k
    BY <2>2
  <2>7. QED
    BY <2>4, <2>5, <2>6 DEF Room
<1>2. QED
  BY <1>1, LimiterInvariantHolds, PTL

===============================================================================
