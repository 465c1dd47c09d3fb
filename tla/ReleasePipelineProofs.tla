------------------------- MODULE ReleasePipelineProofs -------------------------
(***************************************************************************)
(* No projection rests on what was known only after it claims to be as of, *)
(* and a release that is validated is one lineage whose label stays, for   *)
(* every target Gameweek, horizon and calendar, every number of releases   *)
(* and every script that operators run between their steps.                *)
(***************************************************************************)
EXTENDS ReleasePipeline, TLAPS, WellFoundedInduction

\* Nothing is stored with a time that is still to come.
StoredByNow ==
  /\ clock \in Nat
  /\ \A s \in snapshots : s.at \in Nat /\ s.at <= clock
  /\ \A l \in lives : l.at \in Nat /\ l.at <= clock
  /\ \A n \in notes : n \in Nat /\ n <= clock
  /\ rates \subseteq Nat
  /\ resolutions \subseteq snapshots

\* An appearance run claims the time of the latest of what it was made of, a context run
\* that of its appearance run and its annotations.
CausalAppearance(a) ==
  /\ a.source.at \in Nat /\ a.source.at <= a.asOf
  /\ \A g \in 1 .. Target - 1 : a.lives[g].at \in Nat /\ a.lives[g].at <= a.asOf

EvidenceCausal ==
  /\ \A a \in appearances : a.asOf \in Nat /\ a.asOf <= clock /\ CausalAppearance(a)
  /\ \A c \in contexts : /\ c.asOf \in Nat /\ c.asOf <= clock
                         /\ \A n \in c.notes : n <= c.asOf /\ n \in Nat
  /\ \A t \in strengths : \A l \in t.lives : l.at <= Due[Target]

CausalRates(u) ==
  /\ u = [source |-> u.source, asOf |-> u.asOf, rate |-> u.rate, lives |-> u.lives,
          whole |-> u.whole]
  /\ u.rate <= u.asOf
  /\ \A l \in u.lives : l.at <= u.asOf

\* What ModelsAreCausal says of a run, and that its inputs are stored rows.
CausalModel(m) ==
  /\ m.asOf \in Nat
  /\ m.source.at <= m.asOf
  /\ m.rate <= m.asOf
  /\ \A g \in 1 .. Target - 1 : m.appearance.lives[g].at <= m.asOf
  /\ m.context # None => \A n \in m.context.notes : n <= m.asOf
  /\ m.current # None => CausalRates(m.current) /\ m.current.asOf = m.asOf
  /\ \A l \in m.strength.lives : l.at <= Due[Target]
  /\ m.appearance \in appearances
  /\ m.strength \in strengths
  /\ m.context \in contexts \cup {None}
  /\ m.rate \in rates /\ m.rate <= m.appearance.asOf

ProjectionsCausal ==
  /\ \A u \in currents : CausalRates(u)
  /\ \A m \in models : CausalModel(m) /\ InTime(m)

\* What the script holds in its variables is stored.
ScriptHolds ==
  /\ DOMAIN release = DOMAIN Idle
  /\ release.stage \in {"book", "strength", "context", "anchor"} => release.appearance \in appearances
  /\ release.stage \in {"context", "anchor"} => release.strength \in strengths
  /\ release.stage = "anchor" => release.context \in contexts
  /\ release.stage = "horizon" => release.anchor \in models

IInv == StoredByNow /\ EvidenceCausal /\ ProjectionsCausal /\ ScriptHolds

-----------------------------------------------------------------------------
(* The latest of several times. *)

\* Times up to a bound have a latest one: the smallest of their bounds.
LEMMA LatestExists ==
  ASSUME NEW T \in SUBSET Nat, T # {}, NEW b \in Nat, \A t \in T : t <= b
  PROVE  \E t \in T : \A u \in T : u <= t
<1> DEFINE Bounds == {k \in Nat : \A t \in T : t <= k}
           Less == {p \in Nat \X Nat : p[1] < p[2]}
<1>1. PICK k \in Bounds : \A j \in Bounds : ~(<<j, k>> \in Less)
  <2>1. Bounds \subseteq Nat /\ Bounds # {}
    OBVIOUS
  <2>2. IsWellFoundedOn(Less, Nat)
    BY NatLessThanWellFounded DEF OpToRel
  <2> HIDE DEF Bounds, Less
  <2>3. QED
    BY <2>1, <2>2, WFMin
<1>2. \A j \in Bounds : ~(j < k)
  BY <1>1
<1>3. k \in T
  <2>1. SUFFICES ASSUME k \notin T PROVE FALSE
    OBVIOUS
  <2>2. k \in Nat /\ k # 0
    <3>1. k \in Nat /\ \A t \in T : t <= k
      OBVIOUS
    <3>2. PICK t \in T : TRUE
      OBVIOUS
    <3>3. t \in Nat /\ t # k /\ t <= k
      BY <2>1, <3>1, <3>2
    <3>4. QED
      BY <3>1, <3>3
  <2>3. k - 1 \in Nat
    BY <2>2
  <2>4. \A t \in T : t <= k - 1
    BY <2>1, <2>2
  <2>5. k - 1 \in Bounds
    BY <2>3, <2>4
  <2>6. k - 1 < k
    BY <2>2
  <2>7. QED
    BY <1>2, <2>5, <2>6
<1>4. QED
  BY <1>3

LEMMA LatestIsLatest ==
  ASSUME NEW T \in SUBSET Nat, T # {}, NEW b \in Nat, \A t \in T : t <= b
  PROVE  /\ Latest(T) \in T
         /\ \A u \in T : u <= Latest(T)
  BY LatestExists DEF Latest

\* The times of two inputs.
LEMMA ModelTimeIsLatest ==
  ASSUME NEW a, NEW c, a.asOf \in Nat, c # None => c.asOf \in Nat
  PROVE  /\ ModelTime(a, c) \in Nat
         /\ ModelTime(a, c) = a.asOf \/ (c # None /\ ModelTime(a, c) = c.asOf)
         /\ a.asOf <= ModelTime(a, c)
         /\ c # None => c.asOf <= ModelTime(a, c)
<1>1. CASE c = None
  BY <1>1 DEF ModelTime
<1>2. CASE c # None
  <2> DEFINE b == IF a.asOf <= c.asOf THEN c.asOf ELSE a.asOf
  <2>1. b \in Nat /\ \A t \in {a.asOf, c.asOf} : t <= b
    BY <1>2
  <2>2. {a.asOf, c.asOf} \in SUBSET Nat
    BY <1>2
  <2> HIDE DEF b
  <2>3. /\ Latest({a.asOf, c.asOf}) \in {a.asOf, c.asOf}
        /\ \A u \in {a.asOf, c.asOf} : u <= Latest({a.asOf, c.asOf})
    BY <2>1, <2>2, LatestIsLatest
  <2>4. QED
    BY <1>2, <2>2, <2>3 DEF ModelTime
<1>3. QED
  BY <1>1, <1>2

-----------------------------------------------------------------------------
(* Evidence. *)

\* A row that is returned is the new one or was there.
LEMMA StoredIsThere ==
  ASSUME NEW table, NEW row
  PROVE  Stored(table, row) \in table \cup {row}
  BY DEF Stored

LEMMA AppearanceIsCausal ==
  ASSUME StoredByNow, NEW s \in resolutions, NEW h \in Histories
  PROVE  LET a == AppearanceOf(s, h) IN
           a.asOf \in Nat /\ a.asOf <= clock /\ CausalAppearance(a)
<1> DEFINE T == {s.at} \cup {h[g].at : g \in 1 .. Target - 1}
<1>1. \A g \in 1 .. Target - 1 : h[g] \in lives
  BY DEF Histories
<1>2. T \in SUBSET Nat /\ \A t \in T : t <= clock
  BY <1>1 DEF StoredByNow
<1>3. Latest(T) \in T /\ \A u \in T : u <= Latest(T)
  <2>1. T # {} /\ clock \in Nat
    BY DEF StoredByNow
  <2> HIDE DEF T
  <2>2. QED
    BY <1>2, <2>1, LatestIsLatest
<1>4. Latest(T) \in Nat /\ Latest(T) <= clock /\ s.at <= Latest(T)
      /\ \A g \in 1 .. Target - 1 : h[g].at <= Latest(T)
  BY <1>2, <1>3
<1> DEFINE late == Latest(T)
<1>5. AppearanceOf(s, h) = [source |-> s, lives |-> h, made |-> now, asOf |-> late]
  BY DEF AppearanceOf
<1>6. late \in Nat /\ late <= clock /\ s.at \in Nat /\ s.at <= late
      /\ \A g \in 1 .. Target - 1 : h[g].at \in Nat /\ h[g].at <= late
  BY <1>1, <1>4 DEF StoredByNow
<1> HIDE DEF late
<1>7. QED
  BY <1>5, <1>6 DEF CausalAppearance

LEMMA ContextIsCausal ==
  ASSUME StoredByNow, NEW a, a.asOf \in Nat, a.asOf <= clock
  PROVE  LET c == ContextOf(a) IN
           /\ c.asOf \in Nat /\ c.asOf <= clock
           /\ \A n \in c.notes : n <= c.asOf /\ n \in Nat
<1> DEFINE known == {n \in notes : n <= Due[Target]}
           T == {a.asOf} \cup known
<1>1. T \in SUBSET Nat /\ \A t \in T : t <= clock
  BY DEF StoredByNow
<1>2. Latest(T) \in T /\ \A u \in T : u <= Latest(T)
  <2>1. T # {} /\ clock \in Nat
    BY DEF StoredByNow
  <2> HIDE DEF T
  <2>2. QED
    BY <1>1, <2>1, LatestIsLatest
<1> DEFINE late == Latest(T)
<1>3. ContextOf(a) = [appearance |-> a, notes |-> known, asOf |-> late, made |-> now]
  BY DEF ContextOf
<1>4. late \in Nat /\ late <= clock /\ \A n \in known : n <= late /\ n \in Nat
  BY <1>1, <1>2
<1> HIDE DEF late, known
<1>5. QED
  BY <1>3, <1>4

LEMMA StrengthIsCausal ==
  ASSUME NEW s, NEW b
  PROVE  /\ \A l \in StrengthOf(s, b).lives : l.at <= Due[Target]
         /\ \A l \in BookStrength(s, b).lives : l.at <= Due[Target]
  BY DEF StrengthOf, BookStrength, FinalLives

-----------------------------------------------------------------------------
(* Projections. *)

LEMMA RatesAreCausal ==
  ASSUME NEW a, NEW r, NEW c, r <= ModelTime(a, c)
  PROVE  LET u == CurrentOf(a, r, c) IN CausalRates(u) /\ u.asOf = ModelTime(a, c)
<1> DEFINE time == ModelTime(a, c)
           known == FinalLives(a.source, time)
<1>1. CurrentOf(a, r, c) =
        [source |-> a.source, asOf |-> time, rate |-> r, lives |-> known, whole |-> TRUE]
  BY DEF CurrentOf
<1>2. \A l \in known : l.at <= time
  BY DEF FinalLives
<1> DEFINE u == [source |-> a.source, asOf |-> time, rate |-> r, lives |-> known, whole |-> TRUE]
<1> HIDE DEF known, time
<1>3. /\ u.asOf = time /\ u.rate = r /\ u.lives = known
      /\ u = [source |-> u.source, asOf |-> u.asOf, rate |-> u.rate, lives |-> u.lives,
              whole |-> u.whole]
  OBVIOUS
<1>4. r <= time
  BY DEF time
<1> HIDE DEF u
<1>5. CausalRates(u) /\ u.asOf = time
  BY <1>2, <1>3, <1>4 DEF CausalRates
<1>6. CurrentOf(a, r, c) = u
  BY <1>1 DEF u
<1>7. QED
  BY <1>5, <1>6 DEF time

\* Rates stored under the same identifier have the same time.
LEMMA SameRatesSameTime ==
  ASSUME NEW u, NEW v, CausalRates(u), CausalRates(v), SameRates(u, v)
  PROVE  u.asOf = v.asOf
<1>1. [u EXCEPT !.whole = TRUE].asOf = u.asOf
  BY DEF CausalRates
<1>2. [v EXCEPT !.whole = TRUE].asOf = v.asOf
  BY DEF CausalRates
<1>3. QED
  BY <1>1, <1>2 DEF SameRates

LEMMA RatesOfAreCausal ==
  ASSUME ProjectionsCausal, NEW a, NEW r, NEW c, r <= ModelTime(a, c)
  PROVE  LET u == RatesOf(a, r, c) IN
           u # None => CausalRates(u) /\ u.asOf = ModelTime(a, c)
<1> DEFINE u == CurrentOf(a, r, c)
<1>1. CausalRates(u) /\ u.asOf = ModelTime(a, c)
  BY RatesAreCausal
<1> HIDE DEF u
<1>2. CASE \E v \in currents : SameRates(u, v)
  <2>1. StoredRates(u) \in currents /\ SameRates(u, StoredRates(u))
    BY <1>2 DEF StoredRates
  <2>2. CausalRates(StoredRates(u))
    BY <2>1 DEF ProjectionsCausal
  <2>3. u.asOf = StoredRates(u).asOf
    BY <1>1, <2>1, <2>2, SameRatesSameTime
  <2>4. QED
    BY <1>1, <2>2, <2>3 DEF RatesOf, u
<1>3. CASE ~ \E v \in currents : SameRates(u, v)
  BY <1>1, <1>3 DEF RatesOf, StoredRates, u
<1>4. QED
  BY <1>2, <1>3

LEMMA ModelIsCausal ==
  ASSUME StoredByNow, EvidenceCausal, ProjectionsCausal, NEW g, NEW a \in appearances,
         NEW r \in rates, r <= a.asOf, NEW t \in strengths, NEW c \in contexts \cup {None}
  PROVE  CausalModel(ModelOf(g, a, r, t, c))
<1> DEFINE time == ModelTime(a, c)
           u == RatesOf(a, r, c)
           m == [gw |-> g, source |-> a.source, asOf |-> time, appearance |-> a, rate |-> r,
                 strength |-> t, context |-> c, current |-> u, made |-> now]
<1>1. a.asOf \in Nat /\ CausalAppearance(a) /\ r \in Nat
  BY DEF EvidenceCausal, StoredByNow
<1>2. c # None => c.asOf \in Nat /\ \A n \in c.notes : n <= c.asOf /\ n \in Nat
  BY DEF EvidenceCausal
<1>3. time \in Nat /\ a.asOf <= time /\ (c # None => c.asOf <= time)
  BY <1>1, <1>2, ModelTimeIsLatest
<1> HIDE DEF time
<1>4. r <= time
  BY <1>1, <1>3
<1>5. u # None => CausalRates(u) /\ u.asOf = time
  BY <1>4, RatesOfAreCausal DEF time
<1> HIDE DEF u
<1>6. ModelOf(g, a, r, t, c) = m
  BY DEF ModelOf, u, time
<1>7. /\ m.source = a.source /\ m.asOf = time /\ m.appearance = a /\ m.rate = r
      /\ m.strength = t /\ m.context = c /\ m.current = u
  OBVIOUS
<1> HIDE DEF m
<1>8. /\ a.source.at <= time
      /\ \A k \in 1 .. Target - 1 : a.lives[k].at <= time
      /\ c # None => \A n \in c.notes : n <= time
  BY <1>1, <1>2, <1>3 DEF CausalAppearance
<1>9. u # None => CausalRates(u) /\ u.asOf = time
  BY <1>5
<1>10. \A l \in t.lives : l.at <= Due[Target]
  BY DEF EvidenceCausal
<1>11. CausalModel(m)
  BY <1>3, <1>4, <1>7, <1>8, <1>9, <1>10 DEF CausalModel
<1>12. QED
  BY <1>6, <1>11

\* The inputs a run may be projected from.
Inputs(a, r, t, c) ==
  a \in appearances /\ r \in rates /\ r <= a.asOf /\ t \in strengths
  /\ c \in contexts \cup {None}

LEMMA BaselineIsCausal ==
  ASSUME StoredByNow, EvidenceCausal, ProjectionsCausal, NEW ms, Baseline(ms),
         \A m \in ms : m \in models \/ \E g, a, r, t, c : Inputs(a, r, t, c) /\ m = ModelOf(g, a, r, t, c),
         UNCHANGED <<appearances, strengths, rates, contexts>>
  PROVE  ProjectionsCausal'
<1>1. ASSUME NEW m \in ms PROVE CausalModel(m) /\ InTime(m)
  BY ModelIsCausal DEF Inputs, Baseline, ProjectionsCausal
<1>2. \A u \in currents' : CausalRates(u)
  BY <1>1 DEF Baseline, ProjectionsCausal, CausalModel
<1>3. \A m \in models' : CausalModel(m) /\ InTime(m)
  BY <1>1 DEF Baseline, ProjectionsCausal
<1>4. QED
  BY <1>2, <1>3 DEF ProjectionsCausal, CausalModel, InTime

\* Rows that are only added to keep what rests on them.
LEMMA ProjectionsStayCausal ==
  ASSUME ProjectionsCausal, appearances \subseteq appearances', strengths \subseteq strengths',
         rates \subseteq rates', contexts \subseteq contexts', UNCHANGED <<currents, models>>
  PROVE  ProjectionsCausal'
  BY DEF ProjectionsCausal, CausalModel, InTime

\* The rate histories known at the time of an appearance run.
LEMMA ChosenRatesAreKnown ==
  ASSUME NEW asOf, NEW r \in RateChoices(asOf)
  PROVE  r \in rates /\ r <= asOf
  BY DEF RateChoices

LEMMA PinnedAreInputs ==
  ASSUME ProjectionsCausal, NEW m \in models, NEW in \in Pinned(m)
  PROVE  Inputs(in[1], in[2], in[3], in[4])
<1>1. CausalModel(m)
  BY DEF ProjectionsCausal
<1>2. PICK c \in IF m.context = None THEN ContextChoices(m.appearance) ELSE {m.context} :
        in = <<m.appearance, m.rate, m.strength, c>>
  BY DEF Pinned
<1>3. c \in contexts \cup {None}
  BY <1>1, <1>2 DEF ContextChoices, CausalModel
<1>4. QED
  BY <1>1, <1>2, <1>3 DEF Inputs, CausalModel

-----------------------------------------------------------------------------
(* Every step keeps what is stored in order. *)

\* Time passes; a capture, an annotation or a history of rates may arrive.
LEMMA TimePasses ==
  ASSUME StoredByNow, clock' \in {clock, now},
         snapshots' \subseteq snapshots \cup {[at |-> now, final |-> f] : f \in BOOLEAN},
         \A l \in lives' \ lives : l.at = now,
         notes' \subseteq notes \cup {now}, clock' = clock => notes' = notes /\ lives' = lives /\ snapshots' = snapshots,
         rates' \subseteq rates \cup {now},
         resolutions' \subseteq snapshots, snapshots \subseteq snapshots'
  PROVE  StoredByNow'
<1>1. clock \in Nat /\ now = clock + 1 /\ clock' \in Nat /\ clock <= clock'
  BY DEF StoredByNow, now
<1>2. \A s \in snapshots' : s.at \in Nat /\ s.at <= clock'
  BY <1>1 DEF StoredByNow
<1>3. \A l \in lives' : l.at \in Nat /\ l.at <= clock'
  BY <1>1 DEF StoredByNow
<1>4. \A n \in notes' : n \in Nat /\ n <= clock'
  BY <1>1 DEF StoredByNow
<1>5. QED
  BY <1>1, <1>2, <1>3, <1>4 DEF StoredByNow

LEMMA StoredStays == StoredByNow /\ [Next]_vars => StoredByNow'
<1> SUFFICES ASSUME StoredByNow, [Next]_vars
             PROVE  StoredByNow'
  OBVIOUS
<1>1. ASSUME NEW final \in BOOLEAN, NEW provisional \in BOOLEAN, Begin(final, provisional)
      PROVE  StoredByNow'
  BY <1>1, TimePasses DEF Begin, SnapshotOf, Tick, evidence, StoredByNow
<1>2. ASSUME NEW final \in BOOLEAN, RefreshSnapshot(final)
      PROVE  StoredByNow'
  BY <1>2, TimePasses DEF RefreshSnapshot, Script, SnapshotOf, Tick, evidence, StoredByNow
<1>3. ASSUME NEW g, CaptureLive(g)
      PROVE  StoredByNow'
  BY <1>3, TimePasses DEF CaptureLive, LiveOf, Tick, evidence, StoredByNow
<1>4. ASSUME NEW s \in snapshots, NEW g, RefreshLive(s, g)
      PROVE  StoredByNow'
  BY <1>4, TimePasses DEF RefreshLive, Script, LiveOf, Tick, evidence, StoredByNow
<1>5. CASE ResolveAvailability
  BY <1>5, TimePasses DEF ResolveAvailability, Selected, NewestBy, Tick, evidence, StoredByNow
<1>6. CASE RefreshAvailability
  BY <1>6, TimePasses DEF RefreshAvailability, Script, Selected, NewestBy, Tick, evidence, StoredByNow
<1>7. CASE ImportRates
  BY <1>7, TimePasses DEF ImportRates, Script, Tick, official, StoredByNow
<1>8. CASE Annotate
  BY <1>8, TimePasses DEF Annotate, Script, Tick, official, StoredByNow
<1>9. ASSUME clock' \in {clock, now}, UNCHANGED <<snapshots, lives, notes, rates, resolutions>>
      PROVE  StoredByNow'
  BY <1>9, TimePasses DEF StoredByNow
<1>10. ASSUME \/ ImportIdentity
              \/ ReleaseAppearance
              \/ \E b \in Books : ReleaseBook(b)
              \/ ReleaseStrength
              \/ ReleaseContext
              \/ ReleaseAnchor
              \/ ReleaseHorizon
              \/ \E status \in Statuses : ReleaseEnrich(status)
              \/ Validate
              \/ Stop
              \/ StopInRates
       PROVE  clock' \in {clock, now} /\ UNCHANGED <<snapshots, lives, notes, rates, resolutions>>
  BY <1>10
  DEF ImportIdentity, ReleaseAppearance, ProjectAppearance, ReleaseBook, ReleaseStrength, RateTeams,
      ReleaseContext, AppendContext, ReleaseAnchor, ReleaseHorizon, ReleaseEnrich, Validate, Stop,
      StopInRates, Tick, official, evidence
<1>11. ASSUME \/ RefreshAppearance
              \/ \E s \in snapshots, b \in Books : RefreshStrength(s, b)
              \/ \E a \in appearances : RefreshContext(a)
              \/ RefreshBaseline
              \/ \E m \in models, g \in Target .. LastGW : RefreshHorizon(m, g)
              \/ RefreshEnrichment
       PROVE  clock' \in {clock, now} /\ UNCHANGED <<snapshots, lives, notes, rates, resolutions>>
  BY <1>11
  DEF RefreshAppearance, ProjectAppearance, RefreshStrength, RateTeams, RefreshContext, AppendContext,
      RefreshBaseline, RefreshHorizon, RefreshEnrichment, Script, Tick, official, evidence
<1>12. QED
  BY <1>1, <1>2, <1>3, <1>4, <1>5, <1>6, <1>7, <1>8, <1>9, <1>10, <1>11
  DEF Next, vars, official, evidence

LEMMA ClockGrows == StoredByNow /\ [Next]_vars => clock \in Nat /\ clock' \in Nat /\ clock <= clock'
<1> SUFFICES ASSUME StoredByNow, [Next]_vars
             PROVE  clock' \in {clock, now}
  BY DEF StoredByNow, now
<1> QED
  BY DEF Next, vars, Begin, ImportIdentity, ResolveAvailability, CaptureLive, ReleaseAppearance,
     ReleaseBook, ReleaseStrength, ReleaseContext, ReleaseAnchor, ReleaseHorizon, ReleaseEnrich,
     Validate, Stop, StopInRates, RefreshSnapshot, RefreshLive, RefreshAvailability,
     RefreshAppearance, RefreshStrength, ImportRates, Annotate, RefreshContext, RefreshBaseline,
     RefreshHorizon, RefreshEnrichment, Script, Tick

LEMMA AppearanceAdded ==
  ASSUME StoredByNow, EvidenceCausal, clock' \in Nat, clock <= clock',
         NEW s, NEW h \in Histories, ProjectAppearance(s, h)
  PROVE  EvidenceCausal'
<1> DEFINE new == AppearanceOf(s, h)
<1>1. s \in resolutions /\ appearances' \subseteq appearances \cup {new}
  BY StoredIsThere DEF ProjectAppearance
<1>2. new.asOf \in Nat /\ new.asOf <= clock /\ CausalAppearance(new)
  BY <1>1, AppearanceIsCausal
<1> HIDE DEF new
<1>3. \A a \in appearances' : a.asOf \in Nat /\ a.asOf <= clock' /\ CausalAppearance(a)
  BY <1>1, <1>2 DEF EvidenceCausal, StoredByNow
<1>4. QED
  BY <1>3 DEF ProjectAppearance, EvidenceCausal, StoredByNow, CausalAppearance

LEMMA StrengthAdded ==
  ASSUME StoredByNow, EvidenceCausal, clock' \in Nat, clock <= clock',
         NEW t, \A l \in t.lives : l.at <= Due[Target], RateTeams(t)
  PROVE  EvidenceCausal'
  BY StoredIsThere DEF RateTeams, EvidenceCausal, StoredByNow, CausalAppearance

LEMMA ContextAdded ==
  ASSUME StoredByNow, EvidenceCausal, clock' \in Nat, clock <= clock',
         NEW a \in appearances, AppendContext(a)
  PROVE  EvidenceCausal'
<1> DEFINE new == ContextOf(a)
<1>1. contexts' \subseteq contexts \cup {new} /\ UNCHANGED <<appearances, strengths>>
  BY StoredIsThere DEF AppendContext
<1>2. new.asOf \in Nat /\ new.asOf <= clock /\ \A n \in new.notes : n <= new.asOf /\ n \in Nat
  BY ContextIsCausal DEF EvidenceCausal
<1> HIDE DEF new
<1>3. \A c \in contexts' : /\ c.asOf \in Nat /\ c.asOf <= clock'
                           /\ \A n \in c.notes : n <= c.asOf /\ n \in Nat
  BY <1>1, <1>2 DEF EvidenceCausal, StoredByNow
<1>4. QED
  BY <1>1, <1>3 DEF EvidenceCausal, StoredByNow, CausalAppearance

LEMMA EvidenceStays ==
  ASSUME StoredByNow, EvidenceCausal, ScriptHolds, [Next]_vars
  PROVE  EvidenceCausal'
<1>0. clock \in Nat /\ clock' \in Nat /\ clock <= clock'
  BY ClockGrows
<1>1. CASE ReleaseAppearance
  BY <1>0, <1>1, AppearanceAdded DEF ReleaseAppearance
<1>2. CASE RefreshAppearance
  BY <1>0, <1>2, AppearanceAdded DEF RefreshAppearance
<1>3. CASE ReleaseStrength
  BY <1>0, <1>3, StrengthAdded, StrengthIsCausal DEF ReleaseStrength
<1>4. ASSUME NEW s, NEW b, RefreshStrength(s, b)
      PROVE  EvidenceCausal'
  BY <1>0, <1>4, StrengthAdded, StrengthIsCausal DEF RefreshStrength
<1>5. CASE ReleaseContext
  BY <1>0, <1>5, ContextAdded DEF ReleaseContext, ScriptHolds
<1>6. ASSUME NEW a \in appearances, RefreshContext(a)
      PROVE  EvidenceCausal'
  BY <1>0, <1>6, ContextAdded DEF RefreshContext
<1>7. ASSUME UNCHANGED <<appearances, contexts, strengths>>
      PROVE  EvidenceCausal'
  BY <1>0, <1>7 DEF EvidenceCausal, CausalAppearance
<1>8. ASSUME \/ \E final, provisional \in BOOLEAN : Begin(final, provisional)
             \/ ImportIdentity
             \/ ResolveAvailability
             \/ \E g \in 1 .. Target - 1 : CaptureLive(g)
             \/ \E b \in Books : ReleaseBook(b)
             \/ ReleaseAnchor
             \/ ReleaseHorizon
             \/ \E status \in Statuses : ReleaseEnrich(status)
             \/ Validate
             \/ Stop
             \/ StopInRates
      PROVE  UNCHANGED <<appearances, contexts, strengths>>
  BY <1>8
  DEF Begin, ImportIdentity, ResolveAvailability, CaptureLive, ReleaseBook, ReleaseAnchor,
      ReleaseHorizon, ReleaseEnrich, Validate, Stop, StopInRates, evidence
<1>9. ASSUME \/ \E final \in BOOLEAN : RefreshSnapshot(final)
             \/ \E s \in snapshots, g \in 1 .. Target - 1 : RefreshLive(s, g)
             \/ RefreshAvailability
             \/ ImportRates
             \/ Annotate
             \/ RefreshBaseline
             \/ \E m \in models, g \in Target .. LastGW : RefreshHorizon(m, g)
             \/ RefreshEnrichment
      PROVE  UNCHANGED <<appearances, contexts, strengths>>
  BY <1>9
  DEF RefreshSnapshot, RefreshLive, RefreshAvailability, ImportRates, Annotate, RefreshBaseline,
      RefreshHorizon, RefreshEnrichment, evidence
<1>10. QED
  BY <1>1, <1>2, <1>3, <1>4, <1>5, <1>6, <1>7, <1>8, <1>9 DEF Next, vars, evidence

\* No script deletes a row.
LEMMA RowsStay ==
  ASSUME [Next]_vars
  PROVE  /\ appearances \subseteq appearances'
         /\ strengths \subseteq strengths'
         /\ rates \subseteq rates'
         /\ contexts \subseteq contexts'
         /\ models \subseteq models'
  BY DEF Next, vars, Begin, ImportIdentity, ResolveAvailability, CaptureLive, ReleaseAppearance,
     ReleaseBook, ReleaseStrength, ReleaseContext, ReleaseAnchor, ReleaseHorizon, ReleaseEnrich,
     Validate, Stop, StopInRates, RefreshSnapshot, RefreshLive, RefreshAvailability,
     RefreshAppearance, RefreshStrength, ImportRates, Annotate, RefreshContext, RefreshBaseline,
     RefreshHorizon, RefreshEnrichment, ProjectAppearance, RateTeams, AppendContext, Baseline,
     evidence, projections

LEMMA InterruptedRatesAreCausal ==
  ASSUME NEW u, CausalRates(u), NEW written
  PROVE  CausalRates([u EXCEPT !.whole = written])
<1> DEFINE v == [source |-> u.source, asOf |-> u.asOf, rate |-> u.rate, lives |-> u.lives,
                 whole |-> written]
<1>1. u = [source |-> u.source, asOf |-> u.asOf, rate |-> u.rate, lives |-> u.lives,
           whole |-> u.whole]
  BY DEF CausalRates
<1>2. [u EXCEPT !.whole = written] = v
  <2>1. ASSUME NEW a, NEW b, NEW c, NEW d, NEW e, NEW f
        PROVE  [[source |-> a, asOf |-> b, rate |-> c, lives |-> d, whole |-> e]
                  EXCEPT !.whole = f]
               = [source |-> a, asOf |-> b, rate |-> c, lives |-> d, whole |-> f]
    OBVIOUS
  <2> DEFINE w == [source |-> u.source, asOf |-> u.asOf, rate |-> u.rate, lives |-> u.lives,
                   whole |-> u.whole]
  <2>2. [w EXCEPT !.whole = written] = v
    BY <2>1
  <2>3. u = w
    BY <1>1
  <2> HIDE DEF w, v
  <2>4. QED
    BY <2>2, <2>3
<1>3. /\ v.asOf = u.asOf /\ v.rate = u.rate /\ v.lives = u.lives
      /\ v = [source |-> v.source, asOf |-> v.asOf, rate |-> v.rate, lives |-> v.lives,
              whole |-> v.whole]
  OBVIOUS
<1> HIDE DEF v
<1>4. CausalRates(v)
  BY <1>3 DEF CausalRates
<1>5. QED
  BY <1>2, <1>4

\* Runs are projected by four actions, each from inputs that are stored.
BaselineStep ==
  \/ ReleaseAnchor
  \/ ReleaseHorizon
  \/ RefreshBaseline
  \/ \E m \in models, g \in Target .. LastGW : RefreshHorizon(m, g)

Projects(a, r, t, c, ms) ==
  /\ Inputs(a, r, t, c)
  /\ Baseline(ms)
  /\ \A m \in ms : m \in models \/ \E g : m = ModelOf(g, a, r, t, c)

LEMMA BaselineStepProjects ==
  ASSUME ProjectionsCausal, ScriptHolds, BaselineStep
  PROVE  \E a, r, t, c, ms : Projects(a, r, t, c, ms)
<1>1. CASE ReleaseAnchor
  <2>1. PICK r \in RateChoices(release.appearance.asOf) :
          Baseline({Stored(models, ModelOf(Target, release.appearance, r, release.strength,
                                           release.context))})
    BY <1>1 DEF ReleaseAnchor
  <2>2. Inputs(release.appearance, r, release.strength, release.context)
    BY <1>1, <2>1, ChosenRatesAreKnown DEF ReleaseAnchor, ScriptHolds, Inputs
  <2>3. QED
    BY <2>1, <2>2, StoredIsThere DEF Projects
<1>2. CASE ReleaseHorizon
  <2>1. release.anchor \in models
    BY <1>2 DEF ReleaseHorizon, ScriptHolds
  <2>2. PICK in \in Pinned(release.anchor) :
          Baseline({Stored(models, ModelOf(Target + Len(release.runs), in[1], in[2], in[3], in[4]))})
    BY <1>2 DEF ReleaseHorizon
  <2>3. Inputs(in[1], in[2], in[3], in[4])
    BY <2>1, <2>2, PinnedAreInputs
  <2>4. QED
    BY <2>2, <2>3, StoredIsThere DEF Projects
<1>3. CASE RefreshBaseline
  <2>1. PICK t \in StrengthChoices : \E a \in AppearanceChoices(t.source) :
          \E r \in RateChoices(a.asOf), c \in ContextChoices(a) :
            Baseline({Stored(models, ModelOf(Target, a, r, t, c))})
    BY <1>3 DEF RefreshBaseline
  <2>2. PICK a \in AppearanceChoices(t.source) : \E r \in RateChoices(a.asOf), c \in ContextChoices(a) :
          Baseline({Stored(models, ModelOf(Target, a, r, t, c))})
    BY <2>1
  <2>3. PICK r \in RateChoices(a.asOf), c \in ContextChoices(a) :
          Baseline({Stored(models, ModelOf(Target, a, r, t, c))})
    BY <2>2
  <2>4. t \in strengths /\ a \in appearances /\ c \in contexts \cup {None}
    BY <2>1, <2>2, <2>3 DEF StrengthChoices, AppearanceChoices, ContextChoices, NewestBy
  <2>5. Inputs(a, r, t, c)
    BY <2>3, <2>4, ChosenRatesAreKnown DEF Inputs
  <2>6. QED
    BY <2>3, <2>5, StoredIsThere DEF Projects
<1>4. ASSUME NEW anchor \in models, NEW last, RefreshHorizon(anchor, last)
      PROVE  \E a, r, t, c, ms : Projects(a, r, t, c, ms)
  <2>1. PICK in \in Pinned(anchor) :
          Baseline({Stored(models, ModelOf(g, in[1], in[2], in[3], in[4])) : g \in Target .. last})
    BY <1>4 DEF RefreshHorizon
  <2>2. Inputs(in[1], in[2], in[3], in[4])
    BY <2>1, PinnedAreInputs
  <2>3. QED
    BY <2>1, <2>2, StoredIsThere DEF Projects
<1>5. QED
  BY <1>1, <1>2, <1>3, <1>4 DEF BaselineStep

LEMMA ProjectionsStay ==
  ASSUME StoredByNow, EvidenceCausal, ProjectionsCausal, ScriptHolds, [Next]_vars
  PROVE  ProjectionsCausal'
<1>1. CASE BaselineStep
  <2>1. PICK a, r, t, c, ms : Projects(a, r, t, c, ms)
    BY <1>1, BaselineStepProjects
  <2>2. UNCHANGED <<appearances, strengths, rates, contexts>>
    BY <1>1
    DEF BaselineStep, ReleaseAnchor, ReleaseHorizon, RefreshBaseline, RefreshHorizon, evidence
  <2>3. QED
    BY <2>1, <2>2, BaselineIsCausal DEF Projects
<1>2. CASE StopInRates
  <2> DEFINE written == FALSE
  <2>1. PICK r \in RateChoices(release.appearance.asOf) :
          currents' = currents \cup
            {[CurrentOf(release.appearance, r, release.context) EXCEPT !.whole = written]}
    BY <1>2 DEF StopInRates
  <2> HIDE DEF written
  <2>2. r <= ModelTime(release.appearance, release.context)
    <3>1. release.appearance \in appearances /\ release.context \in contexts
      BY <1>2 DEF StopInRates, ScriptHolds
    <3>2. release.appearance.asOf \in Nat /\ release.context.asOf \in Nat /\ r \in Nat
          /\ r <= release.appearance.asOf
      BY <2>1, <3>1, ChosenRatesAreKnown DEF EvidenceCausal, StoredByNow
    <3>3. /\ ModelTime(release.appearance, release.context) \in Nat
          /\ release.appearance.asOf <= ModelTime(release.appearance, release.context)
      BY <3>2, ModelTimeIsLatest
    <3>4. QED
      BY <3>2, <3>3
  <2>3. \A u \in currents' : CausalRates(u)
    BY <2>1, <2>2, RatesAreCausal, InterruptedRatesAreCausal DEF ProjectionsCausal
  <2>4. UNCHANGED <<models, appearances, strengths, rates, contexts>>
    BY <1>2 DEF StopInRates, evidence
  <2>5. QED
    BY <2>3, <2>4 DEF ProjectionsCausal, CausalModel, InTime
<1>3. ASSUME UNCHANGED <<currents, models>>
      PROVE  ProjectionsCausal'
  BY <1>3, RowsStay, ProjectionsStayCausal
<1>4. ASSUME \/ \E final, provisional \in BOOLEAN : Begin(final, provisional)
             \/ ImportIdentity
             \/ ResolveAvailability
             \/ \E g \in 1 .. Target - 1 : CaptureLive(g)
             \/ ReleaseAppearance
             \/ \E b \in Books : ReleaseBook(b)
             \/ ReleaseStrength
             \/ ReleaseContext
             \/ \E status \in Statuses : ReleaseEnrich(status)
             \/ Validate
             \/ Stop
      PROVE  UNCHANGED <<currents, models>>
  BY <1>4
  DEF Begin, ImportIdentity, ResolveAvailability, CaptureLive, ReleaseAppearance, ReleaseBook,
      ReleaseStrength, ReleaseContext, ReleaseEnrich, Validate, Stop, projections
<1>5. ASSUME \/ \E final \in BOOLEAN : RefreshSnapshot(final)
             \/ \E s \in snapshots, g \in 1 .. Target - 1 : RefreshLive(s, g)
             \/ RefreshAvailability
             \/ RefreshAppearance
             \/ \E s \in snapshots, b \in Books : RefreshStrength(s, b)
             \/ ImportRates
             \/ Annotate
             \/ \E a \in appearances : RefreshContext(a)
             \/ RefreshEnrichment
      PROVE  UNCHANGED <<currents, models>>
  BY <1>5
  DEF RefreshSnapshot, RefreshLive, RefreshAvailability, RefreshAppearance, RefreshStrength,
      ImportRates, Annotate, RefreshContext, RefreshEnrichment, projections
<1>6. QED
  BY <1>1, <1>2, <1>3, <1>4, <1>5 DEF Next, vars, projections, BaselineStep

-----------------------------------------------------------------------------
(* What the script holds. *)

\* A step that leaves the script alone, and one that lets go of everything.
LEMMA ScriptKept ==
  ASSUME ScriptHolds, [Next]_vars, UNCHANGED release
  PROVE  ScriptHolds'
  BY RowsStay DEF ScriptHolds

LEMMA ScriptIdle ==
  ASSUME release' = Idle
  PROVE  ScriptHolds'
  BY DEF ScriptHolds, Idle

\* The stages that hold nothing yet, or nothing any more.
LEMMA ScriptElsewhere ==
  ASSUME DOMAIN release' = DOMAIN Idle,
         release'.stage \notin {"book", "strength", "context", "anchor", "horizon"}
  PROVE  ScriptHolds'
  BY DEF ScriptHolds

LEMMA ScriptStays ==
  ASSUME ScriptHolds, [Next]_vars
  PROVE  ScriptHolds'
<1>0. /\ appearances \subseteq appearances'
      /\ strengths \subseteq strengths'
      /\ contexts \subseteq contexts'
      /\ models \subseteq models'
  BY RowsStay
<1> DEFINE Fields == {"stage", "source", "provisional", "appearance", "book", "strength",
                      "context", "anchor", "runs", "bands", "enriched"}
<1>d. DOMAIN Idle = Fields /\ DOMAIN release = Fields
  BY DEF Idle, ScriptHolds
<1> HIDE DEF Fields
<1>1. ASSUME NEW final, NEW provisional, Begin(final, provisional)
      PROVE  ScriptHolds'
  <2>1. DOMAIN release' = DOMAIN Idle /\ release'.stage = "identity"
    BY <1>1 DEF Begin, Idle
  <2>2. QED
    BY <2>1, ScriptElsewhere
<1>2. CASE ImportIdentity
  <2>1. DOMAIN release' = DOMAIN Idle /\ release'.stage = "availability"
    BY <1>2, <1>d DEF ImportIdentity, Goto, Fields
  <2>2. QED
    BY <2>1, ScriptElsewhere
<1>3. CASE ResolveAvailability
  <2>1. CASE release' = Idle
    BY <2>1, ScriptIdle
  <2>2. CASE release' = [release EXCEPT !.stage = "live"]
    <3>1. DOMAIN release' = DOMAIN Idle /\ release'.stage = "live"
      BY <2>2, <1>d DEF Fields
    <3>2. QED
      BY <3>1, ScriptElsewhere
  <2>3. QED
    BY <1>3, <2>1, <2>2 DEF ResolveAvailability
<1>4. ASSUME NEW g, CaptureLive(g)
      PROVE  ScriptHolds'
  <2>1. DOMAIN release' = DOMAIN Idle /\ release'.stage \in {"appearance", "live"}
    BY <1>4, <1>d DEF CaptureLive, Goto, Fields
  <2>2. QED
    BY <2>1, ScriptElsewhere
<1>5. CASE ReleaseAppearance
  <2>1. PICK h \in Histories :
          /\ ProjectAppearance(release.source, h)
          /\ release' = [release EXCEPT !.stage = "book", !.appearance =
                           Stored(appearances, AppearanceOf(release.source, h))]
    BY <1>5 DEF ReleaseAppearance
  <2> DEFINE a == Stored(appearances, AppearanceOf(release.source, h))
  <2>2. a \in appearances'
    BY <2>1 DEF ProjectAppearance
  <2> HIDE DEF a
  <2>3. release' = [release EXCEPT !.stage = "book", !.appearance = a]
    BY <2>1 DEF a
  <2>4. DOMAIN release' = DOMAIN Idle /\ release'.stage = "book" /\ release'.appearance = a
    BY <2>3, <1>d DEF Fields
  <2>5. QED
    BY <2>2, <2>4 DEF ScriptHolds
<1>6. ASSUME NEW b, ReleaseBook(b)
      PROVE  ScriptHolds'
  <2>1. /\ DOMAIN release' = DOMAIN Idle /\ release'.stage = "strength"
        /\ release'.appearance = release.appearance
    BY <1>6, <1>d DEF ReleaseBook, Fields
  <2>2. release.appearance \in appearances
    BY <1>6 DEF ReleaseBook, ScriptHolds
  <2>3. QED
    BY <1>0, <2>1, <2>2 DEF ScriptHolds
<1>7. CASE ReleaseStrength
  <2> DEFINE t == Stored(strengths, StrengthOf(release.source, release.book))
  <2>1. t \in strengths'
    BY <1>7 DEF ReleaseStrength, RateTeams
  <2>2. release' = [release EXCEPT !.stage = "context", !.strength = t]
    BY <1>7 DEF ReleaseStrength
  <2> HIDE DEF t
  <2>3. /\ DOMAIN release' = DOMAIN Idle /\ release'.stage = "context" /\ release'.strength = t
        /\ release'.appearance = release.appearance
    BY <2>2, <1>d DEF Fields
  <2>4. release.appearance \in appearances
    BY <1>7 DEF ReleaseStrength, ScriptHolds
  <2>5. QED
    BY <1>0, <2>1, <2>3, <2>4 DEF ScriptHolds
<1>8. CASE ReleaseContext
  <2> DEFINE c == Stored(contexts, ContextOf(release.appearance))
  <2>1. c \in contexts'
    BY <1>8 DEF ReleaseContext, AppendContext
  <2>2. release' = [release EXCEPT !.stage = "anchor", !.context = c]
    BY <1>8 DEF ReleaseContext
  <2> HIDE DEF c
  <2>3. /\ DOMAIN release' = DOMAIN Idle /\ release'.stage = "anchor" /\ release'.context = c
        /\ release'.appearance = release.appearance /\ release'.strength = release.strength
    BY <2>2, <1>d DEF Fields
  <2>4. release.appearance \in appearances /\ release.strength \in strengths
    BY <1>8 DEF ReleaseContext, ScriptHolds
  <2>5. QED
    BY <1>0, <2>1, <2>3, <2>4 DEF ScriptHolds
<1>9. CASE ReleaseAnchor
  <2>1. PICK r \in RateChoices(release.appearance.asOf) :
          LET m == Stored(models, ModelOf(Target, release.appearance, r, release.strength,
                                          release.context)) IN
            /\ Baseline({m})
            /\ release' = [release EXCEPT !.stage = "horizon", !.anchor = m]
    BY <1>9 DEF ReleaseAnchor
  <2> DEFINE m == Stored(models, ModelOf(Target, release.appearance, r, release.strength,
                                         release.context))
  <2>2. m \in models'
    BY <2>1 DEF Baseline
  <2>3. release' = [release EXCEPT !.stage = "horizon", !.anchor = m]
    BY <2>1
  <2> HIDE DEF m
  <2>4. DOMAIN release' = DOMAIN Idle /\ release'.stage = "horizon" /\ release'.anchor = m
    BY <2>3, <1>d DEF Fields
  <2>5. QED
    BY <2>2, <2>4 DEF ScriptHolds
<1>10. CASE ReleaseHorizon
  <2>1. PICK runs :
          \/ release' = [release EXCEPT !.runs = runs]
          \/ release' = [release EXCEPT !.runs = runs, !.stage = "enrich"]
          \/ release' = Idle
    BY <1>10 DEF ReleaseHorizon
  <2>2. CASE release' = [release EXCEPT !.runs = runs]
    <3>1. /\ DOMAIN release' = DOMAIN Idle /\ release'.stage = "horizon"
          /\ release'.anchor = release.anchor
      BY <1>10, <2>2, <1>d DEF ReleaseHorizon, Fields
    <3>2. release.anchor \in models
      BY <1>10 DEF ReleaseHorizon, ScriptHolds
    <3>3. QED
      BY <1>0, <3>1, <3>2 DEF ScriptHolds
  <2>3. CASE release' = [release EXCEPT !.runs = runs, !.stage = "enrich"]
    <3>1. DOMAIN release' = DOMAIN Idle /\ release'.stage = "enrich"
      BY <2>3, <1>d DEF Fields
    <3>2. QED
      BY <3>1, ScriptElsewhere
  <2>4. QED
    BY <2>1, <2>2, <2>3, ScriptIdle
<1>11. ASSUME NEW status, ReleaseEnrich(status)
       PROVE  ScriptHolds'
  <2>1. DOMAIN release' = DOMAIN Idle /\ release'.stage \in {"validate", "enrich"}
    BY <1>11, <1>d DEF ReleaseEnrich, Fields
  <2>2. QED
    BY <2>1, ScriptElsewhere
<1>12. CASE Validate \/ Stop \/ StopInRates
  BY <1>12, ScriptIdle DEF Validate, Stop, StopInRates
<1>13. ASSUME UNCHANGED release
       PROVE  ScriptHolds'
  BY <1>13, ScriptKept
<1>14. ASSUME \/ \E final \in BOOLEAN : RefreshSnapshot(final)
              \/ \E s \in snapshots, g \in 1 .. Target - 1 : RefreshLive(s, g)
              \/ RefreshAvailability
              \/ RefreshAppearance
              \/ \E s \in snapshots, b \in Books : RefreshStrength(s, b)
              \/ ImportRates
              \/ Annotate
              \/ \E a \in appearances : RefreshContext(a)
              \/ RefreshBaseline
              \/ \E m \in models, g \in Target .. LastGW : RefreshHorizon(m, g)
              \/ RefreshEnrichment
       PROVE  UNCHANGED release
  BY <1>14
  DEF RefreshSnapshot, RefreshLive, RefreshAvailability, RefreshAppearance, RefreshStrength,
      ImportRates, Annotate, RefreshContext, RefreshBaseline, RefreshHorizon, RefreshEnrichment,
      Script, script
<1>15. QED
  BY <1>1, <1>2, <1>3, <1>4, <1>5, <1>6, <1>7, <1>8, <1>9, <1>10, <1>11, <1>12, <1>13, <1>14
  DEF Next, vars, script

-----------------------------------------------------------------------------

LEMMA InvariantStarts == Init => IInv
<1> SUFFICES ASSUME Init PROVE IInv
  OBVIOUS
<1>1. Due[1] \in Nat
  <2>1. 1 \in GWs
    BY PipelineAssumption DEF GWs, LastGW
  <2>2. QED
    BY <2>1, PipelineAssumption
<1>2. ScriptHolds
  BY DEF Init, ScriptHolds, Idle
<1>3. QED
  BY <1>1, <1>2 DEF Init, IInv, StoredByNow, EvidenceCausal, ProjectionsCausal

LEMMA InvariantStays == IInv /\ [Next]_vars => IInv'
  BY StoredStays, EvidenceStays, ProjectionsStay, ScriptStays DEF IInv

\* No projection rests on what was known only after it claims to be as of, nor is it as of
\* a time after its deadline, whatever runs between the steps of a release:
\* materialize_inseason_baseline and materialize_frozen_projection_horizon pick and pin their
\* inputs by time.
THEOREM ModelsStayCausal == Spec => []ModelsAreCausal
<1>1. ASSUME IInv PROVE ModelsAreCausal
  <2>1. ASSUME NEW m \in models, m.current # None
        PROVE  /\ m.current.rate <= m.current.asOf
               /\ m.current.asOf <= m.asOf
               /\ \A l \in m.current.lives : l.at <= m.asOf
    <3>1. CausalRates(m.current) /\ m.current.asOf = m.asOf /\ m.asOf \in Nat
      BY <1>1, <2>1 DEF IInv, ProjectionsCausal, CausalModel
    <3>2. QED
      BY <3>1 DEF CausalRates
  <2>2. QED
    BY <1>1, <2>1 DEF IInv, ProjectionsCausal, CausalModel, InTime, ModelsAreCausal
<1>2. QED
  BY <1>1, InvariantStarts, InvariantStays, PTL DEF Spec

-------------------------------------------------------------------------------
(***************************************************************************)
(* A release that reaches its validation passes it, and all its Gameweeks  *)
(* are projected from the same inputs, whatever other scripts commit while *)
(* it is made.  And the label it gets then is never taken back.            *)
(***************************************************************************)

ModelFields ==
  {"gw", "source", "asOf", "appearance", "rate", "strength", "context", "current", "made"}

RowsTyped ==
  /\ snapshots \subseteq SnapshotRows
  /\ lives \subseteq LiveRows
  /\ appearances \subseteq AppearanceRows
  /\ contexts \subseteq ContextRows
  /\ currents \subseteq RateRows
  /\ \A m \in models : DOMAIN m = ModelFields /\ m.current \in currents \cup {None}

\* The current rates of a season are stored once for the same inputs.
RatesStoredOnce == \A u, v \in currents : SameRates(u, v) => u = v

\* A run from which any Gameweek, at any later time, gets the same inputs again: its context
\* is given, the captures of its snapshot are known and its current rates stored.
Anchored(n) ==
  /\ n \in models
  /\ n.source = n.appearance.source
  /\ n.source \in bridges
  /\ Seasonal(n.appearance)
  /\ n.context \in contexts
  /\ n.asOf = ModelTime(n.appearance, n.context)
  /\ n.current \in currents
  /\ SameRates(CurrentOf(n.appearance, n.rate, n.context), n.current)

\* One Gameweek after the other, each from the inputs of the anchor.
Follows(runs, n) ==
  /\ runs \in Seq(models)
  /\ \A i \in DOMAIN runs :
       /\ runs[i].gw = Target + i - 1
       /\ SameInputs(runs[i], n)
       /\ runs[i].asOf = n.asOf
       /\ InTime(runs[i])

Preparing ==
  {"identity", "availability", "live", "appearance", "book", "strength", "context", "anchor"}
Projecting == {"horizon", "enrich", "validate"}

\* What the script has done for its own snapshot at each stage.
ScriptFollows ==
  /\ DOMAIN release = DOMAIN Idle
  /\ release.stage \in Stages \cup {"idle"}
  /\ release.stage \in Preparing => release.source \in snapshots /\ release.runs = <<>>
  /\ release.stage \in Preparing \ {"identity"} => release.source \in bridges
  /\ release.stage \in {"appearance", "book", "strength", "context", "anchor"} =>
       \E l \in lives : l.source = release.source
  /\ release.stage \in {"book", "strength", "context", "anchor"} =>
       release.appearance.source = release.source
  /\ release.stage \in Projecting =>
       /\ Anchored(release.anchor)
       /\ Follows(release.runs, release.anchor)
       /\ Len(release.runs) <= HorizonLength
  /\ release.stage = "horizon" => Len(release.runs) < HorizonLength

LineageInv == IInv /\ RowsTyped /\ RatesStoredOnce /\ ScriptFollows /\ ReleaseIsOneLineage

-----------------------------------------------------------------------------
(* Rows and their identifiers. *)

\* A stored row agrees with the one asked for in everything but its time.
LEMMA StoredAgrees ==
  ASSUME NEW table, NEW row, NEW f, f # "made", f \in DOMAIN row,
         \A x \in table : f \in DOMAIN x
  PROVE  Stored(table, row)[f] = row[f]
<1>1. CASE \E x \in table : [x EXCEPT !.made = 0] = [row EXCEPT !.made = 0]
  <2> DEFINE y == Stored(table, row)
  <2>1. y \in table /\ [y EXCEPT !.made = 0] = [row EXCEPT !.made = 0]
    BY <1>1 DEF Stored
  <2> HIDE DEF y
  <2>2. [y EXCEPT !.made = 0][f] = y[f] /\ [row EXCEPT !.made = 0][f] = row[f]
    BY <2>1
  <2>3. y[f] = row[f]
    BY <2>1, <2>2
  <2>4. QED
    BY <2>3 DEF y
<1>2. CASE ~ \E x \in table : [x EXCEPT !.made = 0] = [row EXCEPT !.made = 0]
  BY <1>2 DEF Stored
<1>3. QED
  BY <1>1, <1>2

\* Rates have the same identifier exactly if they have the same inputs.
LEMMA SameRatesSameInputs ==
  ASSUME NEW u \in RateRows, NEW v \in RateRows
  PROVE  SameRates(u, v) <=> /\ u.source = v.source
                             /\ u.asOf = v.asOf
                             /\ u.rate = v.rate
                             /\ u.lives = v.lives
<1> DEFINE written == TRUE
           x == [u EXCEPT !.whole = written]
           y == [v EXCEPT !.whole = written]
<1>0. SameRates(u, v) <=> x = y
  BY DEF SameRates
<1> HIDE DEF written
<1>1. /\ x.source = u.source /\ x.asOf = u.asOf /\ x.rate = u.rate /\ x.lives = u.lives
      /\ y.source = v.source /\ y.asOf = v.asOf /\ y.rate = v.rate /\ y.lives = v.lives
      /\ x.whole = written /\ y.whole = written
  BY DEF RateRows
<1>2. /\ x = [source |-> x.source, asOf |-> x.asOf, rate |-> x.rate, lives |-> x.lives, whole |-> x.whole]
      /\ y = [source |-> y.source, asOf |-> y.asOf, rate |-> y.rate, lives |-> y.lives, whole |-> y.whole]
  BY DEF RateRows
<1> HIDE DEF x, y
<1>3. QED
  BY <1>0, <1>1, <1>2

LEMMA CurrentIsRow ==
  ASSUME StoredByNow, EvidenceCausal, RowsTyped, NEW a \in appearances, NEW r \in rates,
         NEW c \in contexts \cup {None}
  PROVE  /\ CurrentOf(a, r, c) \in RateRows
         /\ ModelTime(a, c) \in Nat
         /\ CurrentOf(a, r, c).source = a.source
         /\ CurrentOf(a, r, c).asOf = ModelTime(a, c)
         /\ CurrentOf(a, r, c).rate = r
         /\ CurrentOf(a, r, c).lives = FinalLives(a.source, ModelTime(a, c))
<1> DEFINE time == ModelTime(a, c)
           known == FinalLives(a.source, time)
<1>1. time \in Nat
  BY ModelTimeIsLatest DEF EvidenceCausal
<1>2. known \subseteq LiveRows
  BY DEF FinalLives, RowsTyped
<1>3. a.source \in SnapshotRows /\ r \in Nat
  BY DEF RowsTyped, AppearanceRows, StoredByNow
<1>4. CurrentOf(a, r, c) =
        [source |-> a.source, asOf |-> time, rate |-> r, lives |-> known, whole |-> TRUE]
  BY DEF CurrentOf
<1> HIDE DEF time, known
<1>5. QED
  BY <1>1, <1>2, <1>3, <1>4 DEF RateRows, time, known

LEMMA BaselineRows ==
  ASSUME StoredByNow, EvidenceCausal, RowsTyped, RatesStoredOnce,
         NEW a, NEW r, NEW t, NEW c, Inputs(a, r, t, c), NEW ms, Baseline(ms),
         \A m \in ms : m \in models \/ \E g : m = ModelOf(g, a, r, t, c)
  PROVE  /\ currents \subseteq currents' /\ currents' \subseteq RateRows
         /\ \A m \in models' : DOMAIN m = ModelFields /\ m.current \in currents' \cup {None}
         /\ RatesStoredOnce'
<1> DEFINE u == CurrentOf(a, r, c)
           w == RatesOf(a, r, c)
<1>1. u \in RateRows
  BY CurrentIsRow DEF Inputs
<1>2. \/ w = None
      \/ w \in currents
      \/ w = u /\ ~ \E v \in currents : SameRates(u, v)
  BY DEF RatesOf, StoredRates
<1>3. \A g : DOMAIN ModelOf(g, a, r, t, c) = ModelFields /\ ModelOf(g, a, r, t, c).current = w
  BY DEF ModelOf, ModelFields
<1> HIDE DEF u, w
<1>4. \A m \in ms : DOMAIN m = ModelFields /\ m.current \in currents \cup {None, w}
  BY <1>3 DEF RowsTyped
<1>5. currents' = currents \cup {m.current : m \in {x \in ms : x.current # None}}
  BY DEF Baseline
<1>6. currents' \subseteq currents \cup {w} /\ currents \subseteq currents'
      /\ (w \in currents' \/ w = None \/ currents' = currents)
  BY <1>4, <1>5
<1>7. None \notin currents'
  BY <1>5, PipelineAssumption DEF RowsTyped
<1>8. currents' \subseteq RateRows
  BY <1>1, <1>2, <1>6, <1>7 DEF RowsTyped
<1>9. \A m \in models' : DOMAIN m = ModelFields /\ m.current \in currents' \cup {None}
  BY <1>4, <1>5, <1>6 DEF Baseline, RowsTyped
<1>10. RatesStoredOnce'
  <2>1. CASE w = None \/ w \in currents
    <3>1. currents' = currents
      BY <1>6, <1>7, <2>1
    <3>2. QED
      BY <3>1 DEF RatesStoredOnce, SameRates
  <2>2. CASE w = u /\ ~ \E v \in currents : SameRates(u, v)
    <3>1. \A v \in currents : ~SameRates(u, v) /\ ~SameRates(v, u)
      BY <2>2 DEF SameRates
    <3>2. QED
      BY <1>6, <2>2, <3>1 DEF RatesStoredOnce, SameRates
  <2>3. QED
    BY <1>2, <2>1, <2>2
<1>11. QED
  BY <1>6, <1>8, <1>9, <1>10

-----------------------------------------------------------------------------
(* Every step keeps the rows. *)

\* Times that come are times.
LEMMA NowIsTime == StoredByNow => now \in Nat
  BY DEF StoredByNow, now

LEMMA AppearanceRowAdded ==
  ASSUME StoredByNow, RowsTyped, NEW s, NEW h \in Histories, ProjectAppearance(s, h)
  PROVE  appearances' \subseteq AppearanceRows
<1> DEFINE new == AppearanceOf(s, h)
           late == Latest({s.at} \cup {h[g].at : g \in 1 .. Target - 1})
<1>1. s \in resolutions /\ appearances' \subseteq appearances \cup {new}
  BY StoredIsThere DEF ProjectAppearance
<1>2. new = [source |-> s, lives |-> h, made |-> now, asOf |-> late]
  BY DEF AppearanceOf
<1>3. late \in Nat
  BY <1>1, <1>2, AppearanceIsCausal
<1>4. h \in [1 .. Target - 1 -> LiveRows] /\ s \in SnapshotRows
  BY <1>1 DEF Histories, RowsTyped, StoredByNow
<1> HIDE DEF new, late
<1>5. new \in AppearanceRows
  BY <1>2, <1>3, <1>4, NowIsTime DEF AppearanceRows
<1>6. QED
  BY <1>1, <1>5 DEF RowsTyped

LEMMA ContextRowAdded ==
  ASSUME StoredByNow, EvidenceCausal, RowsTyped, NEW a \in appearances, AppendContext(a)
  PROVE  contexts' \subseteq ContextRows
<1> DEFINE new == ContextOf(a)
           known == {n \in notes : n <= Due[Target]}
           late == Latest({a.asOf} \cup known)
<1>1. contexts' \subseteq contexts \cup {new}
  BY StoredIsThere DEF AppendContext
<1>2. new = [appearance |-> a, notes |-> known, asOf |-> late, made |-> now]
  BY DEF ContextOf
<1>3. late \in Nat
  BY <1>2, ContextIsCausal DEF EvidenceCausal
<1>4. known \subseteq Nat /\ a \in AppearanceRows
  BY DEF StoredByNow, RowsTyped
<1> HIDE DEF new, known, late
<1>5. new \in ContextRows
  BY <1>2, <1>3, <1>4, NowIsTime DEF ContextRows
<1>6. QED
  BY <1>1, <1>5 DEF RowsTyped

LEMMA RowsKept ==
  ASSUME RowsTyped, RatesStoredOnce,
         snapshots' \subseteq SnapshotRows, lives' \subseteq LiveRows,
         appearances' \subseteq AppearanceRows, contexts' \subseteq ContextRows,
         UNCHANGED <<currents, models>>
  PROVE  RowsTyped' /\ RatesStoredOnce'
  BY DEF RowsTyped, RatesStoredOnce, SameRates

LEMMA BaselineRowsKept ==
  ASSUME RowsTyped, UNCHANGED <<official, evidence>>,
         currents' \subseteq RateRows,
         \A m \in models' : DOMAIN m = ModelFields /\ m.current \in currents' \cup {None}
  PROVE  RowsTyped'
  BY DEF RowsTyped, official, evidence

LEMMA RowsStayTyped ==
  ASSUME IInv, RowsTyped, RatesStoredOnce, ScriptFollows, [Next]_vars
  PROVE  RowsTyped' /\ RatesStoredOnce'
<1> USE DEF IInv
<1>1. ASSUME NEW final \in BOOLEAN, NEW provisional \in BOOLEAN, Begin(final, provisional)
      PROVE  RowsTyped' /\ RatesStoredOnce'
  <2>1. snapshots' \subseteq SnapshotRows
    BY <1>1, NowIsTime DEF Begin, SnapshotOf, SnapshotRows, RowsTyped
  <2>2. QED
    BY <1>1, <2>1, RowsKept DEF Begin, evidence, projections, RowsTyped
<1>2. ASSUME NEW final \in BOOLEAN, RefreshSnapshot(final)
      PROVE  RowsTyped' /\ RatesStoredOnce'
  <2>1. snapshots' \subseteq SnapshotRows
    BY <1>2, NowIsTime DEF RefreshSnapshot, SnapshotOf, SnapshotRows, RowsTyped
  <2>2. QED
    BY <1>2, <2>1, RowsKept DEF RefreshSnapshot, evidence, projections, RowsTyped
<1>3. ASSUME NEW g \in 1 .. Target - 1, CaptureLive(g)
      PROVE  RowsTyped' /\ RatesStoredOnce'
  <2>1. release.source \in SnapshotRows
    BY <1>3 DEF CaptureLive, ScriptFollows, Preparing, RowsTyped
  <2>2. lives' \subseteq LiveRows
    BY <1>3, <2>1, NowIsTime DEF CaptureLive, LiveOf, LiveRows, RowsTyped
  <2>3. QED
    BY <1>3, <2>2, RowsKept DEF CaptureLive, evidence, projections, RowsTyped
<1>4. ASSUME NEW s \in snapshots, NEW g \in 1 .. Target - 1, RefreshLive(s, g)
      PROVE  RowsTyped' /\ RatesStoredOnce'
  <2>1. lives' \subseteq LiveRows
    BY <1>4, NowIsTime DEF RefreshLive, LiveOf, LiveRows, RowsTyped
  <2>2. QED
    BY <1>4, <2>1, RowsKept DEF RefreshLive, evidence, projections, RowsTyped
<1>5. CASE ReleaseAppearance
  <2>1. appearances' \subseteq AppearanceRows /\ UNCHANGED contexts
    BY <1>5, AppearanceRowAdded DEF ReleaseAppearance, ProjectAppearance
  <2>2. QED
    BY <1>5, <2>1, RowsKept DEF ReleaseAppearance, official, projections, RowsTyped
<1>6. CASE RefreshAppearance
  <2>1. appearances' \subseteq AppearanceRows /\ UNCHANGED contexts
    BY <1>6, AppearanceRowAdded DEF RefreshAppearance, ProjectAppearance
  <2>2. QED
    BY <1>6, <2>1, RowsKept DEF RefreshAppearance, official, projections, RowsTyped
<1>7. CASE ReleaseContext
  <2>1. contexts' \subseteq ContextRows /\ UNCHANGED appearances
    BY <1>7, ContextRowAdded DEF ReleaseContext, AppendContext, ScriptHolds
  <2>2. QED
    BY <1>7, <2>1, RowsKept DEF ReleaseContext, official, projections, RowsTyped
<1>8. ASSUME NEW a \in appearances, RefreshContext(a)
      PROVE  RowsTyped' /\ RatesStoredOnce'
  <2>1. contexts' \subseteq ContextRows /\ UNCHANGED appearances
    BY <1>8, ContextRowAdded DEF RefreshContext, AppendContext
  <2>2. QED
    BY <1>8, <2>1, RowsKept DEF RefreshContext, official, projections, RowsTyped
<1>9. CASE BaselineStep
  <2>1. PICK a, r, t, c, ms : Projects(a, r, t, c, ms)
    BY <1>9, BaselineStepProjects
  <2>2. /\ currents' \subseteq RateRows /\ RatesStoredOnce'
        /\ \A m \in models' : DOMAIN m = ModelFields /\ m.current \in currents' \cup {None}
    BY <2>1, BaselineRows DEF Projects
  <2>3. UNCHANGED <<official, evidence>>
    BY <1>9 DEF BaselineStep, ReleaseAnchor, ReleaseHorizon, RefreshBaseline, RefreshHorizon
  <2>4. QED
    BY <2>2, <2>3, BaselineRowsKept
<1>10. CASE StopInRates
  <2> DEFINE written == FALSE
  <2>1. PICK r \in RateChoices(release.appearance.asOf) :
          /\ ~ \E v \in currents : SameRates(CurrentOf(release.appearance, r, release.context), v)
          /\ currents' = currents \cup
               {[CurrentOf(release.appearance, r, release.context) EXCEPT !.whole = written]}
    BY <1>10 DEF StopInRates
  <2> DEFINE u == CurrentOf(release.appearance, r, release.context)
             w == [u EXCEPT !.whole = written]
  <2>2. u \in RateRows
    <3>1. /\ release.appearance \in appearances
          /\ release.context \in contexts
          /\ r \in rates
      BY <1>10, <2>1, ChosenRatesAreKnown DEF StopInRates, ScriptHolds
    <3>2. QED
      BY <3>1, CurrentIsRow
  <2>3. written \in BOOLEAN
    OBVIOUS
  <2> HIDE DEF written, u
  <2>4. w \in RateRows /\ w.source = u.source /\ w.asOf = u.asOf /\ w.rate = u.rate
        /\ w.lives = u.lives
    BY <2>2, <2>3 DEF RateRows
  <2>5. currents' = currents \cup {w} /\ \A v \in currents : ~SameRates(u, v)
    BY <2>1 DEF u
  <2> HIDE DEF w
  <2>6. \A v \in currents : ~SameRates(w, v) /\ ~SameRates(v, w)
    BY <2>2, <2>4, <2>5, SameRatesSameInputs DEF RowsTyped
  <2>7. RatesStoredOnce'
    BY <2>5, <2>6 DEF RatesStoredOnce, SameRates
  <2>8. UNCHANGED <<official, evidence, models>>
    BY <1>10 DEF StopInRates
  <2>9. /\ currents' \subseteq RateRows
        /\ \A m \in models' : DOMAIN m = ModelFields /\ m.current \in currents' \cup {None}
    BY <2>4, <2>5, <2>8 DEF RowsTyped
  <2>10. QED
    BY <2>7, <2>8, <2>9, BaselineRowsKept
<1>11. ASSUME UNCHANGED <<snapshots, lives, appearances, contexts, currents, models>>
       PROVE  RowsTyped' /\ RatesStoredOnce'
  BY <1>11, RowsKept DEF RowsTyped
<1>12. ASSUME \/ ImportIdentity
              \/ ResolveAvailability
              \/ \E b \in Books : ReleaseBook(b)
              \/ ReleaseStrength
              \/ \E status \in Statuses : ReleaseEnrich(status)
              \/ Validate
              \/ Stop
       PROVE  UNCHANGED <<snapshots, lives, appearances, contexts, currents, models>>
  BY <1>12
  DEF ImportIdentity, ResolveAvailability, ReleaseBook, ReleaseStrength, RateTeams, ReleaseEnrich,
      Validate, Stop, official, evidence, projections
<1>13. ASSUME \/ RefreshAvailability
              \/ \E s \in snapshots, b \in Books : RefreshStrength(s, b)
              \/ ImportRates
              \/ Annotate
              \/ RefreshEnrichment
       PROVE  UNCHANGED <<snapshots, lives, appearances, contexts, currents, models>>
  BY <1>13
  DEF RefreshAvailability, RefreshStrength, RateTeams, ImportRates, Annotate, RefreshEnrichment,
      official, evidence, projections
<1>14. QED
  BY <1>1, <1>2, <1>3, <1>4, <1>5, <1>6, <1>7, <1>8, <1>9, <1>10, <1>11, <1>12, <1>13
  DEF Next, vars, official, evidence, projections, BaselineStep

-----------------------------------------------------------------------------
(* What others commit does not reach what a release rests on. *)

LEMMA OthersOnlyAdd ==
  ASSUME StoredByNow, [Next]_vars
  PROVE  /\ snapshots \subseteq snapshots'
         /\ bridges \subseteq bridges'
         /\ lives \subseteq lives'
         /\ \A l \in lives' \ lives : l.at = now
         /\ currents \subseteq currents'
<1>1. /\ snapshots \subseteq snapshots'
      /\ bridges \subseteq bridges'
      /\ currents \subseteq currents'
  BY DEF Next, vars, Begin, ImportIdentity, ResolveAvailability, CaptureLive, ReleaseAppearance,
     ReleaseBook, ReleaseStrength, ReleaseContext, ReleaseAnchor, ReleaseHorizon, ReleaseEnrich,
     Validate, Stop, StopInRates, RefreshSnapshot, RefreshLive, RefreshAvailability,
     RefreshAppearance, RefreshStrength, ImportRates, Annotate, RefreshContext, RefreshBaseline,
     RefreshHorizon, RefreshEnrichment, Baseline, official, projections
<1>2. lives' = lives \/ \E s, g : lives' = lives \cup {LiveOf(s, g)}
  BY DEF Next, vars, Begin, ImportIdentity, ResolveAvailability, CaptureLive, ReleaseAppearance,
     ReleaseBook, ReleaseStrength, ReleaseContext, ReleaseAnchor, ReleaseHorizon, ReleaseEnrich,
     Validate, Stop, StopInRates, RefreshSnapshot, RefreshLive, RefreshAvailability,
     RefreshAppearance, RefreshStrength, ImportRates, Annotate, RefreshContext, RefreshBaseline,
     RefreshHorizon, RefreshEnrichment, official
<1>3. \A s, g : LiveOf(s, g).at = now
  BY DEF LiveOf
<1>4. QED
  BY <1>1, <1>2, <1>3

\* The captures known at a time that has passed stay the same.
LEMMA KnownLivesStay ==
  ASSUME StoredByNow, [Next]_vars, NEW s, NEW time \in Nat, time <= clock
  PROVE  FinalLives(s, time)' = FinalLives(s, time)
<1>1. lives \subseteq lives' /\ \A l \in lives' \ lives : ~(l.at <= time)
  BY OthersOnlyAdd DEF StoredByNow, now
<1>2. QED
  BY <1>1 DEF FinalLives

LEMMA AnchorStays ==
  ASSUME IInv, RowsTyped, [Next]_vars, NEW n, Anchored(n)
  PROVE  Anchored(n)'
<1> DEFINE time == ModelTime(n.appearance, n.context)
<1>1. n.appearance \in appearances /\ n.context \in contexts /\ n.rate \in rates
  BY DEF IInv, ProjectionsCausal, CausalModel, Anchored
<1>2. time \in Nat /\ time <= clock
  BY <1>1, ModelTimeIsLatest DEF IInv, EvidenceCausal
<1>3. FinalLives(n.appearance.source, time)' = FinalLives(n.appearance.source, time)
  BY <1>2, KnownLivesStay DEF IInv
<1>4. CurrentOf(n.appearance, n.rate, n.context)' = CurrentOf(n.appearance, n.rate, n.context)
  BY <1>3 DEF CurrentOf
<1>5. QED
  BY <1>4, RowsStay, OthersOnlyAdd DEF IInv, Anchored, Seasonal, SameRates

LEMMA FollowersStay ==
  ASSUME [Next]_vars, NEW n, NEW runs, Follows(runs, n)
  PROVE  Follows(runs, n)'
<1>1. models \subseteq models'
  BY RowsStay
<1>2. runs \in Seq(models')
  BY <1>1 DEF Follows
<1>3. QED
  BY <1>2 DEF Follows, SameInputs, InTime

\* The anchor of a release.
LEMMA AnchorIsAnchored ==
  ASSUME IInv, RowsTyped, [Next]_vars, NEW a \in appearances, NEW r \in rates, r <= a.asOf,
         NEW t \in strengths, NEW c \in contexts, a.source \in bridges, Seasonal(a),
         NEW m, m = Stored(models, ModelOf(Target, a, r, t, c)), Baseline({m}),
         UNCHANGED <<lives, bridges, contexts>>
  PROVE  Anchored(m)'
<1> DEFINE row == ModelOf(Target, a, r, t, c)
           u == CurrentOf(a, r, c)
<1>1. /\ DOMAIN row = ModelFields /\ row.source = a.source /\ row.asOf = ModelTime(a, c)
      /\ row.appearance = a /\ row.rate = r /\ row.context = c /\ row.current = RatesOf(a, r, c)
  BY DEF ModelOf, ModelFields
<1> HIDE DEF row
<1>2. /\ m.source = a.source /\ m.asOf = ModelTime(a, c)
      /\ m.appearance = a /\ m.rate = r /\ m.context = c /\ m.current = RatesOf(a, r, c)
  BY <1>1, StoredAgrees DEF row, RowsTyped, ModelFields
<1>3. u \in RateRows
  BY CurrentIsRow DEF IInv
<1> HIDE DEF u
<1>4. m.current = StoredRates(u)
  BY <1>2 DEF RatesOf, u
<1>5. m.current \in RateRows /\ SameRates(u, m.current)
  BY <1>3, <1>4 DEF StoredRates, SameRates, RowsTyped
<1>6. m.current # None
  BY <1>5, PipelineAssumption
<1>7. m \in models' /\ m.current \in currents'
  BY <1>6 DEF Baseline
<1>8. CurrentOf(a, r, c)' = CurrentOf(a, r, c) /\ Seasonal(a)'
  BY DEF CurrentOf, FinalLives, Seasonal
<1>9. SameRates(CurrentOf(m.appearance, m.rate, m.context), m.current)'
  BY <1>2, <1>5, <1>8 DEF u, SameRates
<1>10. QED
  BY <1>2, <1>7, <1>8, <1>9 DEF Anchored

\* A Gameweek of its horizon.
LEMMA PinnedIsAnchor ==
  ASSUME RowsTyped, NEW n, Anchored(n), NEW in \in Pinned(n)
  PROVE  in = <<n.appearance, n.rate, n.strength, n.context>>
<1>1. n.context # None
  BY PipelineAssumption DEF Anchored, RowsTyped
<1>2. QED
  BY <1>1 DEF Pinned

LEMMA HorizonFollows ==
  ASSUME IInv, RowsTyped, RatesStoredOnce, NEW n, Anchored(n), NEW g, NEW m,
         m = Stored(models, ModelOf(g, n.appearance, n.rate, n.strength, n.context)),
         Baseline({m})
  PROVE  m.gw = g /\ SameInputs(m, n) /\ m.asOf = n.asOf /\ InTime(m)
<1> DEFINE row == ModelOf(g, n.appearance, n.rate, n.strength, n.context)
           u == CurrentOf(n.appearance, n.rate, n.context)
<1>3. m = Stored(models, row)
  OBVIOUS
<1>4. /\ DOMAIN row = ModelFields /\ row.gw = g /\ row.source = n.appearance.source
      /\ row.asOf = ModelTime(n.appearance, n.context)
      /\ row.appearance = n.appearance /\ row.rate = n.rate /\ row.strength = n.strength
      /\ row.context = n.context /\ row.current = RatesOf(n.appearance, n.rate, n.context)
  BY DEF ModelOf, ModelFields
<1> HIDE DEF row
<1>5. /\ m.gw = g /\ m.source = n.appearance.source
      /\ m.asOf = ModelTime(n.appearance, n.context)
      /\ m.appearance = n.appearance /\ m.rate = n.rate /\ m.strength = n.strength
      /\ m.context = n.context /\ m.current = RatesOf(n.appearance, n.rate, n.context)
  BY <1>3, <1>4, StoredAgrees DEF RowsTyped, ModelFields
<1>6. m.current = StoredRates(u)
  BY <1>5 DEF RatesOf, Anchored
<1>7. n.current \in currents /\ SameRates(u, n.current)
  BY DEF Anchored
<1> HIDE DEF u
<1>8. m.current \in currents /\ SameRates(u, m.current)
  BY <1>6, <1>7 DEF StoredRates
<1>9. m.current = n.current
  BY <1>7, <1>8 DEF RatesStoredOnce, SameRates
<1>10. QED
  BY <1>5, <1>9 DEF SameInputs, Anchored, Baseline

\* What ReleaseIsOneLineage says of one release.
OneLineage(runs) ==
  /\ PassesManifest(runs)
  /\ PassesFreshness(runs)
  /\ \A i, j \in DOMAIN runs : SameInputs(runs[i], runs[j])
  /\ \A i \in DOMAIN runs : runs[i].gw = Target + i - 1

LEMMA FollowersAreOneLineage ==
  ASSUME IInv, RowsTyped, NEW n, Anchored(n), NEW runs, Follows(runs, n), Len(runs) <= HorizonLength
  PROVE  OneLineage(runs)
<1>1. \A i \in DOMAIN runs : i \in 1 .. Len(runs) /\ i \in 1 .. HorizonLength
  BY PipelineAssumption DEF Follows
<1>2. \A i \in DOMAIN runs :
        /\ runs[i] \in models
        /\ runs[i].gw = Target + i - 1 /\ SameInputs(runs[i], n) /\ runs[i].asOf = n.asOf
        /\ runs[i].asOf <= Due[runs[i].gw]
  BY <1>1 DEF Follows, InTime
<1>3. /\ n.appearance \in appearances /\ n.rate \in rates /\ n.context \in contexts
      /\ n.asOf \in Nat /\ n.source.at <= n.asOf
      /\ n.source = n.appearance.source
  BY DEF IInv, ProjectionsCausal, CausalModel, Anchored
<1>4. n.source.at \in Nat
  BY <1>3 DEF RowsTyped, AppearanceRows, SnapshotRows
<1>5. /\ n.current.source = n.source /\ n.current.asOf = n.asOf /\ n.current.rate = n.rate
  <2> DEFINE u == CurrentOf(n.appearance, n.rate, n.context)
  <2>1. /\ u \in RateRows /\ u.source = n.appearance.source
        /\ u.asOf = ModelTime(n.appearance, n.context) /\ u.rate = n.rate
    BY <1>3, CurrentIsRow DEF IInv
  <2>2. n.current \in RateRows /\ SameRates(u, n.current)
    BY DEF Anchored, RowsTyped
  <2> HIDE DEF u
  <2>3. u.source = n.current.source /\ u.asOf = n.current.asOf /\ u.rate = n.current.rate
    BY <2>1, <2>2, SameRatesSameInputs
  <2>4. QED
    BY <2>1, <2>3 DEF Anchored
<1>6. \A i, j \in DOMAIN runs : SameInputs(runs[i], runs[j])
  BY <1>2 DEF SameInputs
<1>7. PassesManifest(runs)
  <2>1. ASSUME NEW i \in DOMAIN runs, NEW j \in DOMAIN runs
        PROVE  /\ i < j => runs[i].gw < runs[j].gw
               /\ runs[i].source = runs[j].source
               /\ runs[i].asOf = runs[j].asOf
               /\ runs[i].current = runs[j].current
    <3>1. i < j => Target + i - 1 < Target + j - 1
      BY <1>1, PipelineAssumption
    <3>2. QED
      BY <1>2, <3>1 DEF SameInputs
  <2>2. ASSUME NEW i \in DOMAIN runs
        PROVE  /\ runs[i].source \in bridges
               /\ runs[i].current.asOf = runs[i].asOf
               /\ runs[i].current.source = runs[i].source
               /\ runs[i].current.rate = runs[i].rate
    BY <1>2, <1>5 DEF SameInputs, Anchored
  <2>3. QED
    BY <2>1, <2>2 DEF PassesManifest
<1>8. PassesFreshness(runs)
  <2>1. ASSUME NEW i \in DOMAIN runs
        PROVE  runs[i].source.at <= Due[runs[i].gw]
    <3>1. runs[i].gw \in GWs
      <4>1. Target \in Nat /\ Target >= 2 /\ HorizonLength \in Nat
        BY PipelineAssumption
      <4>2. i \in 1 .. HorizonLength /\ runs[i].gw = Target + i - 1
        BY <1>1, <1>2
      <4>3. Target + i - 1 \in 1 .. Target + HorizonLength - 1
        BY <4>1, <4>2
      <4>4. QED
        BY <4>2, <4>3 DEF GWs, LastGW
    <3>2. Due[runs[i].gw] \in Nat
      BY <3>1, PipelineAssumption
    <3>3. runs[i].source = n.source
      BY <1>2 DEF SameInputs
    <3>4. n.source.at <= n.asOf /\ n.asOf <= Due[runs[i].gw]
      BY <1>2, <1>3
    <3>5. QED
      BY <1>3, <1>4, <3>2, <3>3, <3>4
  <2>2. QED
    BY <2>1 DEF PassesFreshness
<1>9. QED
  BY <1>2, <1>6, <1>7, <1>8 DEF OneLineage

LEMMA LineageStays ==
  ASSUME IInv, RowsTyped, ScriptFollows, ReleaseIsOneLineage, [Next]_vars
  PROVE  ReleaseIsOneLineage'
<1>0. bridges \subseteq bridges'
  BY OthersOnlyAdd DEF IInv
<1>1. \A runs \in released : OneLineage(runs)
  BY DEF ReleaseIsOneLineage, OneLineage
<1>2. \A runs \in released' : runs \in released \/ OneLineage(runs)
  <2>1. CASE Validate
    <3>1. OneLineage(release.runs)
      BY <2>1, FollowersAreOneLineage DEF Validate, ScriptFollows, Projecting
    <3>2. QED
      BY <2>1, <3>1 DEF Validate
  <2>2. ASSUME ~Validate PROVE released' = released
    BY <2>2 DEF Next, vars, Begin, ImportIdentity, ResolveAvailability, CaptureLive,
       ReleaseAppearance, ReleaseBook, ReleaseStrength, ReleaseContext, ReleaseAnchor,
       ReleaseHorizon, ReleaseEnrich, Stop, StopInRates, RefreshSnapshot, RefreshLive,
       RefreshAvailability, RefreshAppearance, RefreshStrength, ImportRates, Annotate,
       RefreshContext, RefreshBaseline, RefreshHorizon, RefreshEnrichment, Script, script
  <2>3. QED
    BY <2>1, <2>2
<1>3. ASSUME NEW runs, OneLineage(runs) PROVE OneLineage(runs)'
  BY <1>0, <1>3 DEF OneLineage, PassesManifest, PassesFreshness, SameInputs
<1>4. QED
  BY <1>1, <1>2, <1>3 DEF ReleaseIsOneLineage, OneLineage

-----------------------------------------------------------------------------
(* What the script has done at each stage. *)

LEMMA FollowsElsewhere ==
  ASSUME DOMAIN release' = DOMAIN Idle, release'.stage = "idle"
  PROVE  ScriptFollows'
  BY DEF ScriptFollows, Preparing, Projecting, Stages

LEMMA FollowsKept ==
  ASSUME IInv, RowsTyped, ScriptFollows, [Next]_vars, UNCHANGED release
  PROVE  ScriptFollows'
<1>1. /\ snapshots \subseteq snapshots' /\ bridges \subseteq bridges' /\ lives \subseteq lives'
  BY OthersOnlyAdd DEF IInv
<1>2. ASSUME release.stage \in Projecting
      PROVE  Anchored(release.anchor)' /\ Follows(release.runs, release.anchor)'
  <2>1. PICK n, runs : n = release.anchor /\ runs = release.runs
    OBVIOUS
  <2>2. Anchored(n)' /\ Follows(runs, n)'
    BY <1>2, <2>1, AnchorStays, FollowersStay DEF ScriptFollows
  <2>3. QED
    BY <2>1, <2>2
<1>3. QED
  BY <1>1, <1>2 DEF ScriptFollows

\* From one stage of the preparation to the next.
LEMMA FollowsPrepared ==
  ASSUME DOMAIN release' = DOMAIN Idle, release'.stage \in Preparing,
         release'.source \in snapshots', release'.runs = <<>>,
         release'.stage # "identity" => release'.source \in bridges',
         release'.stage \in {"appearance", "book", "strength", "context", "anchor"} =>
           \E l \in lives' : l.source = release'.source,
         release'.stage \in {"book", "strength", "context", "anchor"} =>
           release'.appearance.source = release'.source
  PROVE  ScriptFollows'
  BY DEF ScriptFollows, Preparing, Projecting, Stages

LEMMA ScriptStaysFollowed ==
  ASSUME IInv, RowsTyped, RatesStoredOnce, ScriptFollows, [Next]_vars
  PROVE  ScriptFollows'
<1>0. /\ snapshots \subseteq snapshots' /\ bridges \subseteq bridges' /\ lives \subseteq lives'
  BY OthersOnlyAdd DEF IInv
<1> DEFINE Fields == {"stage", "source", "provisional", "appearance", "book", "strength",
                      "context", "anchor", "runs", "bands", "enriched"}
<1>d. DOMAIN Idle = Fields /\ DOMAIN release = Fields
  BY DEF Idle, ScriptFollows
<1> HIDE DEF Fields
<1>1. ASSUME NEW final, NEW provisional, Begin(final, provisional)
      PROVE  ScriptFollows'
  <2>1. DOMAIN release' = DOMAIN Idle /\ release'.stage = "identity" /\ release'.runs = <<>>
        /\ release'.source = SnapshotOf(final)
    BY <1>1 DEF Begin, Idle
  <2>2. SnapshotOf(final) \in snapshots'
    BY <1>1 DEF Begin
  <2>3. QED
    BY <2>1, <2>2, FollowsPrepared DEF Preparing
<1>2. CASE ImportIdentity
  <2>1. DOMAIN release' = DOMAIN Idle /\ release'.stage = "availability"
        /\ release'.source = release.source /\ release'.runs = release.runs
    BY <1>2, <1>d DEF ImportIdentity, Goto, Fields
  <2>2. release.source \in bridges' /\ release.source \in snapshots /\ release.runs = <<>>
    BY <1>2 DEF ImportIdentity, ScriptFollows, Preparing
  <2>3. QED
    BY <1>0, <2>1, <2>2, FollowsPrepared DEF Preparing
<1>3. CASE ResolveAvailability
  <2>1. CASE release' = Idle
    BY <2>1, FollowsElsewhere DEF Idle
  <2>2. CASE release' = [release EXCEPT !.stage = "live"]
    <3>1. DOMAIN release' = DOMAIN Idle /\ release'.stage = "live"
          /\ release'.source = release.source /\ release'.runs = release.runs
      BY <2>2, <1>d DEF Fields
    <3>2. release.source \in bridges /\ release.source \in snapshots /\ release.runs = <<>>
      BY <1>3 DEF ResolveAvailability, ScriptFollows, Preparing
    <3>3. QED
      BY <1>0, <3>1, <3>2, FollowsPrepared DEF Preparing
  <2>3. QED
    BY <1>3, <2>1, <2>2 DEF ResolveAvailability
<1>4. ASSUME NEW g, CaptureLive(g)
      PROVE  ScriptFollows'
  <2>1. DOMAIN release' = DOMAIN Idle /\ release'.stage \in {"appearance", "live"}
        /\ release'.source = release.source /\ release'.runs = release.runs
    BY <1>4, <1>d DEF CaptureLive, Goto, Fields
  <2>2. release.source \in bridges /\ release.source \in snapshots /\ release.runs = <<>>
    BY <1>4 DEF CaptureLive, ScriptFollows, Preparing
  <2>3. LiveOf(release.source, g) \in lives' /\ LiveOf(release.source, g).source = release.source
    BY <1>4 DEF CaptureLive, LiveOf
  <2>4. QED
    BY <1>0, <2>1, <2>2, <2>3, FollowsPrepared DEF Preparing
<1>5. CASE ReleaseAppearance
  <2>1. PICK h \in Histories :
          release' = [release EXCEPT !.stage = "book", !.appearance =
                       Stored(appearances, AppearanceOf(release.source, h))]
    BY <1>5 DEF ReleaseAppearance
  <2> DEFINE row == AppearanceOf(release.source, h)
             a == Stored(appearances, row)
  <2>2. "source" \in DOMAIN row /\ row.source = release.source
    BY DEF AppearanceOf
  <2> HIDE DEF row
  <2>3. a.source = release.source
    BY <2>2, StoredAgrees DEF RowsTyped, AppearanceRows
  <2>4. release' = [release EXCEPT !.stage = "book", !.appearance = a]
    BY <2>1 DEF row
  <2> HIDE DEF a
  <2>5. DOMAIN release' = DOMAIN Idle /\ release'.stage = "book" /\ release'.appearance = a
        /\ release'.source = release.source /\ release'.runs = release.runs
    BY <2>4, <1>d DEF Fields
  <2>6. release.source \in bridges /\ release.source \in snapshots /\ release.runs = <<>>
        /\ \E l \in lives : l.source = release.source
    BY <1>5 DEF ReleaseAppearance, ScriptFollows, Preparing
  <2>7. QED
    BY <1>0, <2>3, <2>5, <2>6, FollowsPrepared DEF Preparing
<1>6. ASSUME \/ release.stage = "book" /\ \E b : release' = [release EXCEPT !.stage = "strength", !.book = b]
             \/ release.stage = "strength" /\ \E t : release' = [release EXCEPT !.stage = "context", !.strength = t]
             \/ release.stage = "context" /\ \E c : release' = [release EXCEPT !.stage = "anchor", !.context = c]
      PROVE  ScriptFollows'
  <2>1. /\ DOMAIN release' = DOMAIN Idle /\ release'.stage \in {"strength", "context", "anchor"}
        /\ release'.source = release.source /\ release'.runs = release.runs
        /\ release'.appearance = release.appearance
    BY <1>6, <1>d DEF Fields
  <2>2. release.source \in bridges /\ release.source \in snapshots /\ release.runs = <<>>
        /\ (\E l \in lives : l.source = release.source)
        /\ release.appearance.source = release.source
    BY <1>6 DEF ScriptFollows, Preparing
  <2>3. QED
    BY <1>0, <2>1, <2>2, FollowsPrepared DEF Preparing
<1>7. CASE (\E b \in Books : ReleaseBook(b)) \/ ReleaseStrength \/ ReleaseContext
  BY <1>6, <1>7 DEF ReleaseBook, ReleaseStrength, ReleaseContext
<1>8. CASE ReleaseAnchor
  <2>1. PICK r, m :
          /\ r \in RateChoices(release.appearance.asOf)
          /\ m = Stored(models, ModelOf(Target, release.appearance, r, release.strength,
                                        release.context))
          /\ Baseline({m})
          /\ release' = [release EXCEPT !.stage = "horizon", !.anchor = m]
    BY <1>8 DEF ReleaseAnchor
  <2>2. PICK a, t, c : a = release.appearance /\ t = release.strength /\ c = release.context
    OBVIOUS
  <2>3. /\ a \in appearances /\ t \in strengths /\ c \in contexts
        /\ r \in rates /\ r <= a.asOf
    BY <1>8, <2>1, <2>2, ChosenRatesAreKnown DEF ReleaseAnchor, IInv, ScriptHolds
  <2>4. a.source \in bridges /\ Seasonal(a) /\ release.runs = <<>>
    BY <1>8, <2>2 DEF ReleaseAnchor, ScriptFollows, Preparing, Seasonal
  <2>5. UNCHANGED <<lives, bridges, contexts>>
    BY <1>8 DEF ReleaseAnchor, official, evidence
  <2>6. Anchored(m)'
    BY <2>1, <2>2, <2>3, <2>4, <2>5, AnchorIsAnchored
  <2>7. /\ DOMAIN release' = DOMAIN Idle /\ release'.stage = "horizon" /\ release'.anchor = m
        /\ release'.runs = <<>>
    BY <2>1, <2>4, <1>d DEF Fields
  <2>8. Follows(<<>>, m)' /\ Len(<<>>) < HorizonLength
    BY PipelineAssumption DEF Follows
  <2>9. QED
    BY <2>6, <2>7, <2>8, PipelineAssumption DEF ScriptFollows, Preparing, Projecting, Stages
<1>9. CASE ReleaseHorizon
  <2>1. PICK n, old : n = release.anchor /\ old = release.runs
    OBVIOUS
  <2>2. Anchored(n) /\ Follows(old, n) /\ Len(old) < HorizonLength
    BY <1>9, <2>1 DEF ReleaseHorizon, ScriptFollows, Projecting
  <2>3. PICK in, m :
          /\ in \in Pinned(n)
          /\ m = Stored(models, ModelOf(Target + Len(old), in[1], in[2], in[3], in[4]))
          /\ Baseline({m})
          /\ \/ /\ Len(Append(old, m)) < HorizonLength
                /\ release' = [release EXCEPT !.runs = Append(old, m)]
             \/ release' = [release EXCEPT !.runs = Append(old, m), !.stage = "enrich"]
             \/ release' = Idle
    BY <1>9, <2>1 DEF ReleaseHorizon
  <2>4. m.gw = Target + Len(old) /\ SameInputs(m, n) /\ m.asOf = n.asOf /\ InTime(m)
    <3>1. in = <<n.appearance, n.rate, n.strength, n.context>>
      BY <2>2, <2>3, PinnedIsAnchor
    <3>2. m = Stored(models, ModelOf(Target + Len(old), n.appearance, n.rate, n.strength,
                                     n.context))
      BY <2>3, <3>1
    <3>3. QED
      BY <2>2, <2>3, <3>2, HorizonFollows, ZenonT(30)
  <2>5. m \in models' /\ old \in Seq(models') /\ Anchored(n)'
    BY <2>2, <2>3, FollowersStay, AnchorStays DEF Baseline, Follows
  <2> DEFINE runs == Append(old, m)
  <2>6. runs \in Seq(models') /\ Len(runs) = Len(old) + 1 /\ Len(runs) <= HorizonLength
    BY <2>2, <2>5, PipelineAssumption
  <2>7. ASSUME NEW i \in DOMAIN runs
        PROVE  /\ runs[i].gw = Target + i - 1
               /\ SameInputs(runs[i], n)
               /\ runs[i].asOf = n.asOf
               /\ InTime(runs[i])
    <3>1. CASE i \in DOMAIN old
      <4>1. runs[i] = old[i]
        BY <2>5, <3>1
      <4>2. QED
        BY <2>2, <3>1, <4>1 DEF Follows
    <3>2. CASE i \notin DOMAIN old
      <4>1. i = Len(old) + 1 /\ runs[i] = m
        BY <2>5, <2>6, <3>2
      <4>2. Target + Len(old) = Target + i - 1
        BY <2>5, <4>1, PipelineAssumption
      <4>3. QED
        BY <2>4, <4>1, <4>2
    <3>3. QED
      BY <3>1, <3>2
  <2> HIDE DEF runs
  <2>8. Follows(runs, n)'
    BY <2>6, <2>7 DEF Follows, SameInputs, InTime
  <2>9. CASE Len(runs) < HorizonLength /\ release' = [release EXCEPT !.runs = runs]
    <3>1. /\ DOMAIN release' = DOMAIN Idle /\ release'.stage = "horizon"
          /\ release'.anchor = n /\ release'.runs = runs
      BY <1>9, <2>1, <2>9, <1>d DEF ReleaseHorizon, Fields
    <3>2. QED
      BY <2>5, <2>6, <2>8, <2>9, <3>1 DEF ScriptFollows, Preparing, Projecting, Stages
  <2>10. CASE release' = [release EXCEPT !.runs = runs, !.stage = "enrich"]
    <3>1. /\ DOMAIN release' = DOMAIN Idle /\ release'.stage = "enrich"
          /\ release'.anchor = n /\ release'.runs = runs
      BY <2>1, <2>10, <1>d DEF Fields
    <3>2. QED
      BY <2>5, <2>6, <2>8, <3>1 DEF ScriptFollows, Preparing, Projecting, Stages
  <2>11. CASE release' = Idle
    BY <2>11, FollowsElsewhere DEF Idle
  <2>12. QED
    BY <2>3, <2>9, <2>10, <2>11 DEF runs
<1>10. ASSUME NEW status, ReleaseEnrich(status)
       PROVE  ScriptFollows'
  <2>1. PICK n, runs : n = release.anchor /\ runs = release.runs
    OBVIOUS
  <2>2. Anchored(n)' /\ Follows(runs, n)' /\ Len(runs) <= HorizonLength
    BY <1>10, <2>1, AnchorStays, FollowersStay DEF ReleaseEnrich, ScriptFollows, Projecting
  <2>3. /\ DOMAIN release' = DOMAIN Idle /\ release'.stage \in {"validate", "enrich"}
        /\ release'.anchor = n /\ release'.runs = runs
    BY <1>10, <2>1, <1>d DEF ReleaseEnrich, Fields
  <2>4. QED
    BY <2>2, <2>3 DEF ScriptFollows, Preparing, Projecting, Stages
<1>11. CASE Validate \/ Stop \/ StopInRates
  BY <1>11, FollowsElsewhere DEF Validate, Stop, StopInRates, Idle
<1>12. ASSUME UNCHANGED release
       PROVE  ScriptFollows'
  BY <1>12, FollowsKept
<1>13. ASSUME \/ \E final \in BOOLEAN : RefreshSnapshot(final)
              \/ \E s \in snapshots, g \in 1 .. Target - 1 : RefreshLive(s, g)
              \/ RefreshAvailability
              \/ RefreshAppearance
              \/ \E s \in snapshots, b \in Books : RefreshStrength(s, b)
              \/ ImportRates
              \/ Annotate
              \/ \E a \in appearances : RefreshContext(a)
              \/ RefreshBaseline
              \/ \E m \in models, g \in Target .. LastGW : RefreshHorizon(m, g)
              \/ RefreshEnrichment
       PROVE  UNCHANGED release
  BY <1>13
  DEF RefreshSnapshot, RefreshLive, RefreshAvailability, RefreshAppearance, RefreshStrength,
      ImportRates, Annotate, RefreshContext, RefreshBaseline, RefreshHorizon, RefreshEnrichment,
      Script, script
<1>14. QED
  BY <1>1, <1>2, <1>3, <1>4, <1>5, <1>7, <1>8, <1>9, <1>10, <1>11, <1>12, <1>13
  DEF Next, vars, script

-----------------------------------------------------------------------------

LEMMA LineageStarts == Init => LineageInv
<1> SUFFICES ASSUME Init PROVE LineageInv
  OBVIOUS
<1>1. ScriptFollows
  BY DEF Init, ScriptFollows, Idle, Preparing, Projecting, Stages
<1>2. QED
  BY <1>1, InvariantStarts DEF Init, LineageInv, RowsTyped, RatesStoredOnce, ReleaseIsOneLineage

LEMMA LineageInvStays == LineageInv /\ [Next]_vars => LineageInv'
  BY InvariantStays, RowsStayTyped, ScriptStaysFollowed, LineageStays DEF LineageInv

\* A release that gets to its validation passes the manifest and the freshness gate
\* (build_release_manifest, check_release_freshness), and every Gameweek of it is projected from
\* the same snapshot, appearance, rates, strength, context and current rates: the inputs that
\* materialize_frozen_projection_horizon pins are beyond the reach of any other script.
THEOREM ReleasesAreOneLineage == Spec => []ReleaseIsOneLineage
<1>1. LineageInv => ReleaseIsOneLineage
  BY DEF LineageInv
<1>2. QED
  BY <1>1, LineageStarts, LineageInvStays, PTL DEF Spec

-----------------------------------------------------------------------------
(* Health. *)

\* After k steps of the enrichment: of every run first the calibration, then the bands.
EnrichedUpTo(runs, k) ==
  \A i \in DOMAIN runs :
    /\ 2 * i - 2 < k => runs[i] \in calibrated
    /\ 2 * i - 1 < k => \E u \in uncertain : u.run = runs[i]

\* Nothing that Approved reads of a validated release can change any more: its runs have
\* their calibration and their one artifact, and the calibration in use is settled.
EnrichedInOrder ==
  /\ calibrated # {} => calibration # None
  /\ \A u, v \in uncertain : u.run = v.run => u = v
  /\ release.enriched \in Nat
  /\ release.stage \notin {"enrich", "validate"} => release.enriched = 0
  /\ release.stage = "validate" => release.enriched = 2 * HorizonLength
  /\ release.stage \in {"enrich", "validate"} => EnrichedUpTo(release.runs, release.enriched)
  /\ \A runs \in released : /\ EnrichedUpTo(runs, 2 * HorizonLength)
                             /\ DOMAIN runs \subseteq 1 .. HorizonLength

\* What enriching may do to the rows.
RowsEnriched ==
  /\ calibrated \subseteq calibrated' /\ uncertain \subseteq uncertain'
  /\ calibration # None => calibration' = calibration

LEMMA StoreKeeps ==
  ASSUME NEW status, StoreCalibration(status) \/ StoreUncertainty(status), EnrichedInOrder
  PROVE  RowsEnriched /\ calibrated' = calibrated /\ uncertain' = uncertain
  BY DEF StoreCalibration, StoreUncertainty, RowsEnriched

LEMMA CalibrateKeeps ==
  ASSUME NEW m, Calibrate(m)
  PROVE  RowsEnriched /\ m \in calibrated' /\ calibration' # None /\ uncertain' = uncertain
  BY DEF Calibrate, RowsEnriched

LEMMA ApplyKeeps ==
  ASSUME NEW m, NEW status, ApplyUncertainty(m, status), EnrichedInOrder
  PROVE  /\ RowsEnriched
         /\ \E u \in uncertain' : u.run = m
         /\ \A u, v \in uncertain' : u.run = v.run => u = v
         /\ calibrated' = calibrated /\ calibration' = calibration
<1> DEFINE u == [run |-> m, artifact |-> status, mode |-> Mode(status)]
<1>1. /\ \A v \in uncertain : v.run = m => v = u
      /\ uncertain' = uncertain \cup {u}
      /\ UNCHANGED <<calibration, bands, calibrated>>
  BY DEF ApplyUncertainty
<1>2. u.run = m
  OBVIOUS
<1> HIDE DEF u
<1>3. QED
  BY <1>1, <1>2 DEF RowsEnriched, EnrichedInOrder

\* The rows of the enrichment in a step.
LEMMA RowsStayEnriched ==
  ASSUME EnrichedInOrder, [Next]_vars
  PROVE  /\ RowsEnriched
         /\ calibrated' # {} => calibration' # None
         /\ \A u, v \in uncertain' : u.run = v.run => u = v
<1>1. ASSUME UNCHANGED enrichment
      PROVE  /\ RowsEnriched /\ calibrated' = calibrated
             /\ calibration' = calibration /\ uncertain' = uncertain
  BY <1>1 DEF RowsEnriched, enrichment
<1>2. ASSUME NEW status, StoreCalibration(status) \/ StoreUncertainty(status)
      PROVE  RowsEnriched /\ calibrated' = calibrated /\ uncertain' = uncertain
  BY <1>2, StoreKeeps
<1>3. \/ UNCHANGED enrichment
      \/ \E status : StoreCalibration(status) \/ StoreUncertainty(status)
      \/ \E m : Calibrate(m)
      \/ \E m, status : ApplyUncertainty(m, status)
  <2>1. ASSUME NEW status, ReleaseEnrich(status)
        PROVE  \/ \E m : Calibrate(m)
               \/ \E m, s : ApplyUncertainty(m, s)
    BY <2>1 DEF ReleaseEnrich
  <2>2. ASSUME ~\E status \in Statuses : ReleaseEnrich(status), ~RefreshEnrichment
        PROVE  UNCHANGED enrichment
    BY <2>2 DEF Next, vars, Begin, ImportIdentity, ResolveAvailability, CaptureLive,
       ReleaseAppearance, ReleaseBook, ReleaseStrength, ReleaseContext, ReleaseAnchor,
       ReleaseHorizon, Validate, Stop, StopInRates, RefreshSnapshot, RefreshLive,
       RefreshAvailability, RefreshAppearance, RefreshStrength, ImportRates, Annotate,
       RefreshContext, RefreshBaseline, RefreshHorizon
  <2>3. QED
    BY <2>1, <2>2 DEF RefreshEnrichment
<1>4. QED
  BY <1>1, <1>2, <1>3, CalibrateKeeps, ApplyKeeps DEF EnrichedInOrder, RowsEnriched

LEMMA EnrichedStays ==
  ASSUME RowsEnriched, NEW runs, NEW k, EnrichedUpTo(runs, k)
  PROVE  EnrichedUpTo(runs, k)'
  BY DEF RowsEnriched, EnrichedUpTo

\* One step of the enrichment is about the run whose turn it is.
LEMMA EnrichedOneMore ==
  ASSUME RowsEnriched, NEW runs, NEW k \in Nat, EnrichedUpTo(runs, k), DOMAIN runs \subseteq Nat,
         k % 2 = 0 => runs[(k \div 2) + 1] \in calibrated',
         k % 2 # 0 => \E u \in uncertain' : u.run = runs[(k \div 2) + 1]
  PROVE  EnrichedUpTo(runs, k + 1)'
<1> SUFFICES ASSUME NEW i \in DOMAIN runs
             PROVE  /\ 2 * i - 2 < k + 1 => runs[i] \in calibrated'
                    /\ 2 * i - 1 < k + 1 => \E u \in uncertain' : u.run = runs[i]
  BY DEF EnrichedUpTo
<1>1. /\ 2 * i - 2 < k => runs[i] \in calibrated'
      /\ 2 * i - 1 < k => \E u \in uncertain' : u.run = runs[i]
  BY DEF EnrichedUpTo, RowsEnriched
<1>2. i \in Nat
  OBVIOUS
<1>3. CASE 2 * i - 2 = k
  <2>1. k % 2 = 0 /\ (k \div 2) + 1 = i
    BY <1>2, <1>3
  <2>2. ~(2 * i - 1 < k + 1)
    BY <1>2, <1>3
  <2>3. QED
    BY <2>1, <2>2
<1>4. CASE 2 * i - 1 = k
  <2>1. k % 2 # 0 /\ (k \div 2) + 1 = i
    BY <1>2, <1>4
  <2>2. 2 * i - 2 < k
    BY <1>2, <1>4
  <2>3. QED
    BY <1>1, <2>1, <2>2
<1>5. CASE 2 * i - 2 # k /\ 2 * i - 1 # k
  <2>1. (2 * i - 2 < k + 1 => 2 * i - 2 < k) /\ (2 * i - 1 < k + 1 => 2 * i - 1 < k)
    BY <1>2, <1>5
  <2>2. QED
    BY <1>1, <2>1
<1>6. QED
  BY <1>3, <1>4, <1>5

\* The script counts its steps of enrichment, and only those.
LEMMA ScriptCounts ==
  ASSUME ScriptFollows, EnrichedInOrder, [Next]_vars,
         ~\E status \in Statuses : ReleaseEnrich(status)
  PROVE  \/ UNCHANGED release
         \/ /\ release'.enriched = 0
            /\ release'.stage # "validate"
            /\ release'.stage = "enrich" => release.stage = "horizon"
<1> DEFINE Fields == {"stage", "source", "provisional", "appearance", "book", "strength",
                      "context", "anchor", "runs", "bands", "enriched"}
<1>d. DOMAIN Idle = Fields /\ DOMAIN release = Fields
  BY DEF Idle, ScriptFollows
<1>i. Idle.enriched = 0 /\ Idle.stage = "idle"
  BY DEF Idle
<1>k. release.stage \notin {"enrich", "validate"} => release.enriched = 0
  BY DEF EnrichedInOrder
<1> HIDE DEF Fields
<1>1. ASSUME NEW final, NEW provisional, Begin(final, provisional)
      PROVE  release'.enriched = 0 /\ release'.stage = "identity"
  BY <1>1 DEF Begin, Idle
<1>2. CASE ImportIdentity
  BY <1>2, <1>d, <1>k DEF ImportIdentity, Goto, Fields
<1>3. CASE ResolveAvailability
  BY <1>3, <1>d, <1>i, <1>k DEF ResolveAvailability, Goto, Fields
<1>4. ASSUME NEW g, CaptureLive(g)
      PROVE  release'.enriched = 0 /\ release'.stage \notin {"enrich", "validate"}
  BY <1>4, <1>d, <1>k DEF CaptureLive, Goto, Fields
<1>5. CASE ReleaseAppearance
  BY <1>5, <1>d, <1>k DEF ReleaseAppearance, Fields
<1>6. CASE \E b \in Books : ReleaseBook(b)
  BY <1>6, <1>d, <1>k DEF ReleaseBook, Fields
<1>7. CASE ReleaseStrength
  <2>1. PICK x : release' = [release EXCEPT !.stage = "context", !.strength = x]
    BY <1>7 DEF ReleaseStrength
  <2>2. release'.stage = "context" /\ release'.enriched = release.enriched
    BY <2>1, <1>d DEF Fields
  <2>3. QED
    BY <1>7, <2>2, <1>k DEF ReleaseStrength
<1>8. CASE ReleaseContext
  <2>1. PICK x : release' = [release EXCEPT !.stage = "anchor", !.context = x]
    BY <1>8 DEF ReleaseContext
  <2>2. release'.stage = "anchor" /\ release'.enriched = release.enriched
    BY <2>1, <1>d DEF Fields
  <2>3. QED
    BY <1>8, <2>2, <1>k DEF ReleaseContext
<1>9. CASE ReleaseAnchor
  BY <1>9, <1>d, <1>k DEF ReleaseAnchor, Fields
<1>10. CASE ReleaseHorizon
  <2>1. release.stage = "horizon" /\
        \/ \E x : release' = [release EXCEPT !.runs = x]
        \/ \E x : release' = [release EXCEPT !.runs = x, !.stage = "enrich"]
        \/ release' = Idle
    BY <1>10 DEF ReleaseHorizon
  <2>2. QED
    BY <2>1, <1>d, <1>i, <1>k DEF Fields
<1>11. CASE Validate \/ Stop \/ StopInRates
  BY <1>11, <1>i DEF Validate, Stop, StopInRates
<1>12. ASSUME \/ \E final \in BOOLEAN : RefreshSnapshot(final)
              \/ \E s \in snapshots, g \in 1 .. Target - 1 : RefreshLive(s, g)
              \/ RefreshAvailability
              \/ RefreshAppearance
              \/ \E s \in snapshots, b \in Books : RefreshStrength(s, b)
              \/ ImportRates
              \/ Annotate
              \/ \E a \in appearances : RefreshContext(a)
              \/ RefreshBaseline
              \/ \E m \in models, g \in Target .. LastGW : RefreshHorizon(m, g)
              \/ RefreshEnrichment
       PROVE  UNCHANGED release
  BY <1>12
  DEF RefreshSnapshot, RefreshLive, RefreshAvailability, RefreshAppearance, RefreshStrength,
      ImportRates, Annotate, RefreshContext, RefreshBaseline, RefreshHorizon, RefreshEnrichment,
      Script, script
<1>13. QED
  BY <1>1, <1>2, <1>3, <1>4, <1>5, <1>6, <1>7, <1>8, <1>9, <1>10, <1>11, <1>12
  DEF Next, vars, script

LEMMA EnrichmentStaysInOrder ==
  ASSUME ScriptFollows, ScriptFollows', EnrichedInOrder, [Next]_vars
  PROVE  EnrichedInOrder'
<1>1. /\ RowsEnriched
      /\ calibrated' # {} => calibration' # None
      /\ \A u, v \in uncertain' : u.run = v.run => u = v
  BY RowsStayEnriched
<1>2. \A runs \in released : /\ EnrichedUpTo(runs, 2 * HorizonLength)'
                             /\ DOMAIN runs \subseteq 1 .. HorizonLength
  BY <1>1, EnrichedStays DEF EnrichedInOrder
<1>3. release.stage \in {"enrich", "validate"} =>
        DOMAIN release.runs \subseteq 1 .. HorizonLength /\ DOMAIN release.runs \subseteq Nat
  BY PipelineAssumption DEF ScriptFollows, Projecting, Follows
<1>4. \A runs \in released' : /\ EnrichedUpTo(runs, 2 * HorizonLength)'
                              /\ DOMAIN runs \subseteq 1 .. HorizonLength
  <2>1. CASE Validate
    <3>1. PICK runs : runs = release.runs
      OBVIOUS
    <3>2. EnrichedUpTo(runs, 2 * HorizonLength) /\ DOMAIN runs \subseteq 1 .. HorizonLength
      BY <2>1, <1>3, <3>1 DEF Validate, EnrichedInOrder
    <3>3. EnrichedUpTo(runs, 2 * HorizonLength)'
      BY <1>1, <3>2, EnrichedStays
    <3>4. QED
      BY <2>1, <1>2, <3>1, <3>2, <3>3 DEF Validate
  <2>2. ASSUME ~Validate PROVE released' = released
    BY <2>2 DEF Next, vars, Begin, ImportIdentity, ResolveAvailability, CaptureLive,
       ReleaseAppearance, ReleaseBook, ReleaseStrength, ReleaseContext, ReleaseAnchor,
       ReleaseHorizon, ReleaseEnrich, Stop, StopInRates, RefreshSnapshot, RefreshLive,
       RefreshAvailability, RefreshAppearance, RefreshStrength, ImportRates, Annotate,
       RefreshContext, RefreshBaseline, RefreshHorizon, RefreshEnrichment, Script, script
  <2>3. QED
    BY <1>2, <2>1, <2>2
<1>5. PICK old, k : old = release.runs /\ k = release.enriched
  OBVIOUS
<1>6. k \in Nat /\ (release.stage \in {"enrich", "validate"} => EnrichedUpTo(old, k)')
  BY <1>1, <1>5, EnrichedStays DEF EnrichedInOrder
<1>7. ASSUME NEW status \in Statuses, ReleaseEnrich(status)
      PROVE  EnrichedInOrder'
  <2> DEFINE m == old[(k \div 2) + 1]
  <2>1. EnrichedUpTo(old, k) /\ DOMAIN old \subseteq Nat
    BY <1>3, <1>5, <1>7 DEF ReleaseEnrich, EnrichedInOrder
  <2>2. k % 2 = 0 => m \in calibrated'
    BY <1>5, <1>7, CalibrateKeeps DEF ReleaseEnrich
  <2>3. k % 2 # 0 => \E u \in uncertain' : u.run = m
    BY <1>5, <1>7, ApplyKeeps DEF ReleaseEnrich
  <2>4. EnrichedUpTo(old, k + 1)'
    BY <1>1, <1>6, <2>1, <2>2, <2>3, EnrichedOneMore
  <2>5. /\ release'.runs = old /\ release'.enriched = k + 1
        /\ release'.stage = IF k + 1 = 2 * HorizonLength THEN "validate" ELSE "enrich"
    <3>1. {"runs", "enriched", "stage"} \subseteq DOMAIN release
      BY DEF ScriptFollows, Idle
    <3>2. QED
      BY <1>5, <1>7, <3>1 DEF ReleaseEnrich
  <2>6. EnrichedUpTo(release.runs, release.enriched)'
    BY <2>4, <2>5 DEF EnrichedUpTo
  <2>7. k + 1 \in Nat /\ release'.stage \in {"enrich", "validate"}
        /\ (release'.stage = "validate" => k + 1 = 2 * HorizonLength)
    BY <1>6, <2>5
  <2>8. QED
    BY <1>1, <1>4, <2>5, <2>6, <2>7 DEF EnrichedInOrder
<1>8. CASE UNCHANGED release
  <2>1. release.stage \in {"enrich", "validate"} => EnrichedUpTo(release.runs, release.enriched)'
    BY <1>5, <1>6, <1>8 DEF EnrichedUpTo
  <2>2. QED
    BY <1>1, <1>4, <1>8, <2>1 DEF EnrichedInOrder
<1>9. ASSUME release'.enriched = 0, release'.stage # "validate"
      PROVE  EnrichedInOrder'
  <2>1. release'.stage = "enrich" => DOMAIN release'.runs \subseteq Nat \ {0}
    BY DEF ScriptFollows, Projecting, Follows
  <2>2. release'.stage = "enrich" => EnrichedUpTo(release.runs, release.enriched)'
    BY <1>9, <2>1 DEF EnrichedUpTo
  <2>3. QED
    BY <1>1, <1>4, <1>9, <2>2 DEF EnrichedInOrder
<1>10. QED
  BY <1>7, <1>8, <1>9, ScriptCounts

LEMMA EnrichmentStarts == Init => EnrichedInOrder
  BY DEF Init, EnrichedInOrder, Idle

\* Whether the runs of a validated release are approved is settled.
LEMMA ApprovalIsSettled ==
  ASSUME EnrichedInOrder, EnrichedInOrder', RowsEnriched, NEW runs \in released
  PROVE  Approved(runs)' <=> Approved(runs)
<1>1. \A i \in DOMAIN runs : runs[i] \in calibrated /\ \E u \in uncertain : u.run = runs[i]
  <2>1. \A i \in DOMAIN runs : /\ i \in Nat
                               /\ 2 * i - 2 < 2 * HorizonLength
                               /\ 2 * i - 1 < 2 * HorizonLength
    BY PipelineAssumption DEF EnrichedInOrder
  <2>2. QED
    BY <2>1 DEF EnrichedInOrder, EnrichedUpTo
<1>2. DOMAIN runs # {} => calibration # None /\ calibration' = calibration
  BY <1>1 DEF EnrichedInOrder, RowsEnriched
<1>3. \A i \in DOMAIN runs : runs[i] \in calibrated'
  BY <1>1 DEF RowsEnriched
<1>4. \A i \in DOMAIN runs :
        (\E u \in uncertain : u.run = runs[i] /\ u.artifact = "approved" /\ u.mode = "active")
          <=> \E u \in uncertain' : u.run = runs[i] /\ u.artifact = "approved" /\ u.mode = "active"
  BY <1>1 DEF EnrichedInOrder, RowsEnriched
<1>5. QED
  BY <1>1, <1>2, <1>3, <1>4 DEF Approved

\* A label once given to a release stays true, whatever calibrations, artifacts and runs
\* later scripts store: determine_release_health never relabels it.
THEOREM HealthStaysStable == Spec => HealthIsStable
<1>1. Init => LineageInv /\ EnrichedInOrder
  BY LineageStarts, EnrichmentStarts
<1>2. LineageInv /\ EnrichedInOrder /\ [Next]_vars => LineageInv' /\ EnrichedInOrder'
  BY LineageInvStays, EnrichmentStaysInOrder DEF LineageInv
<1>3. LineageInv /\ EnrichedInOrder /\ [Next]_vars =>
        [\A runs \in released : Health(runs)' = Health(runs)]_vars
  <2> SUFFICES ASSUME LineageInv, EnrichedInOrder, [Next]_vars, NEW runs \in released
               PROVE  Health(runs)' = Health(runs)
    OBVIOUS
  <2>1. LineageInv' /\ EnrichedInOrder' /\ RowsEnriched
    BY <1>2, RowsStayEnriched
  <2>2. runs \in released'
    BY DEF Next, vars, Begin, ImportIdentity, ResolveAvailability, CaptureLive,
       ReleaseAppearance, ReleaseBook, ReleaseStrength, ReleaseContext, ReleaseAnchor,
       ReleaseHorizon, ReleaseEnrich, Validate, Stop, StopInRates, RefreshSnapshot, RefreshLive,
       RefreshAvailability, RefreshAppearance, RefreshStrength, ImportRates, Annotate,
       RefreshContext, RefreshBaseline, RefreshHorizon, RefreshEnrichment, Script, script
  <2>3. PassesManifest(runs) /\ PassesFreshness(runs)
    BY DEF LineageInv, ReleaseIsOneLineage
  <2>4. (PassesManifest(runs) /\ PassesFreshness(runs))'
    BY <2>1, <2>2 DEF LineageInv, ReleaseIsOneLineage
  <2>5. Approved(runs)' <=> Approved(runs)
    BY <2>1, ApprovalIsSettled
  <2>6. QED
    BY <2>3, <2>4, <2>5 DEF Health
<1>4. QED
  BY <1>1, <1>2, <1>3, PTL DEF Spec, HealthIsStable

===============================================================================
