--------------------------- MODULE PublishedRelease ---------------------------
(***************************************************************************)
(* What the deadline-refresh worker promises to everyone who reads the     *)
(* compact web release (run_deadline_refresh's docstring, "the published   *)
(* compact release changes only after every materialization and validation *)
(* gate has passed"; docs/DEADLINE_REFRESH_WORKER.md, "What the worker     *)
(* guarantees").  It says nothing of locks, files or processes:            *)
(*                                                                         *)
(*   - refresh attempts are serialised: one is open at a time;             *)
(*   - an attempt replaces the served release at most once, in one step,   *)
(*     with its own release, and only after the gates accepted it;         *)
(*   - whatever else happens to an attempt leaves the served release as it *)
(*     was.                                                                *)
(*                                                                         *)
(* DeadlineRefresh implements it (theorem ImplementsPublishedRelease).     *)
(***************************************************************************)

CONSTANTS
  Attempts,   \* identities of refresh attempts; an attempt's release has its name
  Nothing     \* no attempt, or no readable release

ASSUME NothingAssumption == Nothing \notin Attempts

VARIABLES
  served,     \* the attempt whose release readers are given
  open,       \* the attempt in progress
  accepted,   \* whether the gates accepted the open attempt's release
  spent       \* attempts whose release has been served

pVars == <<served, open, accepted, spent>>

-----------------------------------------------------------------------------

PInit ==
  /\ served = Nothing
  /\ open = Nothing
  /\ accepted = FALSE
  /\ spent = {}

Open(a) ==
  /\ open = Nothing
  /\ a \notin spent
  /\ open' = a
  /\ accepted' = FALSE
  /\ UNCHANGED <<served, spent>>

Accept ==
  /\ open \in Attempts \ spent
  /\ accepted' = TRUE
  /\ UNCHANGED <<served, open, spent>>

Switch ==
  /\ accepted
  /\ open \in Attempts \ spent
  /\ served' = open
  /\ spent' = spent \cup {open}
  /\ UNCHANGED <<open, accepted>>

Close ==
  /\ open # Nothing
  /\ open' = Nothing
  /\ accepted' = FALSE
  /\ UNCHANGED <<served, spent>>

PNext == (\E a \in Attempts : Open(a)) \/ Accept \/ Switch \/ Close

PSpec == PInit /\ [][PNext]_pVars

===============================================================================
