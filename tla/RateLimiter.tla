------------------------------ MODULE RateLimiter ------------------------------
(***************************************************************************)
(* The closed-alpha rate limit: ProcessRateLimiter of                      *)
(* webapp/alpha_access.py, as the middleware of api/index.py calls it.     *)
(*                                                                         *)
(* A protected request of an authenticated tester is checked against the   *)
(* "general" bucket and, if it is a transfer scan, against the "transfer"  *)
(* bucket after that.  The middleware awaits nothing in between, and one   *)
(* event loop runs it, so no other request comes between the two checks;   *)
(* the clock may move.                                                     *)
(*                                                                         *)
(* The deque of a bucket is a suffix of all it ever admitted:              *)
(*   admitted[b][pruned[b] + 1 .. Len(admitted[b])].                       *)
(* Testers and processes share nothing, so one tester is modelled.         *)
(***************************************************************************)
EXTENDS Integers, Sequences

CONSTANTS
  Limit,           \* requests_per_minute and transfer_scans_per_minute
  Window,          \* window_seconds, in ticks of the clock
  TicksPerSecond,
  MaxTime          \* bound: ticks in one behaviour

Buckets == {"general", "transfer"}

ASSUME LimiterAssumption ==
  /\ Limit \in [Buckets -> Nat \ {0}]
  /\ Window \in Nat \ {0}
  /\ TicksPerSecond \in Nat \ {0}
  /\ MaxTime \in Nat

VARIABLES
  clock,      \* time.monotonic()
  admitted,   \* for each bucket, when it admitted requests, oldest first
  pruned,     \* how many of them have left the deque
  promise     \* history: the last refusal, if nothing was admitted since

limiterVars == <<clock, admitted, pruned, promise>>

Times == 0 .. MaxTime
NoPromise == [bucket |-> "none"]

\* Retry-After counts from the refusal, in whole seconds.
Promises == {NoPromise} \cup
  [bucket: Buckets, scan: BOOLEAN, due: Nat]

LimiterInit ==
  /\ clock = 0
  /\ admitted = [b \in Buckets |-> <<>>]
  /\ pruned = [b \in Buckets |-> 0]
  /\ promise = NoPromise

-----------------------------------------------------------------------------
(* ProcessRateLimiter.check. *)

Count(b) == Len(admitted[b])

\* Mutant of Prunes: what has not quite expired is dropped, too.
PrunesEarly(b, now, k) ==
  /\ k \in pruned[b] .. Count(b)
  /\ \A j \in pruned[b] + 1 .. k : admitted[b][j] + Window <= now + 1
  /\ k < Count(b) => admitted[b][k + 1] + Window > now + 1

\* `while events and events[0] <= cutoff: events.popleft()` leaves the events after
\* the k-th.
Prunes(b, now, k) ==
  /\ k \in pruned[b] .. Count(b)
  /\ \A j \in pruned[b] + 1 .. k : admitted[b][j] + Window <= now
  /\ k < Count(b) => admitted[b][k + 1] + Window > now

\* Mutant of RetryAfter: the fraction of a second is dropped.
RetryAfterFloor(b, now, k) ==
  LET wait == (admitted[b][k + 1] + Window - now) \div TicksPerSecond IN
    IF wait < 1 THEN 1 ELSE wait

\* max(1, ceil(window - (now - events[0]))) seconds.
RetryAfter(b, now, k) ==
  LET wait == (admitted[b][k + 1] + Window - now + TicksPerSecond - 1)
                \div TicksPerSecond IN
    IF wait < 1 THEN 1 ELSE wait

Fits(b, k) == Count(b) - k < Limit[b]

-----------------------------------------------------------------------------
(* The middleware. *)

\* A request that is no transfer scan.
Admit ==
  \E k \in 0 .. Count("general") :
    /\ Prunes("general", clock, k)
    /\ Fits("general", k)
    /\ admitted' = [admitted EXCEPT !["general"] = Append(@, clock)]
    /\ pruned' = [pruned EXCEPT !["general"] = k]
    /\ promise' = NoPromise
    /\ UNCHANGED clock

\* 429 from the general bucket, for a transfer scan or another request.
Refuse(scan) ==
  \E k \in 0 .. Count("general") :
    /\ Prunes("general", clock, k)
    /\ ~Fits("general", k)
    /\ pruned' = [pruned EXCEPT !["general"] = k]
    /\ promise' = [bucket |-> "general", scan |-> scan,
         due |-> clock + TicksPerSecond * RetryAfter("general", clock, k)]
    /\ UNCHANGED <<clock, admitted>>

\* A transfer scan that the general bucket admitted meets its own bucket.
Scan ==
  \E k \in 0 .. Count("general"), j \in 0 .. Count("transfer"),
     later \in {clock, clock + 1} \cap Times :
    /\ Prunes("general", clock, k)
    /\ Fits("general", k)
    /\ Prunes("transfer", later, j)
    /\ clock' = later
    /\ pruned' = [general |-> k, transfer |-> j]
    /\ \/ /\ Fits("transfer", j)
          /\ admitted' = [admitted EXCEPT !["general"] = Append(@, clock),
                                       !["transfer"] = Append(@, later)]
          /\ promise' = NoPromise
       \/ /\ ~Fits("transfer", j)   \* the general slot stays consumed
          /\ admitted' = [admitted EXCEPT !["general"] = Append(@, clock)]
          /\ promise' = [bucket |-> "transfer", scan |-> TRUE,
               due |-> later + TicksPerSecond * RetryAfter("transfer", later, j)]

Tick ==
  /\ clock < MaxTime
  /\ clock' = clock + 1
  /\ UNCHANGED <<admitted, pruned, promise>>

LimiterNext == Admit \/ (\E scan \in BOOLEAN : Refuse(scan)) \/ Scan \/ Tick

LimiterSpec == LimiterInit /\ [][LimiterNext]_limiterVars

-----------------------------------------------------------------------------
(* Properties. *)

\* Every variable has its type, and no deque is longer than its limit.
LimiterTypeOK ==
  /\ clock \in Times
  /\ admitted \in [Buckets -> Seq(Times)]
  /\ pruned \in [Buckets -> Nat]
  /\ \A b \in Buckets : pruned[b] <= Count(b) /\ Count(b) - pruned[b] <= Limit[b]
  /\ promise \in Promises

\* "The default limit is 60 protected requests and two transfer scans per tester per
\* minute": of any Limit + 1 consecutive admissions, the first and the last are at
\* least a window apart.
WindowLimit ==
  \A b \in Buckets : \A i, j \in 1 .. Count(b) :
    i + Limit[b] <= j => admitted[b][i] + Window <= admitted[b][j]

\* A bucket would admit a request that is checked at time t: so many of its events have
\* expired that fewer than its limit remain.
Room(b, t) ==
  \E k \in pruned[b] .. Count(b) :
    /\ \A j \in pruned[b] + 1 .. k : admitted[b][j] + Window <= t
    /\ Fits(b, k)

\* A tester who was refused, and whom nothing was granted since, finds room in the bucket
\* that refused as soon as the announced delay has passed, and from then on.
RetryAfterHonest ==
  promise # NoPromise /\ clock >= promise.due => Room(promise.bucket, clock)

-----------------------------------------------------------------------------
(* The inductive invariant behind these properties. *)

\* What has left a deque is a window old.
PrunedExpired ==
  \A b \in Buckets : \A j \in 1 .. pruned[b] : admitted[b][j] + Window <= clock

\* The bucket that refused is full, and its oldest event expires when the delay is
\* over.
PromiseCoversOldest ==
  promise # NoPromise =>
    LET b == promise.bucket IN
      /\ Count(b) - pruned[b] = Limit[b]
      /\ admitted[b][pruned[b] + 1] + Window <= promise.due

LimiterInv ==
  /\ LimiterTypeOK
  /\ PrunedExpired
  /\ WindowLimit
  /\ PromiseCoversOldest

===============================================================================
