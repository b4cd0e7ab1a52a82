--------------------------- MODULE FxRateProvider ---------------------------
(***************************************************************************)
(* TreasuryFeedAdapter: the snapshot of exchange rates that the application *)
(* keeps, refreshed from the treasury feed by the background loop and on    *)
(* demand, under one asyncio.Lock that serves its waiters in order.         *)
(***************************************************************************)
EXTENDS Naturals, SequencesExt

CONSTANTS
  Loop,          \* lifespan and then _bg_refresh_loop
  Reader,        \* requests that refresh on demand
  MaxAttempts,   \* range(3) of _do_refresh
  MaxFailures,   \* self._max_failures
  MaxFeed,       \* bound on the rate tables the feed publishes
  MaxFaults      \* bound on the attempts that fail

ASSUME FxRateProviderAssumption ==
  /\ Loop \notin Reader /\ {MaxAttempts, MaxFailures, MaxFeed, MaxFaults} \subseteq Nat \ {0}

Task == Reader \cup {Loop}

VARIABLES
  feed,       \* number of the table the feed serves now
  snapshot,   \* number of the table held, 0 for None
  failures, stale,
  lock,       \* the tasks at the lock, the owner first
  at, attempt, got,
  serving,    \* has lifespan finished its first refresh?
  faults, cancelled

vars == <<feed, snapshot, failures, stale, lock, at, attempt, got, serving, faults, cancelled>>

Init ==
  /\ feed = 1 /\ snapshot = 0 /\ failures = 0 /\ stale = FALSE /\ lock = <<>>
  /\ at = [t \in Task |-> "idle"] /\ attempt = [t \in Task |-> 0] /\ got = [t \in Task |-> 0]
  /\ serving = FALSE /\ faults = 0 /\ cancelled = FALSE

\* refresh: `async with self._lock`.
Refresh(t) ==
  /\ at[t] = "idle" /\ (t \in Reader => serving)
  /\ lock' = Append(lock, t) /\ at' = [at EXCEPT ![t] = "ready"]
  /\ attempt' = [attempt EXCEPT ![t] = 1]
  /\ UNCHANGED <<feed, snapshot, failures, stale, got, serving, faults, cancelled>>

\* get_snapshot asks for a refresh only while there is no snapshot.
GetSnapshot(r) == snapshot = 0 /\ Refresh(r)

\* Variant of Get: the lock is not waited for.
GetUnlocked(t) ==
  /\ at[t] = "ready" /\ at' = [at EXCEPT ![t] = "sent"]
  /\ UNCHANGED <<feed, snapshot, failures, stale, lock, attempt, got, serving, faults, cancelled>>

\* client.get is sent by the owner of the lock, at once or after the backoff.
Get(t) ==
  /\ at[t] = "ready" /\ Head(lock) = t /\ at' = [at EXCEPT ![t] = "sent"]
  /\ UNCHANGED <<feed, snapshot, failures, stale, lock, attempt, got, serving, faults, cancelled>>

\* The feed answers with the table it has at that moment.
FeedAnswers(t) ==
  /\ at[t] = "sent" /\ at' = [at EXCEPT ![t] = "answered"] /\ got' = [got EXCEPT ![t] = feed]
  /\ UNCHANGED <<feed, snapshot, failures, stale, lock, attempt, serving, faults, cancelled>>

\* The task leaves _do_refresh and releases the lock.
Leave(t) ==
  /\ at' = [at EXCEPT ![t] = "idle"]
  /\ \E i \in DOMAIN lock : lock[i] = t /\ lock' = RemoveAt(lock, i)
  /\ attempt' = [attempt EXCEPT ![t] = 0] /\ got' = [got EXCEPT ![t] = 0]
  /\ serving' = (serving \/ t = Loop)

\* Variant of Store: the failures are not forgotten.
StoreWithoutReset(t) ==
  /\ at[t] = "answered" /\ snapshot' = got[t] /\ stale' = FALSE /\ Leave(t)
  /\ UNCHANGED <<feed, failures, faults, cancelled>>

\* The answer arrives in time and parses.
Store(t) ==
  /\ at[t] = "answered" /\ snapshot' = got[t] /\ failures' = 0 /\ stale' = FALSE /\ Leave(t)
  /\ UNCHANGED <<feed, faults, cancelled>>

\* The except branch: an error status, a timeout (also of an answer on its way) or
\* a body that does not parse; the last attempt decides on staleness.
AttemptFails(t) ==
  /\ at[t] \in {"sent", "answered"} /\ faults < MaxFaults /\ faults' = faults + 1
  /\ failures' = failures + 1
  /\ IF attempt[t] < MaxAttempts
     THEN /\ at' = [at EXCEPT ![t] = "ready"] /\ attempt' = [attempt EXCEPT ![t] = @ + 1]
          /\ got' = [got EXCEPT ![t] = 0]
          /\ UNCHANGED <<stale, lock, serving>>
     ELSE stale' = (stale \/ failures' >= MaxFailures) /\ Leave(t)
  /\ UNCHANGED <<feed, snapshot, cancelled>>

\* Variant of Cancel: the lock stays with the task.
CancelWithLock(r) ==
  /\ at[r] # "idle" /\ at' = [at EXCEPT ![r] = "idle"] /\ cancelled' = TRUE
  /\ UNCHANGED <<feed, snapshot, failures, stale, lock, attempt, got, serving, faults>>

\* A request is cancelled at an await: nothing but the lock is undone.
Cancel(r) ==
  /\ at[r] # "idle" /\ Leave(r) /\ cancelled' = TRUE
  /\ UNCHANGED <<feed, snapshot, failures, stale, faults>>

FeedPublishes ==
  /\ feed < MaxFeed /\ feed' = feed + 1
  /\ UNCHANGED <<snapshot, failures, stale, lock, at, attempt, got, serving, faults, cancelled>>

Attempt(t) == Get(t) \/ FeedAnswers(t) \/ Store(t) \/ AttemptFails(t)
Next ==
  \/ \E t \in Task : Refresh(t) \/ Attempt(t)
  \/ \E r \in Reader : GetSnapshot(r) \/ Cancel(r)
  \/ FeedPublishes

\* The event loop runs every task that can run and the HTTP client's timeout ends
\* every attempt; the background loop comes back after every interval.
Fairness ==
  /\ \A t \in Task : WF_vars(Attempt(t))
  /\ WF_vars(Refresh(Loop))
Spec == Init /\ [][Next]_vars /\ Fairness

-----------------------------------------------------------------------------

\* Staleness is announced exactly by the failures in a row, whenever no refresh is
\* under way; a request cancelled between two attempts may leave failures that
\* nobody has announced, never a stale mark without them.
StaleTellsFailures ==
  /\ stale => failures >= MaxFailures
  /\ lock = <<>> /\ ~cancelled => (stale <=> failures >= MaxFailures)

\* Refreshes of several tasks never put an older table over a newer one, late
\* answers, retries and cancelled requests included.
NeverBackwards == [][snapshot' >= snapshot]_vars

\* Once the feed has recovered and no longer changes, the snapshot is the feed's
\* and not stale for good.
EventuallyFresh == <>[](snapshot = feed /\ ~stale)
=============================================================================
