------------------------- MODULE FxRateProviderProofs -------------------------
(***************************************************************************)
(* Safety of TreasuryFeedAdapter for any number of tasks, attempts and      *)
(* failures.  The invariant says who may be past the lock: only the first   *)
(* of its queue has a request under way, so what it was answered is no      *)
(* older than what is held.                                                 *)
(***************************************************************************)
EXTENDS FxRateProvider, SequenceTheorems, TLAPS

Typed ==
  /\ feed \in Nat /\ snapshot \in Nat /\ failures \in Nat /\ stale \in BOOLEAN
  /\ lock \in Seq(Task) /\ at \in [Task -> {"idle", "ready", "sent", "answered"}]
  /\ attempt \in [Task -> Nat] /\ got \in [Task -> Nat]
  /\ serving \in BOOLEAN /\ faults \in Nat /\ cancelled \in BOOLEAN

\* A task that refreshes is in the queue once, and only its head has sent a request.
Queued ==
  /\ \A i, j \in 1 .. Len(lock) : lock[i] = lock[j] => i = j
  /\ \A i \in 1 .. Len(lock) : at[lock[i]] # "idle"
  /\ \A t \in Task : at[t] # "idle" => \E i \in 1 .. Len(lock) : lock[i] = t
  /\ \A t \in Task : at[t] \in {"sent", "answered"} => lock # <<>> /\ lock[1] = t

\* What is held is not newer than the feed, nor than an answer on its way.
Ordered ==
  /\ snapshot <= feed
  /\ \A t \in Task : at[t] = "answered" => snapshot <= got[t] /\ got[t] <= feed

\* Failures that are not announced yet are those of the refresh under way.
Announced ==
  /\ \A t \in Task : at[t] # "idle" => attempt[t] > 0
  /\ stale => failures >= MaxFailures
  /\ ~ cancelled /\ ~ stale /\ failures >= MaxFailures => lock # <<>> /\ attempt[lock[1]] > 1

IInv == Typed /\ Queued /\ Ordered /\ Announced

-----------------------------------------------------------------------------
\* What is left of a queue without its i-th task.
LEMMA Removed ==
  ASSUME NEW T, NEW s \in Seq(T), NEW i \in 1 .. Len(s)
  PROVE  /\ RemoveAt(s, i) \in Seq(T) /\ Len(RemoveAt(s, i)) = Len(s) - 1
         /\ \A j \in 1 .. Len(s) - 1 : RemoveAt(s, i)[j] = IF j < i THEN s[j] ELSE s[j + 1]
  <1> DEFINE a == SubSeq(s, 1, i - 1)
             b == SubSeq(s, i + 1, Len(s))
  <1>1. a \in Seq(T) /\ Len(a) = i - 1 /\ \A j \in 1 .. i - 1 : a[j] = s[j]
    BY SubSeqProperties
  <1>2. b \in Seq(T) /\ Len(b) = Len(s) - i /\ \A j \in 1 .. Len(s) - i : b[j] = s[i + j]
    BY SubSeqProperties
  <1> HIDE DEF a, b
  <1>3. /\ a \o b \in Seq(T) /\ Len(a \o b) = Len(a) + Len(b)
        /\ \A j \in 1 .. Len(a) + Len(b) : (a \o b)[j] = IF j <= Len(a) THEN a[j] ELSE b[j - Len(a)]
    BY <1>1, <1>2, ConcatProperties
  <1>4. Len(s) \in Nat /\ Len(a) + Len(b) = Len(s) - 1
    BY <1>1, <1>2
  <1>5. ASSUME NEW j \in 1 .. Len(s) - 1
        PROVE  (a \o b)[j] = IF j < i THEN s[j] ELSE s[j + 1]
    <2>1. CASE j < i
      BY <1>1, <1>3, <1>4, <2>1
    <2>2. CASE j >= i
      <3>1. j - (i - 1) \in 1 .. Len(s) - i /\ i + (j - (i - 1)) = j + 1
        BY <1>4, <2>2
      <3>2. (a \o b)[j] = b[j - (i - 1)]
        BY <1>1, <1>3, <1>4, <2>2
      <3> QED
        BY <1>2, <2>2, <3>1, <3>2
    <2> QED
      BY <1>4, <2>1, <2>2
  <1>6. RemoveAt(s, i) = a \o b
    BY DEF RemoveAt, a, b
  <1> QED
    BY <1>3, <1>4, <1>5, <1>6

\* A queue that lost one task has the others, in their order.
LEMMA Left ==
  ASSUME Typed, Queued, NEW t \in Task, Leave(t)
  PROVE  /\ lock' \in Seq(Task)
         /\ \A i, j \in 1 .. Len(lock') : lock'[i] = lock'[j] => i = j
         /\ \A i \in 1 .. Len(lock') : lock'[i] # t
         /\ \A u \in Task \ {t} : (\E i \in 1 .. Len(lock) : lock[i] = u)
                                    <=> (\E i \in 1 .. Len(lock') : lock'[i] = u)
         /\ lock[1] # t => lock # <<>> /\ lock' # <<>> /\ lock'[1] = lock[1]
  <1>1. PICK k \in 1 .. Len(lock) : lock[k] = t /\ lock' = RemoveAt(lock, k)
    BY DEF Leave, Typed
  <1>2. /\ lock' \in Seq(Task) /\ Len(lock') = Len(lock) - 1
        /\ \A j \in 1 .. Len(lock) - 1 : lock'[j] = IF j < k THEN lock[j] ELSE lock[j + 1]
    BY <1>1, Removed DEF Typed
  <1>3. \A i, j \in 1 .. Len(lock) : lock[i] = lock[j] => i = j
    BY DEF Queued
  <1>4. Len(lock) \in Nat /\ Len(lock') \in Nat
    BY <1>2 DEF Typed
  <1>5. \A i, j \in 1 .. Len(lock') : lock'[i] = lock'[j] => i = j
    BY <1>1, <1>2, <1>3, <1>4
  <1>6. \A i \in 1 .. Len(lock') : lock'[i] # t
    BY <1>1, <1>2, <1>3, <1>4
  <1>7. ASSUME NEW u \in Task \ {t}
        PROVE  (\E i \in 1 .. Len(lock) : lock[i] = u) <=> (\E i \in 1 .. Len(lock') : lock'[i] = u)
    <2>1. ASSUME NEW i \in 1 .. Len(lock), lock[i] = u
          PROVE  \E j \in 1 .. Len(lock') : lock'[j] = u
      <3>1. CASE i < k
        BY <1>2, <1>4, <2>1, <3>1
      <3>2. CASE i > k
        <4>1. i - 1 \in 1 .. Len(lock') /\ lock'[i - 1] = lock[i]
          BY <1>2, <1>4, <3>2
        <4> QED
          BY <2>1, <4>1
      <3> QED
        BY <1>1, <2>1, <3>1, <3>2
    <2>2. ASSUME NEW i \in 1 .. Len(lock'), lock'[i] = u
          PROVE  \E j \in 1 .. Len(lock) : lock[j] = u
      <3>1. i \in 1 .. Len(lock) /\ i + 1 \in 1 .. Len(lock)
        BY <1>2, <1>4
      <3> QED
        BY <1>2, <1>4, <2>2, <3>1
    <2> QED
      BY <2>1, <2>2
  <1>8. lock[1] # t => lock # <<>> /\ lock' # <<>> /\ lock'[1] = lock[1]
    BY <1>1, <1>2, <1>4
  <1> QED
    BY <1>2, <1>5, <1>6, <1>7, <1>8

\* The invariant holds at the start.
LEMMA InitIInv == Init => IInv
  <1> SUFFICES ASSUME Init PROVE IInv
    OBVIOUS
  <1>1. MaxFailures \in Nat \ {0}
    BY FxRateProviderAssumption
  <1>2. lock = <<>> /\ lock \in Seq(Task) /\ Len(lock) = 0
    BY DEF Init
  <1>3. Typed
    BY <1>2, Zenon DEF Init, Typed
  <1> QED
    BY <1>1, <1>2, <1>3 DEF Init, IInv, Queued, Ordered, Announced

\* A task that leaves the queue frees it for the next one.
LEMMA LeaveQueued ==
  ASSUME Typed, Queued, NEW t \in Task, Leave(t)
  PROVE  Queued'
  <1>1. \A u \in Task \ {t} : at'[u] = at[u]
    BY DEF Leave, Typed
  <1>2. at'[t] = "idle"
    BY DEF Leave, Typed
  <1>3. \A i \in 1 .. Len(lock') : lock'[i] \in Task \ {t}
    BY Left
  <1>4. \A i \in 1 .. Len(lock') : at'[lock'[i]] # "idle"
    <2>1. ASSUME NEW i \in 1 .. Len(lock') PROVE at'[lock'[i]] # "idle"
      <3>1. PICK j \in 1 .. Len(lock) : lock[j] = lock'[i]
        BY <1>3, Left
      <3> QED
        BY <1>1, <1>3, <3>1 DEF Queued
    <2> QED
      BY <2>1
  <1>5. \A u \in Task : at'[u] # "idle" => \E i \in 1 .. Len(lock') : lock'[i] = u
    BY <1>1, <1>2, Left DEF Queued
  <1>6. \A u \in Task : at'[u] \in {"sent", "answered"} => lock' # <<>> /\ lock'[1] = u
    BY <1>1, <1>2, Left DEF Queued
  <1>7. \A i, j \in 1 .. Len(lock') : lock'[i] = lock'[j] => i = j
    BY Left
  <1> QED
    BY <1>4, <1>5, <1>6, <1>7 DEF Queued

\* A task that asks for a refresh joins the end of the queue.
LEMMA RefreshIInv ==
  ASSUME IInv, NEW t \in Task, Refresh(t)
  PROVE  IInv'
  <1>1. /\ at[t] = "idle" /\ lock' = Append(lock, t) /\ at' = [at EXCEPT ![t] = "ready"]
        /\ attempt' = [attempt EXCEPT ![t] = 1]
        /\ UNCHANGED <<feed, snapshot, failures, stale, got, serving, faults, cancelled>>
    BY DEF Refresh
  <1>2. /\ lock' \in Seq(Task) /\ lock' # <<>> /\ Len(lock') = Len(lock) + 1
        /\ \A i \in 1 .. Len(lock) : lock'[i] = lock[i]
        /\ lock'[Len(lock) + 1] = t /\ Len(lock) \in Nat
    BY <1>1, AppendProperties DEF IInv, Typed
  <1>3. \A i \in 1 .. Len(lock) : lock[i] \in Task /\ lock[i] # t
    BY <1>1 DEF IInv, Typed, Queued
  <1>4. Typed'
    BY <1>1, <1>2 DEF IInv, Typed
  <1>5. \A u \in Task : at'[u] = IF u = t THEN "ready" ELSE at[u]
    BY <1>1 DEF IInv, Typed
  <1>6. lock # <<>> => lock'[1] = lock[1] /\ lock[1] # t
    BY <1>2, <1>3, EmptySeq DEF IInv, Typed
  <1>7. Queued'
    <2>1. \A i, j \in 1 .. Len(lock') : lock'[i] = lock'[j] => i = j
      BY <1>2, <1>3 DEF IInv, Queued
    <2>2. \A i \in 1 .. Len(lock') : at'[lock'[i]] # "idle"
      BY <1>2, <1>3, <1>5 DEF IInv, Queued
    <2>3. \A u \in Task : at'[u] # "idle" => \E i \in 1 .. Len(lock') : lock'[i] = u
      BY <1>2, <1>5 DEF IInv, Queued
    <2>4. \A u \in Task : at'[u] \in {"sent", "answered"} => lock' # <<>> /\ lock'[1] = u
      BY <1>2, <1>5, <1>6 DEF IInv, Queued
    <2> QED
      BY <2>1, <2>2, <2>3, <2>4 DEF Queued
  <1>8. Ordered'
    BY <1>1, <1>5 DEF IInv, Ordered
  <1>9. Announced'
    <2>1. lock # <<>> => attempt'[lock'[1]] = attempt[lock[1]]
      BY <1>1, <1>6 DEF IInv, Typed
    <2>2. \A u \in Task : at'[u] # "idle" => attempt'[u] > 0
      BY <1>1 DEF IInv, Typed, Announced
    <2> QED
      BY <1>1, <1>2, <2>1, <2>2 DEF IInv, Announced
  <1> QED
    BY <1>4, <1>7, <1>8, <1>9 DEF IInv

\* The head of the queue sends its request; the feed answers it.
LEMMA SentIInv ==
  ASSUME IInv, NEW t \in Task, Get(t) \/ FeedAnswers(t)
  PROVE  IInv'
  <1>1. /\ UNCHANGED <<feed, snapshot, failures, stale, lock, attempt, serving, faults, cancelled>>
        /\ at[t] # "idle" /\ lock # <<>> /\ lock[1] = t
    BY DEF Get, FeedAnswers, IInv, Queued
  <1>2. /\ \E a \in {"sent", "answered"} : at' = [at EXCEPT ![t] = a]
        /\ got' \in [Task -> Nat] /\ \A u \in Task \ {t} : got'[u] = got[u]
        /\ at'[t] = "answered" => got'[t] = feed
    BY DEF Get, FeedAnswers, IInv, Typed
  <1>3. Typed'
    BY <1>1, <1>2 DEF IInv, Typed
  <1>4. Queued'
    BY <1>1, <1>2 DEF IInv, Typed, Queued
  <1>5. Ordered' /\ Announced'
    BY <1>1, <1>2 DEF IInv, Typed, Ordered, Announced
  <1> QED
    BY <1>3, <1>4, <1>5 DEF IInv

\* Whoever leaves without storing leaves what is held as it is.
LEMMA LeaveTyped ==
  ASSUME Typed, Queued, NEW t \in Task, Leave(t)
  PROVE  /\ lock' \in Seq(Task) /\ at' \in [Task -> {"idle", "ready", "sent", "answered"}]
         /\ attempt' \in [Task -> Nat] /\ got' \in [Task -> Nat] /\ serving' \in BOOLEAN
         /\ at'[t] = "idle"
         /\ \A u \in Task \ {t} : at'[u] = at[u] /\ got'[u] = got[u] /\ attempt'[u] = attempt[u]
  BY Left DEF Leave, Typed

\* The answer of the head of the queue becomes the snapshot.
LEMMA StoreIInv ==
  ASSUME IInv, NEW t \in Task, Store(t)
  PROVE  IInv' /\ snapshot' >= snapshot
  <1>1. /\ at[t] = "answered" /\ snapshot' = got[t] /\ failures' = 0 /\ stale' = FALSE /\ Leave(t)
        /\ UNCHANGED <<feed, faults, cancelled>>
    BY DEF Store
  <1>2. Typed'
    BY <1>1, LeaveTyped DEF IInv, Typed
  <1>3. Queued'
    BY <1>1, LeaveQueued DEF IInv
  <1>4. snapshot <= got[t] /\ got[t] <= feed
    BY <1>1 DEF IInv, Ordered
  <1>5. \A u \in Task : at'[u] # "answered"
    <2>1. at'[t] = "idle" /\ \A u \in Task \ {t} : at'[u] = at[u]
      BY <1>1, LeaveTyped DEF IInv
    <2> QED
      BY <1>1, <2>1 DEF IInv, Queued
  <1>6. Ordered'
    BY <1>1, <1>4, <1>5 DEF Ordered
  <1>7. Announced'
    <2>1. \A u \in Task : at'[u] # "idle" => attempt'[u] > 0
      BY <1>1, LeaveTyped DEF IInv, Announced
    <2> QED
      BY <1>1, <2>1, FxRateProviderAssumption DEF Announced
  <1> QED
    BY <1>1, <1>2, <1>3, <1>4, <1>6, <1>7 DEF IInv, Typed

\* An attempt that fails is repeated, or its task leaves and says so.
LEMMA AttemptFailsIInv ==
  ASSUME IInv, NEW t \in Task, AttemptFails(t)
  PROVE  IInv'
  <1>1. /\ at[t] \in {"sent", "answered"} /\ faults' = faults + 1 /\ failures' = failures + 1
        /\ UNCHANGED <<feed, snapshot, cancelled>>
    BY DEF AttemptFails
  <1>2. lock # <<>> /\ lock[1] = t
    BY <1>1 DEF IInv, Queued
  <1>3. CASE attempt[t] < MaxAttempts
    <2>1. /\ at' = [at EXCEPT ![t] = "ready"] /\ attempt' = [attempt EXCEPT ![t] = @ + 1]
          /\ got' = [got EXCEPT ![t] = 0]
          /\ UNCHANGED <<stale, lock, serving>>
      BY <1>3 DEF AttemptFails
    <2>2. Typed'
      BY <1>1, <2>1 DEF IInv, Typed
    <2>3. Queued'
      BY <1>1, <2>1 DEF IInv, Typed, Queued
    <2>4. Ordered'
      BY <1>1, <2>1 DEF IInv, Typed, Ordered
    <2>5. Announced'
      <3>1. attempt[t] \in Nat /\ attempt[t] > 0
        BY <1>1 DEF IInv, Typed, Announced
      <3>2. /\ attempt'[t] \in Nat /\ attempt'[t] > 1 /\ lock' # <<>> /\ lock'[1] = t
            /\ \A u \in Task \ {t} : at'[u] = at[u] /\ attempt'[u] = attempt[u]
        BY <1>2, <2>1, <3>1 DEF IInv, Typed
      <3>3. stale => failures' >= MaxFailures
        BY <1>1, FxRateProviderAssumption DEF IInv, Typed, Announced
      <3> QED
        BY <2>1, <3>2, <3>3 DEF IInv, Announced
    <2> QED
      BY <2>2, <2>3, <2>4, <2>5 DEF IInv
  <1>4. CASE ~ (attempt[t] < MaxAttempts)
    <2>1. stale' = (stale \/ failures' >= MaxFailures) /\ Leave(t)
      BY <1>4 DEF AttemptFails
    <2>2. Typed'
      BY <1>1, <2>1, LeaveTyped DEF IInv, Typed
    <2>3. Queued'
      BY <2>1, LeaveQueued DEF IInv
    <2>4. Ordered'
      BY <1>1, <2>1, LeaveTyped DEF IInv, Ordered
    <2>5. Announced'
      <3>1. stale => failures' >= MaxFailures
        BY <1>1, FxRateProviderAssumption DEF IInv, Typed, Announced
      <3>2. \A u \in Task : at'[u] # "idle" => attempt'[u] > 0
        BY <2>1, LeaveTyped DEF IInv, Announced
      <3> QED
        BY <2>1, <3>1, <3>2 DEF Announced
    <2> QED
      BY <2>2, <2>3, <2>4, <2>5 DEF IInv
  <1> QED
    BY <1>3, <1>4

\* A request that is cancelled leaves the queue, wherever it stands in it.
LEMMA CancelIInv ==
  ASSUME IInv, NEW t \in Task, Cancel(t)
  PROVE  IInv'
  <1>1. Leave(t) /\ cancelled' = TRUE /\ UNCHANGED <<feed, snapshot, failures, stale, faults>>
    BY DEF Cancel
  <1>2. Typed'
    BY <1>1, LeaveTyped DEF IInv, Typed
  <1>3. Queued'
    BY <1>1, LeaveQueued DEF IInv
  <1>4. Ordered' /\ Announced'
    BY <1>1, LeaveTyped DEF IInv, Ordered, Announced
  <1> QED
    BY <1>2, <1>3, <1>4 DEF IInv

\* The invariant is inductive, and no step puts an older table in place.
LEMMA NextIInv == IInv /\ [Next]_vars => IInv' /\ [snapshot' >= snapshot]_vars
  <1> SUFFICES ASSUME IInv, [Next]_vars PROVE IInv' /\ [snapshot' >= snapshot]_vars
    OBVIOUS
  <1>0. snapshot \in Nat
    BY DEF IInv, Typed
  <1>1. CASE UNCHANGED vars
    BY <1>1 DEF vars, IInv, Typed, Queued, Ordered, Announced
  <1>2. ASSUME NEW t \in Task, Refresh(t) PROVE IInv' /\ snapshot' >= snapshot
    <2>1. snapshot' = snapshot
      BY <1>2 DEF Refresh
    <2> QED
      BY <1>0, <1>2, <2>1, RefreshIInv
  <1>3. ASSUME NEW t \in Task, Attempt(t) PROVE IInv' /\ snapshot' >= snapshot
    <2>1. CASE Get(t) \/ FeedAnswers(t)
      BY <1>0, <2>1, SentIInv DEF Get, FeedAnswers
    <2>2. CASE Store(t)
      BY <2>2, StoreIInv
    <2>3. CASE AttemptFails(t)
      BY <1>0, <2>3, AttemptFailsIInv DEF AttemptFails
    <2> QED
      BY <1>3, <2>1, <2>2, <2>3 DEF Attempt
  <1>4. ASSUME NEW r \in Reader, GetSnapshot(r) \/ Cancel(r) PROVE IInv' /\ snapshot' >= snapshot
    <2>1. r \in Task
      BY DEF Task
    <2>2. CASE GetSnapshot(r)
      BY <1>2, <2>1, <2>2 DEF GetSnapshot
    <2>3. CASE Cancel(r)
      BY <1>0, <2>1, <2>3, CancelIInv DEF Cancel
    <2> QED
      BY <1>4, <2>2, <2>3
  <1>5. CASE FeedPublishes
    BY <1>0, <1>5 DEF FeedPublishes, IInv, Typed, Queued, Ordered, Announced
  <1> QED
    BY <1>1, <1>2, <1>3, <1>4, <1>5 DEF Next

\* The invariant holds throughout every behaviour.
THEOREM Invariance == Spec => []IInv
  BY InitIInv, NextIInv, PTL DEF Spec

\* The stale mark tells the failures in a row (StaleTellsFailures), however the
\* refreshes, their retries and the cancelled requests interleave.
THEOREM StaleIsTold == Spec => []StaleTellsFailures
  <1>1. IInv => StaleTellsFailures
    BY DEF IInv, Announced, StaleTellsFailures
  <1> QED
    BY <1>1, Invariance, PTL

\* The snapshot never goes back to an older table of the feed.
THEOREM NeverOlder == Spec => NeverBackwards
  BY InitIInv, NextIInv, PTL DEF Spec, NeverBackwards
===============================================================================
