-------------------------------- MODULE Store --------------------------------
(***************************************************************************)
(* What the services share: the committed tables, the row locks and unique- *)
(* index entries that open transactions hold, and one HTTP request handler  *)
(* per element of Requests with its own database session.                   *)
(*                                                                          *)
(* PostgreSQL and SQLAlchemy are external; they are modelled by what the    *)
(* services rely on: READ COMMITTED transactions, SELECT ... FOR UPDATE     *)
(* that waits for the row's holder, a unique index whose inserter waits for *)
(* an uncommitted duplicate and fails on a committed one, deadlock          *)
(* detection, rollback when the handler raises or its connection is lost,   *)
(* and the session's identity map: a row that the session has already       *)
(* loaded is NOT refreshed by a later SELECT (no populate_existing).        *)
(***************************************************************************)
EXTENDS FxPolicy, FiniteSets

CONSTANTS
    Requests,      \* identities of the HTTP requests; also their row ids
    Numbers,       \* account numbers
    Keys,          \* idempotency keys
    Callers,       \* JWT subjects
    Amounts,       \* amounts a transfer request may carry, in ticks
    Nobody,        \* no request holds the lock, or none is named
    NoRow,         \* no such row, or not loaded
    Anonymized,    \* the owner_id that closing an account leaves behind
    InitialAccounts,  \* the account tables the window of behaviour starts from
    Workload       \* the request bodies that clients send in that window

AccountRow == [status: {"active", "closed"}, balance: Int, currency: Currencies,
               owner: Callers \cup {Anonymized}]

AccountTable == [Numbers -> AccountRow \cup {NoRow}]

ASSUME AmountsAssumption == Amounts \subseteq Nat
ASSUME RequestsAssumption == IsFiniteSet(Requests)
ASSUME NobodyAssumption == Nobody \notin Requests
ASSUME NoRowAssumption == NoRow \notin AccountRow
ASSUME InitialAssumption ==
    /\ InitialAccounts \subseteq AccountTable
    /\ \A a \in InitialAccounts : \A n \in Numbers :
          a[n] # NoRow => a[n].balance >= 0 /\ a[n].balance % Quantum = 0

VARIABLES
    accounts,    \* table accounts: account number -> committed row
    transfers,   \* table transfers: id of the creating request -> committed row
    audit,       \* table audit_log: the set of committed entries
    lock,        \* account number -> transaction holding the row (or its insertion)
    keyHolder,   \* idempotency key -> transaction with an uncommitted row for it
    req,         \* request -> the body it carries
    pc,          \* request -> the await its handler is at
    attempt,     \* request -> completed iterations of its handler's retry loop
    seen,        \* request -> identity map of its session
    picked,      \* request -> account number generated by AccountRepository.create
    reply,       \* request -> the response sent
    result       \* request -> id of the transfer that the response shows

tables  == <<accounts, transfers, audit>>
locks   == <<lock, keyHolder>>
session == <<req, pc, attempt, seen, picked, reply, result>>
storeVars == <<accounts, transfers, audit, lock, keyHolder, req, pc, attempt,
               seen, picked, reply, result>>

(* An audit_log entry of request r; `on' are its affected_account_numbers.  *)
Audit(op, r, on, amount) == [op |-> op, by |-> r, on |-> on, amount |-> amount]

(* Every account of the initial table was opened by an earlier request.     *)
StoreInit ==
    /\ accounts \in InitialAccounts
    /\ transfers = [r \in Requests |-> NoRow]
    /\ audit = {Audit("account_created", Nobody, {n}, accounts[n].balance) :
                   n \in {m \in Numbers : accounts[m] # NoRow}}
    /\ lock = [n \in Numbers |-> Nobody]
    /\ keyHolder = [k \in Keys |-> Nobody]
    /\ req = [r \in Requests |-> NoRow]
    /\ pc = [r \in Requests |-> "idle"]
    /\ attempt = [r \in Requests |-> 0]
    /\ seen = [r \in Requests |-> [n \in Numbers |-> NoRow]]
    /\ picked = [r \in Requests |-> NoRow]
    /\ reply = [r \in Requests |-> "none"]
    /\ result = [r \in Requests |-> Nobody]
-----------------------------------------------------------------------------
(* The API layer hands body b to the handler, whose first await is `first'. *)
Receive(r, b, first) ==
    /\ pc[r] = "idle"
    /\ req' = [req EXCEPT ![r] = b]
    /\ pc' = [pc EXCEPT ![r] = first]
    /\ UNCHANGED <<tables, locks, attempt, seen, picked, reply, result>>

GoTo(r, next) == pc' = [pc EXCEPT ![r] = next]

(* The transaction of r ends: its locks and index entries are released.     *)
Release(r) ==
    /\ lock' = [n \in Numbers |-> IF lock[n] = r THEN Nobody ELSE lock[n]]
    /\ keyHolder' = [k \in Keys |-> IF keyHolder[k] = r THEN Nobody ELSE keyHolder[k]]

(* Rollback also expires every object of the session's identity map.        *)
Rollback(r) ==
    /\ Release(r)
    /\ seen' = [seen EXCEPT ![r] = [n \in Numbers |-> NoRow]]
    /\ UNCHANGED tables

(* The handler answers; `t' is the transfer shown in the response, if any.  *)
Respond(r, outcome, t) ==
    /\ GoTo(r, "done")
    /\ reply' = [reply EXCEPT ![r] = outcome]
    /\ result' = [result EXCEPT ![r] = t]

(* Variant of Raise by a get_session that does not roll back.               *)
RaiseNoRollback(r, outcome) ==
    /\ Respond(r, outcome, Nobody)
    /\ UNCHANGED <<tables, locks, req, attempt, seen, picked>>

(* The handler raises: get_session rolls back and closes the session, and   *)
(* the exception handlers turn the exception into the response `outcome'.   *)
Raise(r, outcome) ==
    /\ Rollback(r)
    /\ Respond(r, outcome, Nobody)
    /\ UNCHANGED <<req, attempt, picked>>

(* A plain SELECT on accounts: the session keeps the object it loads.       *)
Loaded(r, n) == IF seen[r][n] = NoRow THEN accounts[n] ELSE seen[r][n]

Load(r, n) == seen' = [seen EXCEPT ![r][n] = Loaded(r, n)]

IsActive(row) == row # NoRow /\ row.status = "active"

(* SELECT ... FOR UPDATE of row n can return: the row is not there (an      *)
(* uncommitted insertion is invisible) or no other transaction holds it.    *)
RowFree(r, n) == accounts[n] = NoRow \/ lock[n] \in {Nobody, r}

(* Variant of LockActive: a SELECT without FOR UPDATE.                      *)
ReadActive(r, n, next) ==
    \/ /\ IsActive(accounts[n])
       /\ Load(r, n)
       /\ GoTo(r, next)
       /\ UNCHANGED <<tables, locks, req, attempt, picked, reply, result>>
    \/ /\ ~ IsActive(accounts[n])
       /\ Raise(r, "not_found")

(* SELECT ... FOR UPDATE followed by the test that the row is active.       *)
LockActive(r, n, next) ==
    /\ RowFree(r, n)
    /\ \/ /\ accounts[n] # NoRow /\ IsActive(Loaded(r, n))
          /\ lock' = [lock EXCEPT ![n] = r]
          /\ Load(r, n)
          /\ GoTo(r, next)
          /\ UNCHANGED <<tables, keyHolder, req, attempt, picked, reply, result>>
       \/ /\ accounts[n] = NoRow \/ ~ IsActive(Loaded(r, n))
          /\ Raise(r, "not_found")

(* The requests whose uncommitted work the pending statement of r waits on. *)
WaitsFor(r) ==
    LET row(n) == IF RowFree(r, n) THEN {} ELSE {lock[n]}
    IN  CASE pc[r] \in {"lock_source", "cross_lock_source"} -> row(req[r].src)
          [] pc[r] \in {"lock_destination", "cross_lock_destination"} -> row(req[r].dst)
          [] pc[r] = "lock_account" -> row(req[r].number)
          [] pc[r] \in {"insert", "cross_insert"} -> {keyHolder[req[r].key]} \ {Nobody, r}
          [] pc[r] = "insert_account" -> IF accounts[picked[r]] # NoRow THEN {}
                                         ELSE {lock[picked[r]]} \ {Nobody, r}
          [] OTHER -> {}

(* r is on a cycle of waits: it belongs to a set of requests each of which  *)
(* waits on, and is waited on by, a member of the set.                      *)
Deadlocked(r) ==
    \E S \in SUBSET Requests :
        /\ r \in S
        /\ \A x \in S : /\ WaitsFor(x) \cap S # {}
                        /\ \E y \in S : x \in WaitsFor(y)

InFlight(r) == pc[r] \notin {"idle", "done"}

(* The connection or the server is lost.  Work that is not committed is     *)
(* rolled back; the client gets no answer, committed or not.                *)
Crash(r) ==
    /\ InFlight(r)
    /\ Raise(r, "lost")
===============================================================================
