--------------------------- MODULE TransferService ---------------------------
(***************************************************************************)
(* TransferService.execute_transfer behind POST /transfers, one action per  *)
(* database round trip of the handler:                                      *)
(*                                                                          *)
(*   lookup -> lock_source -> lock_destination -> check -> insert           *)
(*          -> commit -> reply                                              *)
(*                                                                          *)
(* with the retry loop of @retry_on_deadlock around it.                     *)
(***************************************************************************)
EXTENDS TransferRepository

CONSTANT MaxRetries   \* max_retries of @retry_on_deadlock (3)

ASSUME MaxRetriesAssumption == MaxRetries \in Nat

(* Bodies that pass CreateTransferRequest.validate_not_self_transfer.       *)
TransferBody ==
    {b \in [kind: {"transfer"}, src: Numbers, dst: Numbers, amount: Amounts,
            key: Keys, caller: Callers] : b.src # b.dst /\ b.amount > 0}

-----------------------------------------------------------------------------
(* POST /transfers reaches the service.                                     *)
CreateTransfer(r) ==
    \E b \in Workload \cap TransferBody : Receive(r, b, "lookup")

Lookup(r) ==
    /\ pc[r] = "lookup"
    /\ ReplayOr(r, "lock_source")

LockSource(r) ==
    /\ pc[r] = "lock_source"
    /\ LockActive(r, req[r].src, "lock_destination")

LockDestination(r) ==
    /\ pc[r] = "lock_destination"
    /\ LockActive(r, req[r].dst, "check")

(* What the checks between the locks and the first write decide.            *)
Verdict(r) ==
    LET source == seen[r][req[r].src]
        dest   == seen[r][req[r].dst]
    IN  IF req[r].amount > MaxTransfer[source.currency] THEN "limit_exceeded"
        ELSE IF source.balance < req[r].amount THEN "insufficient_funds"
        ELSE IF ~ HasRate(source.currency, dest.currency) THEN "unsupported_currency"
        ELSE "ok"

(* No statement is sent between the locks and create_transfer.              *)
Check(r) ==
    /\ pc[r] = "check"
    /\ \/ /\ Verdict(r) # "ok"
          /\ Raise(r, Verdict(r))
       \/ /\ Verdict(r) = "ok"
          /\ GoTo(r, "insert")
          /\ UNCHANGED <<tables, locks, req, attempt, seen, picked, reply, result>>

(* create_transfer's flush inserts the transfers row.                       *)
Insert(r) ==
    /\ pc[r] = "insert"
    /\ InsertUnique(r, "commit")

(* destination_amount of execute_transfer.                                  *)
DestinationAmount(r) ==
    Converted(req[r].amount, GetRate(seen[r][req[r].src].currency,
                                     seen[r][req[r].dst].currency))

(* The ORM writes the balances it computed from the objects it had loaded,  *)
(* as absolute values; no other column of the accounts is dirty.            *)
DebitedBalance(r)  == Stored(seen[r][req[r].src].balance - req[r].amount)
CreditedBalance(r) == Stored(seen[r][req[r].dst].balance + DestinationAmount(r))

NewTransfer(r) ==
    [key |-> req[r].key, caller |-> req[r].caller,
     src |-> req[r].src, dst |-> req[r].dst,
     srcAmount |-> Stored(req[r].amount), dstAmount |-> DestinationAmount(r),
     currency |-> seen[r][req[r].dst].currency, status |-> "completed",
     type |-> "none", fee |-> 0, usd |-> 0, snapshot |-> 0]

(* write_audit_log and the commit at the end of the transaction block make  *)
(* both balances, the transfers row and the audit entry visible at once.    *)
Commit(r) ==
    /\ pc[r] = "commit"
    /\ accounts' = [accounts EXCEPT ![req[r].src].balance = DebitedBalance(r),
                                    ![req[r].dst].balance = CreditedBalance(r)]
    /\ transfers' = [transfers EXCEPT ![r] = NewTransfer(r)]
    /\ audit' = audit \cup {Audit("transfer_completed", r,
                                  {req[r].src, req[r].dst}, Stored(req[r].amount))}
    /\ Release(r)
    /\ GoTo(r, "reply")
    /\ UNCHANGED <<req, attempt, seen, picked, reply, result>>

(* create_transfer of the API answers 201 with the new transfer.            *)
Reply(r) ==
    /\ pc[r] = "reply"
    /\ Respond(r, "created", r)
    /\ UNCHANGED <<tables, locks, req, attempt, seen, picked>>

(* Variant of DeadlockAbort with one retry too many.                        *)
DeadlockAbortOnceMore(r) ==
    /\ pc[r] = "lock_destination"
    /\ Deadlocked(r)
    /\ Rollback(r)
    /\ attempt' = [attempt EXCEPT ![r] = @ + 1]
    /\ GoTo(r, "lookup")
    /\ UNCHANGED <<req, picked, reply, result>>

(* The database aborts a member of a cycle of waits.  retry_on_deadlock     *)
(* runs the handler again from its start, or gives up after MaxRetries.     *)
DeadlockAbort(r) ==
    /\ pc[r] \in {"lock_source", "lock_destination", "insert"}
    /\ Deadlocked(r)
    /\ \/ /\ attempt[r] < MaxRetries
          /\ Rollback(r)
          /\ attempt' = [attempt EXCEPT ![r] = @ + 1]
          /\ GoTo(r, "lookup")
          /\ UNCHANGED <<req, picked, reply, result>>
       \/ /\ attempt[r] = MaxRetries
          /\ Raise(r, "internal_error")

TransferStep(r) ==
    \/ Lookup(r) \/ LockSource(r) \/ LockDestination(r) \/ Check(r)
    \/ Insert(r) \/ Commit(r) \/ Reply(r) \/ DeadlockAbort(r)
===============================================================================
