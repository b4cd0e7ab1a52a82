-------------------------- MODULE TransferRepository --------------------------
(***************************************************************************)
(* The transfers table, shared by the two transfer services: the lookup of  *)
(* an idempotency key, and the insertion under its unique constraint.       *)
(***************************************************************************)
EXTENDS Store

CONSTANTS MaxSnapshots   \* bound on the rows of fx_rate_snapshots

ASSUME MaxSnapshotsAssumption == MaxSnapshots \in Nat

(* `currency' is destination_currency; transfer_type and source_amount_usd  *)
(* are NULL for POST /transfers ("none", and 0 in the sum of the volumes),  *)
(* like sending_fee and fx_snapshot_id.                                     *)
TransferRow == [key: Keys, caller: Callers, src: Numbers, dst: Numbers,
                srcAmount: Nat, dstAmount: Nat, currency: Currencies,
                status: {"pending", "processing", "completed"},
                type: {"none", "cross_currency"},
                fee: Nat, usd: Nat, snapshot: 0 .. MaxSnapshots]

ASSUME NoTransferAssumption == NoRow \notin TransferRow

Posted(t) == transfers[t] # NoRow

RecordOf(k) == {t \in Requests : Posted(t) /\ transfers[t].key = k}

(* Variant of ReplayOr that replays to any caller.                          *)
ReplayOrAnyCaller(r, next) ==
    \/ /\ RecordOf(req[r].key) = {}
       /\ GoTo(r, next)
       /\ UNCHANGED <<tables, locks, req, attempt, seen, picked, reply, result>>
    \/ \E t \in RecordOf(req[r].key) :
          /\ Respond(r, "replayed", t)
          /\ UNCHANGED <<tables, locks, req, attempt, seen, picked>>

(* get_idempotency_record, outside the transaction that follows it.  An     *)
(* existing row answers its caller, whatever the body says and whichever    *)
(* endpoint wrote it: request_hash is not compared.                         *)
ReplayOr(r, next) ==
    \/ /\ RecordOf(req[r].key) = {}
       /\ GoTo(r, next)
       /\ UNCHANGED <<tables, locks, req, attempt, seen, picked, reply, result>>
    \/ \E t \in RecordOf(req[r].key) :
          /\ transfers[t].caller = req[r].caller
          /\ Respond(r, "replayed", t)
          /\ UNCHANGED <<tables, locks, req, attempt, seen, picked>>
    \/ /\ \E t \in RecordOf(req[r].key) : transfers[t].caller # req[r].caller
       /\ Raise(r, "conflict")

(* Variant of InsertUnique on a table without the unique constraint.        *)
InsertAnyway(r, next) ==
    /\ keyHolder' = [keyHolder EXCEPT ![req[r].key] = r]
    /\ GoTo(r, next)
    /\ UNCHANGED <<tables, lock, req, attempt, seen, picked, reply, result>>

(* session.add and flush: the unique index on idempotency_key makes the     *)
(* INSERT wait for an uncommitted duplicate and fail on a committed one;    *)
(* nothing catches the IntegrityError, so the generic handler answers 500.  *)
InsertUnique(r, next) ==
    /\ keyHolder[req[r].key] = Nobody
    /\ \/ /\ RecordOf(req[r].key) # {}
          /\ Raise(r, "internal_error")
       \/ /\ RecordOf(req[r].key) = {}
          /\ keyHolder' = [keyHolder EXCEPT ![req[r].key] = r]
          /\ GoTo(r, next)
          /\ UNCHANGED <<tables, lock, req, attempt, seen, picked, reply, result>>
===============================================================================
