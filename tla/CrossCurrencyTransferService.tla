--------------------- MODULE CrossCurrencyTransferService ---------------------
(***************************************************************************)
(* CrossCurrencyTransferService.initiate behind POST                        *)
(* /transfers/cross-currency, with the capacity check of its route, the     *)
(* snapshots of FxRateRepository and the rows of NotificationService:       *)
(*                                                                          *)
(*   capacity -> cross_lookup -> latest -> preview -> cross_lock_source     *)
(*     -> cross_lock_destination -> cross_check -> cross_insert -> pending  *)
(*     -> processing -> completed -> cross_reply                            *)
(*                                                                          *)
(* The last four but one are the status of the transfers row inside the     *)
(* open transaction.  There is no retry: a deadlock answers 500.            *)
(***************************************************************************)
EXTENDS TransferRepository, Sequences, Functions

CONSTANTS
    Capacity,            \* open transfers above which the route refuses (500)
    OperationTypeWidth   \* width of audit_log.operation_type (30)

ASSUME CapacityAssumption == Capacity \in Nat

VARIABLES
    snapshots,       \* table fx_rate_snapshots, oldest first; the id is the index
    notifications,   \* table notifications
    quote,           \* request -> id of current_snapshot, 0 before it is read
    recent           \* transfers whose created_at is in the last 24 hours

fx == <<snapshots, notifications, quote, recent>>

SnapshotRow == [stale: BOOLEAN, rates: FeedRates]

(* CrossCurrencyTransferRequest has no validator; amounts are taken to be   *)
(* positive, as data-model.md of specs/001 says of source_amount.           *)
CrossBody ==
    {b \in [kind: {"cross"}, src: Numbers, dst: Numbers, amount: Amounts,
            from: Currencies, to: Currencies, snapshot: 1 .. MaxSnapshots,
            key: Keys, caller: Callers] : b.amount > 0}

Notification == [transfer: Requests, recipient: Numbers, direction: {"sent", "received"},
                 amount: Int]

CrossInit ==
    /\ snapshots = <<>>
    /\ notifications = {}
    /\ quote = [r \in Requests |-> 0]
    /\ recent = {}
-----------------------------------------------------------------------------
(* insert_snapshot; no code of the repository calls it or mark_stale, so    *)
(* whatever feeds the table may do so at any time.                          *)
InsertSnapshot ==
    /\ Len(snapshots) < MaxSnapshots
    /\ \E f \in FeedRates :
          snapshots' = Append(snapshots, [stale |-> FALSE, rates |-> f])
    /\ UNCHANGED <<storeVars, notifications, quote, recent>>

MarkStale ==
    /\ \E s \in DOMAIN snapshots :
          /\ ~ snapshots[s].stale
          /\ snapshots' = [snapshots EXCEPT ![s].stale = TRUE]
    /\ UNCHANGED <<storeVars, notifications, quote, recent>>

(* The 24 hours of a transfer are over.  created_at is the start of its     *)
(* transaction, so the order of the commits says nothing.                   *)
Elapse ==
    /\ \E t \in recent : recent' = recent \ {t}
    /\ UNCHANGED <<storeVars, snapshots, notifications, quote>>

(* get_latest_snapshot returns s: the newest one that is not stale.         *)
IsLatest(s) ==
    /\ s \in DOMAIN snapshots
    /\ ~ snapshots[s].stale
    /\ \A u \in DOMAIN snapshots : u > s => snapshots[u].stale
-----------------------------------------------------------------------------
CreateCrossCurrencyTransfer(r) ==
    /\ \E b \in Workload \cap CrossBody : Receive(r, b, "capacity")
    /\ UNCHANGED fx

(* Rows that are committed as pending or processing.                        *)
OpenTransfers ==
    {t \in Requests : Posted(t) /\ transfers[t].status \in {"pending", "processing"}}

CheckCapacity(r) ==
    /\ pc[r] = "capacity"
    /\ \/ /\ Cardinality(OpenTransfers) >= Capacity
          /\ Raise(r, "capacity_exceeded")
       \/ /\ Cardinality(OpenTransfers) < Capacity
          /\ GoTo(r, "cross_lookup")
          /\ UNCHANGED <<tables, locks, req, attempt, seen, picked, reply, result>>
    /\ UNCHANGED fx

CrossLookup(r) ==
    /\ pc[r] = "cross_lookup"
    /\ ReplayOr(r, "latest")
    /\ UNCHANGED fx

ReadLatest(r) ==
    /\ pc[r] = "latest"
    /\ \/ /\ \A s \in DOMAIN snapshots : snapshots[s].stale
          /\ Raise(r, "stale_rate")
          /\ UNCHANGED fx
       \/ /\ \E s \in DOMAIN snapshots :
                IsLatest(s) /\ quote' = [quote EXCEPT ![r] = s]
          /\ GoTo(r, "preview")
          /\ UNCHANGED <<tables, locks, req, attempt, seen, picked, reply, result,
                         snapshots, notifications, recent>>

(* The snapshot the client previewed; the session does not reload the one   *)
(* it has just read.  _ensure_active_pair follows.                          *)
PreviewUsable(r) ==
    \/ req[r].snapshot = quote[r]
    \/ req[r].snapshot \in DOMAIN snapshots /\ ~ snapshots[req[r].snapshot].stale

ReadPreview(r) ==
    /\ pc[r] = "preview"
    /\ \/ /\ ~ PreviewUsable(r)
          /\ Raise(r, "stale_rate")
       \/ /\ PreviewUsable(r)
          /\ <<req[r].from, req[r].to>> \notin ActivePairs
          /\ Raise(r, "unsupported_currency")
       \/ /\ PreviewUsable(r)
          /\ <<req[r].from, req[r].to>> \in ActivePairs
          /\ GoTo(r, "cross_lock_source")
          /\ UNCHANGED <<tables, locks, req, attempt, seen, picked, reply, result>>
    /\ UNCHANGED fx

CrossLockSource(r) ==
    /\ pc[r] = "cross_lock_source"
    /\ LockActive(r, req[r].src, "cross_lock_destination")
    /\ UNCHANGED fx

CrossLockDestination(r) ==
    /\ pc[r] = "cross_lock_destination"
    /\ LockActive(r, req[r].dst, "cross_check")
    /\ UNCHANGED fx
-----------------------------------------------------------------------------
PreviewRates(r) == snapshots[req[r].snapshot].rates
CurrentRates(r) == snapshots[quote[r]].rates
Pair(r)         == <<req[r].from, req[r].to>>
CurrentRate(r)  == CurrentRates(r)[Pair(r)]
AmountUsd(r)    == AmountInUsd(req[r].amount, req[r].from, CurrentRates(r))

(* get_daily_transfer_volume_usd.                                           *)
DailyVolume(n) ==
    LET counted == {t \in recent : /\ transfers[t].src = n
                                   /\ transfers[t].status \in {"completed", "processing"}}
    IN  SumFunction([t \in counted |-> transfers[t].usd])

OverLimit(r) ==
    \/ AmountUsd(r) > LimitPerTxUsd
    \/ DailyVolume(req[r].src) + AmountUsd(r) > LimitPerDayUsd

(* Variant of RateMoved without the absolute value.                         *)
RateFell(r) ==
    /\ CurrentRate(r) < PreviewRates(r)[Pair(r)]
    /\ Deviates(PreviewRates(r)[Pair(r)], CurrentRate(r))

(* The rate has moved too far since the preview.                            *)
RateMoved(r) == Deviates(PreviewRates(r)[Pair(r)], CurrentRate(r))

(* Variant of CoversCost that forgets the sending fee.                      *)
CoversAmount(r) == seen[r][req[r].src].balance >= req[r].amount

CoversCost(r) == seen[r][req[r].src].balance >= TotalSenderCost(req[r].amount)

(* What the checks between the locks and the first write decide.            *)
CrossVerdict(r) ==
    LET source == seen[r][req[r].src]
    IN  IF source.owner # req[r].caller THEN "forbidden"
        ELSE IF \/ source.currency # req[r].from
                \/ Pair(r) \notin DOMAIN PreviewRates(r)
                \/ Pair(r) \notin DOMAIN CurrentRates(r) THEN "unsupported_currency"
        ELSE IF RateMoved(r) THEN "rate_deviation"
        ELSE IF ~ HasUsdRate(req[r].from, CurrentRates(r)) THEN "unsupported_currency"
        ELSE IF OverLimit(r) THEN "limit_exceeded"
        ELSE IF ~ CoversCost(r) THEN "insufficient_funds"
        ELSE "ok"

(* Variant of NewNotifications that tells only the receiver.                *)
NewNotificationsReceiver(r) ==
    {[transfer |-> r, recipient |-> req[r].dst, direction |-> "received",
      amount |-> NetAmount(req[r].amount, CurrentRate(r))]}

(* create_transfer_notifications; a transfer to the same account has none.  *)
NewNotifications(r) ==
    LET new(n, direction) == [transfer |-> r, recipient |-> n, direction |-> direction,
                              amount |-> NetAmount(req[r].amount, CurrentRate(r))]
    IN  IF req[r].src = req[r].dst THEN {}
        ELSE {new(req[r].src, "sent"), new(req[r].dst, "received")}

(* Variant of CrossCheck: the parties are told in a session of their own,   *)
(* before the checks.                                                       *)
CrossCheckTellFirst(r) ==
    /\ pc[r] = "cross_check"
    /\ notifications' = notifications \cup
          IF Pair(r) \in DOMAIN CurrentRates(r) THEN NewNotifications(r) ELSE {}
    /\ \/ /\ CrossVerdict(r) # "ok"
          /\ Raise(r, CrossVerdict(r))
       \/ /\ CrossVerdict(r) = "ok"
          /\ GoTo(r, "cross_insert")
          /\ UNCHANGED <<tables, locks, req, attempt, seen, picked, reply, result>>
    /\ UNCHANGED <<snapshots, quote, recent>>

CrossCheck(r) ==
    /\ pc[r] = "cross_check"
    /\ \/ /\ CrossVerdict(r) # "ok"
          /\ Raise(r, CrossVerdict(r))
       \/ /\ CrossVerdict(r) = "ok"
          /\ GoTo(r, "cross_insert")
          /\ UNCHANGED <<tables, locks, req, attempt, seen, picked, reply, result>>
    /\ UNCHANGED fx
-----------------------------------------------------------------------------
OperationTypeLength ==
    [account_created |-> 15, account_deleted |-> 15, transfer_completed |-> 18,
     cross_currency_transfer_initiated |-> 33, cross_currency_transfer_completed |-> 33,
     notification_delivered |-> 22, aml_kyc_screening_triggered |-> 27]

(* PostgreSQL refuses a longer value for a VARCHAR(n) column.               *)
Fits(op) == OperationTypeLength[op] <= OperationTypeWidth

(* create_cross_currency_transfer: the row, pending, and its audit entry.   *)
CrossInsert(r) ==
    /\ pc[r] = "cross_insert"
    /\ \/ /\ Fits("cross_currency_transfer_initiated")
          /\ InsertUnique(r, "pending")
       \/ /\ ~ Fits("cross_currency_transfer_initiated")
          /\ keyHolder[req[r].key] = Nobody
          /\ Raise(r, "internal_error")
    /\ UNCHANGED fx

AllowedTransitions ==
    [pending |-> {"processing", "failed"}, processing |-> {"completed", "failed"},
     completed |-> {}, failed |-> {}, rejected |-> {}]

(* update_transfer_status on the row of the open transaction.               *)
UpdateTransferStatus(r, new) ==
    /\ pc[r] \in {"pending", "processing"}
    /\ new \in AllowedTransitions[pc[r]]
    /\ GoTo(r, new)
    /\ UNCHANGED <<tables, locks, req, attempt, seen, picked, reply, result, fx>>

Process(r)  == UpdateTransferStatus(r, "processing")
Complete(r) == UpdateTransferStatus(r, "completed")
-----------------------------------------------------------------------------

(* When source and destination are the same row, they are the same object.  *)
CrossBalances(r) ==
    LET src == req[r].src
        dst == req[r].dst
        left == Stored(seen[r][src].balance - TotalSenderCost(req[r].amount))
        before == IF dst = src THEN left ELSE seen[r][dst].balance
    IN  [accounts EXCEPT ![src].balance = left,
                         ![dst].balance = Stored(before + NetAmount(req[r].amount, CurrentRate(r)))]

CrossTransfer(r) ==
    [key |-> req[r].key, caller |-> req[r].caller,
     src |-> req[r].src, dst |-> req[r].dst,
     srcAmount |-> Stored(req[r].amount), dstAmount |-> NetAmount(req[r].amount, CurrentRate(r)),
     currency |-> req[r].to, status |-> pc[r], type |-> "cross_currency",
     fee |-> SendingFee(req[r].amount), usd |-> AmountUsd(r), snapshot |-> quote[r]]

DeliveryAudit(r) ==
    {Audit("notification_delivered", r, {n.recipient}, n.amount) : n \in NewNotifications(r)}

(* The audit entries of the transaction: initiated, completed, one for each *)
(* notification, and the screening of _aml_kyc_check.                       *)
CrossAudit(r) ==
    LET both == {req[r].src, req[r].dst}
    IN  {Audit("cross_currency_transfer_initiated", r, both, Stored(req[r].amount)),
         Audit("cross_currency_transfer_completed", r, both, Stored(req[r].amount))}
        \cup DeliveryAudit(r)
        \cup (IF AmountUsd(r) < AmlThresholdUsd THEN {}
              ELSE {Audit("aml_kyc_screening_triggered", r, both, AmountUsd(r))})

(* The end of the transaction block.                                        *)
CrossCommit(r) ==
    /\ pc[r] = "completed"
    /\ accounts' = CrossBalances(r)
    /\ transfers' = [transfers EXCEPT ![r] = CrossTransfer(r)]
    /\ audit' = audit \cup CrossAudit(r)
    /\ notifications' = notifications \cup NewNotifications(r)
    /\ recent' = recent \cup {r}
    /\ Release(r)
    /\ GoTo(r, "cross_reply")
    /\ UNCHANGED <<req, attempt, seen, picked, reply, result, snapshots, quote>>

CrossReply(r) ==
    /\ pc[r] = "cross_reply"
    /\ Respond(r, "created", r)
    /\ UNCHANGED <<tables, locks, req, attempt, seen, picked, fx>>

(* Nothing catches the database's error.                                    *)
CrossDeadlockAbort(r) ==
    /\ pc[r] \in {"cross_lock_source", "cross_lock_destination", "cross_insert"}
    /\ Deadlocked(r)
    /\ Raise(r, "internal_error")
    /\ UNCHANGED fx

CrossStep(r) ==
    \/ CheckCapacity(r) \/ CrossLookup(r) \/ ReadLatest(r) \/ ReadPreview(r)
    \/ CrossLockSource(r) \/ CrossLockDestination(r) \/ CrossCheck(r)
    \/ CrossInsert(r) \/ Process(r) \/ Complete(r) \/ CrossCommit(r)
    \/ CrossReply(r) \/ CrossDeadlockAbort(r)
===============================================================================
