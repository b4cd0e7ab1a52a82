----------------------------- MODULE FundTransfer -----------------------------
(***************************************************************************)
(* The whole service: handlers of accounts, of transfers (specs/001) and of *)
(* cross-currency transfers (specs/002) running concurrently over one       *)
(* database, with crashes, while the table of rate snapshots changes.       *)
(***************************************************************************)
EXTENDS TransferService, AccountService, CrossCurrencyTransferService

vars == <<storeVars, fx>>

Init == StoreInit /\ CrossInit

(* No request is left to handle; the server only waits.                     *)
Quiescent ==
    /\ \A r \in Requests : pc[r] = "done"
    /\ UNCHANGED vars

Arrive(r) ==
    \/ (CreateTransfer(r) \/ CreateAccount(r) \/ DeleteAccount(r)) /\ UNCHANGED fx
    \/ CreateCrossCurrencyTransfer(r)

Step(r) ==
    \/ (TransferStep(r) \/ AccountStep(r)) /\ UNCHANGED fx
    \/ CrossStep(r)

Lose(r) == Crash(r) /\ UNCHANGED fx

Next ==
    \/ \E r \in Requests : Arrive(r) \/ Step(r) \/ Lose(r)
    \/ InsertSnapshot \/ MarkStale \/ Elapse
    \/ Quiescent

(* Every statement of a handler returns once nothing blocks it, and the     *)
(* database ends every cycle of waits: nothing makes a request arrive, a    *)
(* connection break, a snapshot appear or a day pass.                       *)
Spec == Init /\ [][Next]_vars /\ \A r \in Requests : WF_vars(Step(r))
-----------------------------------------------------------------------------
Body == TransferBody \cup CreateBody \cup DeleteBody \cup CrossBody

AuditEntry == [op: DOMAIN OperationTypeLength,
               by: Requests \cup {Nobody}, on: SUBSET Numbers, amount: Int]

MaxAttempts == IF MaxRetries > MaxPicks THEN MaxRetries ELSE MaxPicks

(* The variables keep the shape the code's tables and sessions have, and    *)
(* no retry loop runs more often than it is allowed to.                     *)
TypeOK ==
    /\ accounts \in AccountTable
    /\ transfers \in [Requests -> TransferRow \cup {NoRow}]
    /\ audit \subseteq AuditEntry
    /\ lock \in [Numbers -> Requests \cup {Nobody}]
    /\ keyHolder \in [Keys -> Requests \cup {Nobody}]
    /\ req \in [Requests -> Body \cup {NoRow}]
    /\ pc \in [Requests -> {"idle", "lookup", "lock_source", "lock_destination",
                            "insert", "commit", "reply", "refuse", "pick_number",
                            "insert_account", "commit_account", "load_account",
                            "lock_account", "commit_close", "replied", "check",
                            "capacity", "cross_lookup", "latest", "preview",
                            "cross_lock_source", "cross_lock_destination",
                            "cross_check", "cross_insert", "pending", "processing",
                            "completed", "cross_reply", "done"}]
    /\ attempt \in [Requests -> 0 .. MaxAttempts]
    /\ seen \in [Requests -> AccountTable]
    /\ picked \in [Requests -> Numbers \cup {NoRow}]
    /\ reply \in [Requests -> {"none", "created", "replayed", "deleted", "not_found",
                               "conflict", "limit_exceeded", "insufficient_funds",
                               "unsupported_currency", "account_has_balance",
                               "forbidden", "capacity_exceeded", "stale_rate",
                               "rate_deviation", "internal_error", "lost"}]
    /\ result \in [Requests -> Requests \cup {Nobody}]
    /\ snapshots \in Seq(SnapshotRow) /\ Len(snapshots) <= MaxSnapshots
    /\ notifications \subseteq Notification
    /\ quote \in [Requests -> 0 .. MaxSnapshots]
    /\ recent \subseteq Requests

(* Two posted transfers never share an idempotency key, although the lookup *)
(* of the key and the insertion of the row are separate statements and the  *)
(* handler may run several times (TransferService.execute_transfer).        *)
AtMostOncePerKey ==
    \A t, u \in Requests :
        Posted(t) /\ Posted(u) /\ transfers[t].key = transfers[u].key => t = u

(* From the second lock to the commit the objects a transfer computes with  *)
(* are the committed rows, both active: absolute balances written from them *)
(* lose no update (SELECT ... FOR UPDATE of both transfer services).        *)
ComputesOnCurrentRows ==
    \A r \in Requests : pc[r] \in {"check", "insert", "commit", "cross_check",
                                  "cross_insert", "pending", "processing", "completed"} =>
        \A n \in {req[r].src, req[r].dst} :
            seen[r][n] = accounts[n] /\ IsActive(accounts[n])

(* No interleaving of transfers overdraws an account.                       *)
NoOverdraft ==
    \A n \in Numbers : accounts[n] # NoRow => accounts[n].balance >= 0

Opened(n)   == {e \in audit : e.op = "account_created" /\ e.on = {n}}
Credited(n) == {t \in Requests : Posted(t) /\ transfers[t].dst = n}
Debited(n)  == {t \in Requests : Posted(t) /\ transfers[t].src = n}

Opening(n) == SumFunction([e \in Opened(n) |-> e.amount])
Credits(n) == SumFunction([t \in Credited(n) |-> transfers[t].dstAmount])
Debits(n)  == SumFunction([t \in Debited(n) |-> transfers[t].srcAmount + transfers[t].fee])

(* Every balance is the opening balance in the audit log plus what the      *)
(* posted transfers credited less what they debited: balances, transfers    *)
(* and audit log never disagree, crashes and retries included.              *)
Reconciled ==
    \A n \in Numbers : accounts[n] # NoRow =>
        accounts[n].balance = Opening(n) + Credits(n) - Debits(n)

(* A response that shows a transfer shows a committed one, with the key and *)
(* the caller of the request; all such responses for one key show the same. *)
ResponsesAgree ==
    \A r \in Requests : reply[r] \in {"created", "replayed"} /\ req[r].kind # "create" =>
        /\ Posted(result[r])
        /\ transfers[result[r]].key = req[r].key
        /\ transfers[result[r]].caller = req[r].caller
        /\ \A q \in Requests :
              /\ reply[q] \in {"created", "replayed"}
              /\ req[q].kind # "create"
              /\ req[q].key = req[r].key
              => result[q] = result[r]

(* What only a request that succeeds may record.                            *)
DoneOps == {"account_created", "account_deleted", "transfer_completed",
            "cross_currency_transfer_completed", "notification_delivered"}

(* A request refused with an error has done nothing, at whichever statement *)
(* it failed: no transfers row holds its key, nobody is told of a transfer  *)
(* and no audit entry tells of one (get_session rolls back; FR-012: a       *)
(* failed transfer moves no funds).  Whether the refusal itself is recorded *)
(* is left open.                                                            *)
RefusedDidNothing ==
    \A r \in Requests :
        reply[r] \notin {"none", "created", "deleted", "replayed", "lost"} =>
            /\ ~ Posted(r)
            /\ \A n \in notifications : n.transfer # r
            /\ \A e \in audit : e.by = r => e.op \notin DoneOps

(* A posted cross-currency transfer is completed and has left, in the same  *)
(* commit, its audit entries, its screening if it needs one, and a          *)
(* notification to each side; no notification is without its transfer       *)
(* (CrossCurrencyTransferService.initiate, crashes included).               *)
CompletionIsWhole ==
    /\ \A t \in Requests : Posted(t) /\ transfers[t].type = "cross_currency" =>
          LET row == transfers[t]
              ops == {e.op : e \in {x \in audit : x.by = t}}
              told == {<<n.recipient, n.direction>> : n \in {x \in notifications : x.transfer = t}}
          IN  /\ row.status = "completed"
              /\ {"cross_currency_transfer_initiated",
                  "cross_currency_transfer_completed"} \subseteq ops
              /\ "aml_kyc_screening_triggered" \in ops <=> row.usd >= AmlThresholdUsd
              /\ row.src # row.dst => told = {<<row.src, "sent">>, <<row.dst, "received">>}
    /\ \A n \in notifications : Posted(n.transfer) /\ transfers[n.transfer].dstAmount = n.amount

(* The transfers of one account that count for the rolling 24 hours stay    *)
(* within the limit, although the volume is read before the row is written  *)
(* (_check_transfer_limits).                                                *)
DailyLimitKept == \A n \in Numbers : DailyVolume(n) <= LimitPerDayUsd

(* The rate a cross-currency transfer was posted at is within the threshold *)
(* of the rate the client had previewed, and the credit is what that rate   *)
(* gives, whatever became of the snapshots while the handler waited for its *)
(* locks (_check_rate_deviation).                                           *)
RateWasConfirmed ==
    \A t \in Requests : Posted(t) /\ transfers[t].type = "cross_currency" =>
        LET used == snapshots[transfers[t].snapshot].rates[Pair(t)]
        IN  /\ ~ Deviates(PreviewRates(t)[Pair(t)], used)
            /\ transfers[t].dstAmount = NetAmount(req[t].amount, used)

(* Every request that arrives is answered, whatever it waits for: cycles of *)
(* waits are broken and the retries are bounded (retry_on_deadlock).        *)
Answered == \A r \in Requests : InFlight(r) ~> pc[r] = "done"

L == INSTANCE Ledger

(* The committed tables move only as the abstract ledger allows.            *)
ImplementsLedger == L!Spec
-----------------------------------------------------------------------------
(* A statement of the repository's documents that the code does not keep.   *)

(* An account is closed only with a zero balance (specs/001 FR-007).        *)
(* delete_account tests the object its session loaded before the lock.      *)
ClosedAccountsAreEmpty ==
    \A n \in Numbers :
        accounts[n] # NoRow /\ accounts[n].status = "closed" => accounts[n].balance = 0
===============================================================================
