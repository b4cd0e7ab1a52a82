-------------------------------- MODULE Ledger --------------------------------
(***************************************************************************)
(* What the service promises of its tables, without requests, locks,        *)
(* sessions, retries or crashes: accounts are opened and closed, transfers  *)
(* are posted one at a time and whole, and every change of the tables is    *)
(* recorded in the audit log in the same step.  A cross-currency transfer   *)
(* also delivers its notifications in that step, and is posted at the rate  *)
(* of a published snapshot, whose rates never change.                       *)
(***************************************************************************)
EXTENDS FxPolicy, Sequences

CONSTANTS Requests, Numbers, Keys, Callers, Amounts, OpeningBalances,
          Nobody, NoRow, Anonymized, InitialAccounts

VARIABLES accounts, transfers, audit, snapshots, notifications

ledger == <<accounts, transfers, audit, snapshots, notifications>>

Entry(op, r, on, amount) == [op |-> op, by |-> r, on |-> on, amount |-> amount]

Init ==
    /\ accounts \in InitialAccounts
    /\ transfers = [r \in Requests |-> NoRow]
    /\ audit = {Entry("account_created", Nobody, {n}, accounts[n].balance) :
                   n \in {m \in Numbers : accounts[m] # NoRow}}
    /\ snapshots = <<>>
    /\ notifications = {}

Open(r, n, row) ==
    /\ accounts[n] = NoRow
    /\ accounts' = [accounts EXCEPT ![n] = row]
    /\ audit' = audit \cup {Entry("account_created", r, {n}, row.balance)}
    /\ UNCHANGED <<transfers, snapshots, notifications>>

(* Closing changes neither the balance nor the currency of the account.     *)
Close(r, n) ==
    /\ accounts[n] # NoRow
    /\ accounts' = [accounts EXCEPT ![n].status = "closed", ![n].owner = Anonymized]
    /\ audit' = audit \cup {Entry("account_deleted", r, {n}, 0)}
    /\ UNCHANGED <<transfers, snapshots, notifications>>

IsActive(n) == accounts[n] # NoRow /\ accounts[n].status = "active"

(* A transfer is posted under a key that no posted transfer has, between    *)
(* two active accounts, covered by the source and within its maximum.       *)
Post(r, key, caller, src, dst, amount) ==
    LET rate   == GetRate(accounts[src].currency, accounts[dst].currency)
        credit == Converted(amount, rate)
    IN  /\ transfers[r] = NoRow
        /\ \A t \in Requests : transfers[t] # NoRow => transfers[t].key # key
        /\ src # dst /\ IsActive(src) /\ IsActive(dst)
        /\ HasRate(accounts[src].currency, accounts[dst].currency)
        /\ 0 < amount /\ amount <= accounts[src].balance
        /\ amount <= MaxTransfer[accounts[src].currency]
        /\ accounts' = [accounts EXCEPT
              ![src].balance = Stored(accounts[src].balance - amount),
              ![dst].balance = Stored(accounts[dst].balance + credit)]
        /\ transfers' = [transfers EXCEPT ![r] =
              [key |-> key, caller |-> caller, src |-> src, dst |-> dst,
               srcAmount |-> Stored(amount), dstAmount |-> credit,
               currency |-> accounts[dst].currency, status |-> "completed",
               type |-> "none", fee |-> 0, usd |-> 0, snapshot |-> 0]]
        /\ audit' = audit \cup {Entry("transfer_completed", r, {src, dst}, Stored(amount))}
        /\ UNCHANGED <<snapshots, notifications>>

(* A cross-currency transfer is posted by the owner of the source, from its *)
(* currency, at the rate of snapshot s, covered with its sending fee.       *)
PostCross(r, key, caller, src, dst, amount, from, to, s) ==
    LET rates == snapshots[s].rates
        net   == NetAmount(amount, rates[<<from, to>>])
        usd   == AmountInUsd(amount, from, rates)
        left  == Stored(accounts[src].balance - TotalSenderCost(amount))
        note(n, way) == [transfer |-> r, recipient |-> n, direction |-> way, amount |-> net]
        told  == IF src = dst THEN {} ELSE {note(src, "sent"), note(dst, "received")}
    IN  /\ transfers[r] = NoRow
        /\ \A t \in Requests : transfers[t] # NoRow => transfers[t].key # key
        /\ IsActive(src) /\ IsActive(dst)
        /\ accounts[src].owner = caller /\ accounts[src].currency = from
        /\ <<from, to>> \in ActivePairs \cap DOMAIN rates
        /\ 0 < amount /\ TotalSenderCost(amount) <= accounts[src].balance
        /\ usd <= LimitPerTxUsd
        /\ accounts' = [accounts EXCEPT
              ![src].balance = left,
              ![dst].balance = Stored((IF dst = src THEN left ELSE accounts[dst].balance) + net)]
        /\ transfers' = [transfers EXCEPT ![r] =
              [key |-> key, caller |-> caller, src |-> src, dst |-> dst,
               srcAmount |-> Stored(amount), dstAmount |-> net, currency |-> to,
               status |-> "completed", type |-> "cross_currency",
               fee |-> SendingFee(amount), usd |-> usd, snapshot |-> s]]
        /\ notifications' = notifications \cup told
        /\ audit' = audit
              \cup {Entry("cross_currency_transfer_initiated", r, {src, dst}, Stored(amount)),
                    Entry("cross_currency_transfer_completed", r, {src, dst}, Stored(amount))}
              \cup {Entry("notification_delivered", r, {n.recipient}, n.amount) : n \in told}
              \cup (IF usd < AmlThresholdUsd THEN {}
                    ELSE {Entry("aml_kyc_screening_triggered", r, {src, dst}, usd)})
        /\ UNCHANGED snapshots

Publish(f) ==
    /\ snapshots' = Append(snapshots, [stale |-> FALSE, rates |-> f])
    /\ UNCHANGED <<accounts, transfers, audit, notifications>>

Withdraw(s) ==
    /\ snapshots' = [snapshots EXCEPT ![s].stale = TRUE]
    /\ UNCHANGED <<accounts, transfers, audit, notifications>>

(* That the row appears follows from Post and PostCross; saying it first    *)
(* spares the search for their parameters.                                  *)
PostSome(r) ==
    /\ transfers'[r] # transfers[r]
    /\ \E k \in Keys, c \in Callers, n, d \in Numbers, a \in Amounts :
          \/ Post(r, k, c, n, d, a)
          \/ \E from, to \in Currencies, s \in DOMAIN snapshots :
                PostCross(r, k, c, n, d, a, from, to, s)

Next ==
    \/ \E r \in Requests, n \in Numbers :
          \/ \E c \in Currencies, b \in OpeningBalances, o \in Callers :
                Open(r, n, [status |-> "active", balance |-> b, currency |-> c, owner |-> o])
          \/ Close(r, n)
    \/ \E r \in Requests : PostSome(r)
    \/ \E f \in FeedRates : Publish(f)
    \/ \E s \in DOMAIN snapshots : Withdraw(s)

Spec == Init /\ [][Next]_ledger
===============================================================================
