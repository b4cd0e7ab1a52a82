----------------------------- MODULE LedgerProofs -----------------------------
(***************************************************************************)
(* What the tables of the service satisfy because they move only as the     *)
(* abstract ledger allows.  The refinement is proved; here its consequences *)
(* for the books: every balance is explained by the audit log and the       *)
(* posted transfers.                                                        *)
(***************************************************************************)
EXTENDS FundTransferProofs

(* Amounts of at most four decimals.                                        *)
WholeAmounts == \A a \in Amounts : a % Quantum = 0

(* Accounts that are not there have left no trace, the others were opened   *)
(* once and hold a stored value.                                            *)
BooksOK ==
    /\ \A n \in Numbers : accounts[n] = NoRow =>
          Opened(n) = {} /\ Credited(n) = {} /\ Debited(n) = {}
    /\ \A n \in Numbers : accounts[n] # NoRow =>
          Whole(accounts[n].balance) /\ \E e \in audit : Opened(n) = {e}
    /\ Reconciled

(* The sums are integers.                                                   *)
LEMMA SumsAreIntegers ==
  ASSUME IInv, BooksOK, NEW n \in Numbers, accounts[n] # NoRow
  PROVE  /\ Opening(n) \in Int /\ Credits(n) \in Int /\ Debits(n) \in Int
         /\ accounts[n].balance \in Nat
  <1>1. accounts[n].balance \in Nat
    BY WholeFacts DEF BooksOK
  <1>2. Opening(n) \in Int
    <2>1. PICK e \in audit : Opened(n) = {e}
      BY DEF BooksOK
    <2>2. e.amount \in Int
      BY DEF IInv, TypeOK, AuditEntry
    <2> DEFINE g == [x \in Opened(n) |-> x.amount]
    <2>3. DOMAIN g = {e} /\ g[e] = e.amount
      BY <2>1
    <2> HIDE DEF g
    <2>4. SumFunction(g) = e.amount
      BY <2>2, <2>3, SumOfOne
    <2> QED
      BY <2>2, <2>4 DEF Opening, g
  <1>3. ASSUME NEW S \in SUBSET Requests, NEW f, DOMAIN f = S, \A t \in S : f[t] \in Nat
        PROVE  SumFunction(f) \in Int
    BY <1>3, SumNat, FS_Subset, RequestsAssumption DEF SumFunction
  <1>4. Credits(n) \in Int
    <2> DEFINE f == [t \in Credited(n) |-> transfers[t].dstAmount]
    <2>1. DOMAIN f = Credited(n) /\ \A t \in Credited(n) : f[t] \in Nat
      BY DEF Credited, Posted, IInv, TypeOK, TransferRow
    <2>2. Credited(n) \in SUBSET Requests
      BY DEF Credited
    <2> HIDE DEF f
    <2> QED
      BY <1>3, <2>1, <2>2 DEF Credits, f
  <1>5. Debits(n) \in Int
    <2> DEFINE f == [t \in Debited(n) |-> transfers[t].srcAmount + transfers[t].fee]
    <2>1. DOMAIN f = Debited(n) /\ \A t \in Debited(n) : f[t] \in Nat
      BY DEF Debited, Posted, IInv, TypeOK, TransferRow
    <2>2. Debited(n) \in SUBSET Requests
      BY DEF Debited
    <2> HIDE DEF f
    <2> QED
      BY <1>3, <2>1, <2>2 DEF Debits, f
  <1> QED
    BY <1>1, <1>2, <1>4, <1>5

(* The sums after a transfer was posted.                                    *)
LEMMA SumsAfterPosting ==
  ASSUME IInv, IInv', BooksOK, NEW r \in Requests, NEW n \in Numbers, accounts[n] # NoRow,
         NEW row \in TransferRow, transfers[r] = NoRow,
         transfers' = [transfers EXCEPT ![r] = row], Opened(n)' = Opened(n)
  PROVE  /\ Opening(n)' = Opening(n)
         /\ Credits(n)' = Credits(n) + (IF row.dst = n THEN row.dstAmount ELSE 0)
         /\ Debits(n)' = Debits(n) + (IF row.src = n THEN row.srcAmount + row.fee ELSE 0)
  <1>1. Opening(n)' = Opening(n)
    BY DEF Opening
  <1>2. /\ transfers'[r] = row /\ row # NoRow
        /\ \A t \in Requests \ {r} : transfers'[t] = transfers[t]
        /\ row.dstAmount \in Nat /\ row.srcAmount \in Nat /\ row.fee \in Nat
    BY NoTransferAssumption DEF IInv, TypeOK, TransferRow
  <1>3. Credits(n)' = Credits(n) + (IF row.dst = n THEN row.dstAmount ELSE 0)
    <2> DEFINE f == [t \in Credited(n) |-> transfers[t].dstAmount]
               g == [t \in Credited(n)' |-> transfers'[t].dstAmount]
    <2>1. CASE row.dst = n
      <3>1. Credited(n)' = Credited(n) \cup {r} /\ r \notin Credited(n)
        BY <1>2, <2>1 DEF Credited, Posted
      <3>2. /\ DOMAIN f = Credited(n) /\ DOMAIN g = Credited(n) \cup {r}
            /\ \A t \in Credited(n) : f[t] \in Int /\ g[t] = f[t]
            /\ g[r] = row.dstAmount /\ g[r] \in Int
        BY <1>2, <3>1, SMTT(30) DEF IInv, TypeOK, TransferRow, Credited, Posted
      <3>3. IsFiniteSet(Credited(n))
        BY RequestsAssumption, FS_Subset DEF Credited
      <3> DEFINE S == Credited(n)
      <3> HIDE DEF f, g, S
      <3>6. /\ IsFiniteSet(S) /\ r \notin S /\ DOMAIN f = S /\ DOMAIN g = S \cup {r}
            /\ \A t \in S : f[t] \in Int /\ g[t] = f[t]
            /\ g[r] \in Int
        BY <3>1, <3>2, <3>3 DEF S
      <3>4. SumFunction(g) = SumFunction(f) + g[r]
        BY <3>6, SumExtended
      <3> QED
        BY <2>1, <3>2, <3>4 DEF Credits, f, g
    <2>2. CASE row.dst # n
      <3>1. Credited(n)' = Credited(n)
        BY <1>2, <2>2 DEF Credited, Posted
      <3>2. g = f
        BY <1>2, <3>1 DEF Credited, Posted
      <3>3. Credits(n)' = Credits(n)
        BY <3>2 DEF Credits
      <3> QED
        BY <2>2, <3>3, SumsAreIntegers
    <2> QED
      BY <2>1, <2>2
  <1>4. Debits(n)' = Debits(n) + (IF row.src = n THEN row.srcAmount + row.fee ELSE 0)
    <2> DEFINE f == [t \in Debited(n) |-> transfers[t].srcAmount + transfers[t].fee]
               g == [t \in Debited(n)' |-> transfers'[t].srcAmount + transfers'[t].fee]
    <2>1. CASE row.src = n
      <3>1. Debited(n)' = Debited(n) \cup {r} /\ r \notin Debited(n)
        BY <1>2, <2>1 DEF Debited, Posted
      <3>5. \A t \in Debited(n) : /\ t \in Requests \ {r}
                                  /\ transfers[t].srcAmount \in Nat /\ transfers[t].fee \in Nat
        <4>1. \A t \in Debited(n) : t \in Requests \ {r} /\ transfers[t] \in TransferRow
          BY <3>1 DEF IInv, TypeOK, Debited, Posted
        <4> QED
          BY <4>1 DEF TransferRow
      <3>2. /\ DOMAIN f = Debited(n) /\ DOMAIN g = Debited(n) \cup {r}
            /\ \A t \in Debited(n) : f[t] \in Int /\ g[t] = f[t]
            /\ g[r] = row.srcAmount + row.fee /\ g[r] \in Int
        BY <1>2, <3>1, <3>5
      <3>3. IsFiniteSet(Debited(n))
        BY RequestsAssumption, FS_Subset DEF Debited
      <3> DEFINE S == Debited(n)
      <3> HIDE DEF f, g, S
      <3>6. /\ IsFiniteSet(S) /\ r \notin S /\ DOMAIN f = S /\ DOMAIN g = S \cup {r}
            /\ \A t \in S : f[t] \in Int /\ g[t] = f[t]
            /\ g[r] \in Int
        BY <3>1, <3>2, <3>3 DEF S
      <3>4. SumFunction(g) = SumFunction(f) + g[r]
        BY <3>6, SumExtended
      <3> QED
        BY <2>1, <3>2, <3>4 DEF Debits, f, g
    <2>2. CASE row.src # n
      <3>1. Debited(n)' = Debited(n)
        BY <1>2, <2>2 DEF Debited, Posted
      <3>2. g = f
        BY <1>2, <3>1 DEF Debited, Posted
      <3>3. Debits(n)' = Debits(n)
        BY <3>2 DEF Debits
      <3> QED
        BY <2>2, <3>3, SumsAreIntegers
    <2> QED
      BY <2>1, <2>2
  <1> QED
    BY <1>1, <1>3, <1>4

(* A posted transfer that moves the balances by what its row says keeps the *)
(* books.                                                                   *)
LEMMA PostingKeepsBooks ==
  ASSUME IInv, IInv', BooksOK, NEW r \in Requests,
         NEW row \in TransferRow, transfers[r] = NoRow,
         transfers' = [transfers EXCEPT ![r] = row],
         \A n \in Numbers : Opened(n)' = Opened(n),
         accounts[row.src] # NoRow, accounts[row.dst] # NoRow,
         \A n \in Numbers : accounts'[n] = NoRow <=> accounts[n] = NoRow,
         \A n \in Numbers : accounts[n] # NoRow =>
            /\ Whole(accounts'[n].balance)
            /\ accounts'[n].balance = accounts[n].balance
                  + (IF row.dst = n THEN row.dstAmount ELSE 0)
                  - (IF row.src = n THEN row.srcAmount + row.fee ELSE 0)
  PROVE  BooksOK'
  <1>1. ASSUME NEW n \in Numbers, accounts'[n] = NoRow
        PROVE  (Opened(n) = {} /\ Credited(n) = {} /\ Debited(n) = {})'
    <2>1. accounts[n] = NoRow /\ row.src # n /\ row.dst # n
      BY <1>1
    <2> QED
      BY <2>1 DEF BooksOK, Credited, Debited, Posted, IInv, TypeOK
  <1>2. ASSUME NEW n \in Numbers, accounts'[n] # NoRow
        PROVE  /\ Whole(accounts'[n].balance) /\ \E e \in audit' : Opened(n)' = {e}
               /\ accounts'[n].balance = Opening(n)' + Credits(n)' - Debits(n)'
    <2>1. accounts[n] # NoRow
      BY <1>2
    <2>2. PICK e : Opened(n)' = {e}
      BY <2>1, ZenonT(40) DEF BooksOK
    <2>3. e \in audit'
      BY <2>2 DEF Opened
    <2>4. accounts[n].balance = Opening(n) + Credits(n) - Debits(n)
      BY <2>1 DEF BooksOK, Reconciled
    <2> DEFINE x == IF row.dst = n THEN row.dstAmount ELSE 0
               y == IF row.src = n THEN row.srcAmount + row.fee ELSE 0
    <2>5. Opening(n)' = Opening(n) /\ Credits(n)' = Credits(n) + x /\ Debits(n)' = Debits(n) + y
      BY <2>1, SumsAfterPosting
    <2>6. x \in Int /\ y \in Int
      BY DEF TransferRow
    <2>7. accounts'[n].balance = accounts[n].balance + x - y
      BY <2>1
    <2> HIDE DEF x, y
    <2> QED
      BY <2>1, <2>2, <2>3, <2>4, <2>5, <2>6, <2>7, SumsAreIntegers
  <1> QED
    BY <1>1, <1>2 DEF BooksOK, Reconciled

(* Steps that leave balances, transfers and openings alone keep the books.  *)
LEMMA SameBooks ==
  ASSUME BooksOK, UNCHANGED transfers,
         \A n \in Numbers : /\ Opened(n)' = Opened(n)
                            /\ accounts'[n] = NoRow <=> accounts[n] = NoRow
                            /\ accounts[n] # NoRow => accounts'[n].balance = accounts[n].balance
  PROVE  BooksOK'
  <1>1. ASSUME NEW n \in Numbers
        PROVE  /\ Credited(n)' = Credited(n) /\ Debited(n)' = Debited(n)
               /\ Opening(n)' = Opening(n) /\ Credits(n)' = Credits(n) /\ Debits(n)' = Debits(n)
    BY DEF Credited, Debited, Posted, Opening, Credits, Debits
  <1>2. ASSUME NEW n \in Numbers, accounts'[n] # NoRow PROVE \E e \in audit' : Opened(n)' = {e}
    <2>1. PICK e : Opened(n)' = {e}
      BY <1>2 DEF BooksOK
    <2> QED
      BY <2>1 DEF Opened
  <1>3. \A n \in Numbers : accounts'[n] # NoRow =>
           /\ Whole(accounts'[n].balance)
           /\ accounts'[n].balance = Opening(n)' + Credits(n)' - Debits(n)'
    BY <1>1 DEF BooksOK, Reconciled
  <1> QED
    BY <1>1, <1>2, <1>3 DEF BooksOK, Reconciled

(* Opening an account starts its books.                                     *)
LEMMA OpeningKeepsBooks ==
  ASSUME IInv, IInv', BooksOK, NEW r \in Requests, NEW n \in Numbers,
         NEW c \in Currencies, NEW b \in OpeningBalances, NEW o \in Callers,
         L!Open(r, n, [status |-> "active", balance |-> b, currency |-> c, owner |-> o])
  PROVE  BooksOK'
  <1> DEFINE row == [status |-> "active", balance |-> b, currency |-> c, owner |-> o]
             e == L!Entry("account_created", r, {n}, b)
  <1>1. /\ accounts[n] = NoRow /\ accounts' = [accounts EXCEPT ![n] = row]
        /\ audit' = audit \cup {e} /\ transfers' = transfers
    BY DEF L!Open
  <1>2. e.op = "account_created" /\ e.on = {n} /\ e.amount = b
    BY DEF L!Entry
  <1>3. Whole(b) /\ b \in Int
    BY OpeningAssumption, WholeFacts
  <1> HIDE DEF e
  <1>4. accounts'[n] # NoRow /\ accounts'[n].balance = b
    <2>1. accounts'[n] = row
      BY <1>1 DEF IInv, TypeOK, AccountTable
    <2>2. row.balance = b /\ row \in AccountRow
      BY <1>3 DEF AccountRow
    <2> QED
      BY <2>1, <2>2, NoRowAssumption
  <1>5. ASSUME NEW m \in Numbers \ {n}
        PROVE  /\ Opened(m)' = Opened(m) /\ accounts'[m] = accounts[m]
    <2>1. e.on # {m}
      BY <1>2
    <2>2. Opened(m)' = Opened(m)
      BY <1>1, <2>1 DEF Opened
    <2> QED
      BY <1>1, <2>2 DEF IInv, TypeOK, AccountTable
  <1>6. /\ Opened(n)' = {e}
        /\ Credited(n)' = {} /\ Debited(n)' = {}
    BY <1>1, <1>2 DEF BooksOK, Opened, Credited, Debited, Posted
  <1>7. Opening(n)' = b
    <2> DEFINE g == [x \in Opened(n)' |-> x.amount]
    <2>1. DOMAIN g = {e} /\ g[e] = b
      BY <1>2, <1>6
    <2> HIDE DEF g
    <2> QED
      BY <1>3, <2>1, SumOfOne DEF Opening, g
  <1>8. Credits(n)' = 0 /\ Debits(n)' = 0
    <2>1. ASSUME NEW f, DOMAIN f = {} PROVE SumFunction(f) = 0
      BY <2>1, SumEmpty DEF SumFunction
    <2> QED
      BY <1>6, <2>1 DEF Credits, Debits
  <1>9. ASSUME NEW m \in Numbers \ {n}
        PROVE  /\ Credited(m)' = Credited(m) /\ Debited(m)' = Debited(m)
               /\ Opening(m)' = Opening(m) /\ Credits(m)' = Credits(m) /\ Debits(m)' = Debits(m)
    BY <1>1, <1>5 DEF Credited, Debited, Posted, Opening, Credits, Debits
  <1>10. ASSUME NEW m \in Numbers PROVE
            /\ accounts'[m] = NoRow => (Opened(m) = {} /\ Credited(m) = {} /\ Debited(m) = {})'
            /\ accounts'[m] # NoRow =>
                  /\ Whole(accounts'[m].balance)
                  /\ \E x \in audit' : Opened(m)' = {x}
                  /\ accounts'[m].balance = Opening(m)' + Credits(m)' - Debits(m)'
    <2>1. CASE m = n
      BY <1>1, <1>3, <1>4, <1>6, <1>7, <1>8, <2>1
    <2>2. CASE m # n
      BY <1>1, <1>5, <1>9, <2>2 DEF BooksOK, Reconciled
    <2> QED
      BY <2>1, <2>2
  <1> QED
    BY <1>10 DEF BooksOK, Reconciled

(* A transfer of the first service moves whole amounts.                     *)
LEMMA PostKeepsBooks ==
  ASSUME WholeAmounts, IInv, IInv', BooksOK, NEW r \in Requests, NEW k \in Keys,
         NEW c \in Callers, NEW s \in Numbers, NEW d \in Numbers, NEW a \in Amounts,
         L!Post(r, k, c, s, d, a)
  PROVE  BooksOK'
  <1> DEFINE credit == Converted(a, GetRate(accounts[s].currency, accounts[d].currency))
             row == [key |-> k, caller |-> c, src |-> s, dst |-> d,
                     srcAmount |-> Stored(a), dstAmount |-> credit,
                     currency |-> accounts[d].currency, status |-> "completed",
                     type |-> "none", fee |-> 0, usd |-> 0, snapshot |-> 0]
             e == L!Entry("transfer_completed", r, {s, d}, Stored(a))
  <1>1. /\ transfers[r] = NoRow /\ s # d
        /\ accounts[s] # NoRow /\ accounts[d] # NoRow
        /\ HasRate(accounts[s].currency, accounts[d].currency)
        /\ 0 < a /\ a <= accounts[s].balance
        /\ accounts' = [accounts EXCEPT
              ![s].balance = Stored(accounts[s].balance - a),
              ![d].balance = Stored(accounts[d].balance + credit)]
        /\ transfers' = [transfers EXCEPT ![r] = row]
        /\ audit' = audit \cup {e}
    BY SameArithmetic DEF L!Post, L!IsActive
  <1>2. Whole(a) /\ a \in Nat /\ Stored(a) = a
    BY AmountsAssumption, WholeFacts DEF WholeAmounts
  <1>3. /\ accounts[s] \in AccountRow /\ accounts[d] \in AccountRow
        /\ Whole(accounts[s].balance) /\ Whole(accounts[d].balance)
    BY <1>1 DEF IInv, TypeOK, AccountTable, BooksOK
  <1>4. Whole(credit) /\ credit \in Nat
    <2>1. accounts[s].currency \in Currencies /\ accounts[d].currency \in Currencies
      BY <1>3 DEF AccountRow
    <2>2. Whole(credit)
      BY <1>1, <1>2, <2>1, WholeConverted
    <2> QED
      BY <2>2, WholeFacts
  <1>5. row \in TransferRow
    BY <1>2, <1>3, <1>4, MaxSnapshotsAssumption DEF TransferRow, AccountRow
  <1> HIDE DEF credit
  <1>6. /\ Stored(accounts[s].balance - a) = accounts[s].balance - a
        /\ Stored(accounts[d].balance + credit) = accounts[d].balance + credit
        /\ Whole(accounts[s].balance - a) /\ Whole(accounts[d].balance + credit)
    BY <1>1, <1>2, <1>3, <1>4, WholeFacts
  <1>7. /\ accounts' = [accounts EXCEPT ![s].balance = accounts[s].balance - a,
                                        ![d].balance = accounts[d].balance + credit]
        /\ row.src = s /\ row.dst = d /\ row.srcAmount = a /\ row.dstAmount = credit /\ row.fee = 0
    BY <1>1, <1>2, <1>6
  <1> HIDE DEF row
  <1>8. ASSUME NEW n \in Numbers PROVE Opened(n)' = Opened(n)
    BY <1>1 DEF Opened, L!Entry
  <1>9. ASSUME NEW n \in Numbers
        PROVE  /\ accounts'[n] = NoRow <=> accounts[n] = NoRow
               /\ accounts[n] # NoRow =>
                    /\ Whole(accounts'[n].balance)
                    /\ accounts'[n].balance = accounts[n].balance
                          + (IF row.dst = n THEN row.dstAmount ELSE 0)
                          - (IF row.src = n THEN row.srcAmount + row.fee ELSE 0)
    <2>1. CASE n = s
      <3>1. accounts'[n] = [accounts[n] EXCEPT !.balance = accounts[s].balance - a]
        BY <1>1, <1>7, <2>1 DEF IInv, TypeOK, AccountTable
      <3>2. accounts'[n].balance = accounts[n].balance - a /\ accounts'[n] \in AccountRow
        BY <1>1, <1>2, <1>3, <2>1, <3>1, WholeFacts DEF AccountRow
      <3> QED
        BY <1>1, <1>2, <1>3, <1>6, <1>7, <2>1, <3>2, NoRowAssumption, WholeFacts
    <2>2. CASE n = d
      <3>1. accounts'[n] = [accounts[n] EXCEPT !.balance = accounts[d].balance + credit]
        BY <1>1, <1>7, <2>2 DEF IInv, TypeOK, AccountTable
      <3>2. accounts'[n].balance = accounts[n].balance + credit /\ accounts'[n] \in AccountRow
        BY <1>1, <1>3, <1>4, <2>2, <3>1, WholeFacts DEF AccountRow
      <3> QED
        BY <1>1, <1>3, <1>4, <1>6, <1>7, <2>2, <3>2, NoRowAssumption, WholeFacts
    <2>3. CASE n # s /\ n # d
      <3>1. accounts'[n] = accounts[n]
        BY <1>7, <2>3 DEF IInv, TypeOK, AccountTable
      <3> QED
        BY <1>7, <2>3, <3>1, WholeFacts DEF BooksOK
    <2> QED
      BY <2>1, <2>2, <2>3
  <1>10. accounts[row.src] # NoRow /\ accounts[row.dst] # NoRow
    BY <1>1, <1>7
  <1>11. transfers[r] = NoRow /\ transfers' = [transfers EXCEPT ![r] = row]
    BY <1>1
  <1> QED
    BY <1>5, <1>8, <1>9, <1>10, <1>11, PostingKeepsBooks

(* So does a cross-currency transfer, whatever its amount: what the sender  *)
(* pays is the stored amount plus the fee.                                  *)
LEMMA PostCrossKeepsBooks ==
  ASSUME IInv, IInv', BooksOK, NEW r \in Requests, NEW k \in Keys,
         NEW c \in Callers, NEW s \in Numbers, NEW d \in Numbers, NEW a \in Amounts,
         NEW from \in Currencies, NEW to \in Currencies, NEW q \in DOMAIN snapshots,
         L!PostCross(r, k, c, s, d, a, from, to, q), transfers'[r] # transfers[r]
  PROVE  BooksOK'
  <1> DEFINE rates == snapshots[q].rates
             net == NetAmount(a, rates[<<from, to>>])
             cost == TotalSenderCost(a)
             row == transfers'[r]
             left == Stored(accounts[s].balance - cost)
             mid == IF d = s THEN left ELSE accounts[d].balance
  <1>1. /\ transfers[r] = NoRow
        /\ accounts[s] # NoRow /\ accounts[d] # NoRow
        /\ <<from, to>> \in DOMAIN rates
        /\ cost <= accounts[s].balance
        /\ accounts' = [accounts EXCEPT ![s].balance = left, ![d].balance = Stored(mid + net)]
    BY SameArithmetic, SameFees DEF L!PostCross, L!IsActive
  <1>2. /\ transfers' = [transfers EXCEPT ![r] = row]
        /\ row.src = s /\ row.dst = d /\ row.srcAmount = Stored(a) /\ row.fee = SendingFee(a)
        /\ row.dstAmount = net
    BY SameArithmetic, SameFees DEF L!PostCross, IInv, TypeOK
  <1>3. row \in TransferRow
    BY <1>1 DEF IInv, TypeOK
  <1>4. /\ a \in Nat /\ rates[<<from, to>>] \in Nat
    <2>1. snapshots[q] \in SnapshotRow
      BY DEF IInv, TypeOK
    <2>2. rates \in FeedRates
      BY <2>1 DEF SnapshotRow
    <2> QED
      BY <1>1, <2>2, AmountsAssumption, FeedRatesAssumption
  <1>5. /\ Whole(net) /\ Whole(cost) /\ net \in Nat /\ cost \in Nat
        /\ cost = row.srcAmount + row.fee
    BY <1>2, <1>4, WholeCross, WholeFacts, CostIsAmountPlusFee
  <1> HIDE DEF row, net, cost, rates
  <1>6. /\ Whole(accounts[s].balance) /\ Whole(accounts[d].balance)
        /\ accounts[s] \in AccountRow /\ accounts[d] \in AccountRow
    BY <1>1 DEF BooksOK, IInv, TypeOK, AccountTable
  <1>7. left = accounts[s].balance - cost /\ Whole(left) /\ left \in Nat
    BY <1>1, <1>5, <1>6, WholeFacts
  <1> HIDE DEF left
  <1>8. Whole(mid) /\ Stored(mid + net) = mid + net /\ Whole(mid + net)
    BY <1>5, <1>6, <1>7, WholeFacts
  <1> HIDE DEF mid
  <1>9. ASSUME NEW n \in Numbers PROVE Opened(n)' = Opened(n)
    BY DEF Opened, L!PostCross, L!Entry
  <1>10. ASSUME NEW n \in Numbers
         PROVE  /\ accounts'[n] = NoRow <=> accounts[n] = NoRow
                /\ accounts[n] # NoRow =>
                     /\ Whole(accounts'[n].balance)
                     /\ accounts'[n].balance = accounts[n].balance
                           + (IF row.dst = n THEN row.dstAmount ELSE 0)
                           - (IF row.src = n THEN row.srcAmount + row.fee ELSE 0)
    <2>1. CASE n = d
      <3>1. accounts'[n].balance = mid + net /\ accounts'[n] # NoRow
        <4>1. \E x \in AccountRow : accounts'[n] = [x EXCEPT !.balance = mid + net]
          <5>1. CASE s = d
            <6>1. [accounts[s] EXCEPT !.balance = left] \in AccountRow
              BY <1>6, <1>7 DEF AccountRow
            <6>2. accounts'[n] = [[accounts[s] EXCEPT !.balance = left] EXCEPT !.balance = mid + net]
              BY <1>1, <1>8, <2>1, <5>1 DEF IInv, TypeOK, AccountTable
            <6> QED
              BY <6>1, <6>2
          <5>2. CASE s # d
            BY <1>1, <1>6, <1>8, <2>1, <5>2 DEF IInv, TypeOK, AccountTable
          <5> QED
            BY <5>1, <5>2
        <4>2. mid + net \in Int
          BY <1>8, WholeFacts
        <4> QED
          BY <4>1, <4>2, NoRowAssumption DEF AccountRow
      <3>2. mid = IF d = s THEN accounts[n].balance - cost ELSE accounts[n].balance
        BY <1>7, <2>1 DEF mid
      <3>3. accounts[n].balance \in Nat
        BY <1>6, <2>1, WholeFacts
      <3> QED
        BY <1>1, <1>2, <1>5, <1>8, <2>1, <3>1, <3>2, <3>3, NoRowAssumption
    <2>2. CASE n = s /\ n # d
      <3>1. accounts'[n].balance = left /\ accounts'[n] # NoRow
        <4>1. accounts'[n] = [accounts[s] EXCEPT !.balance = left]
          BY <1>1, <2>2 DEF IInv, TypeOK, AccountTable
        <4> QED
          BY <1>6, <1>7, <4>1, NoRowAssumption DEF AccountRow
      <3>2. accounts[n].balance \in Nat
        BY <1>6, <2>2, WholeFacts
      <3> QED
        BY <1>1, <1>2, <1>5, <1>7, <2>2, <3>1, <3>2, NoRowAssumption
    <2>3. CASE n # s /\ n # d
      <3>1. accounts'[n] = accounts[n]
        BY <1>1, <2>3 DEF IInv, TypeOK, AccountTable
      <3> QED
        BY <1>2, <2>3, <3>1, WholeFacts DEF BooksOK
    <2> QED
      BY <2>1, <2>2, <2>3
  <1>11. accounts[row.src] # NoRow /\ accounts[row.dst] # NoRow
    BY <1>1, <1>2
  <1>12. transfers[r] = NoRow /\ transfers' = [transfers EXCEPT ![r] = row]
    BY <1>1, <1>2
  <1> QED
    BY <1>3, <1>9, <1>10, <1>11, <1>12, PostingKeepsBooks

(* The books are right in the initial states.                               *)
LEMMA InitBooks == Init => BooksOK
  <1> SUFFICES ASSUME Init PROVE BooksOK
    OBVIOUS
  <1>1. IInv
    BY InitIInv
  <1>2. \A t \in Requests : transfers[t] = NoRow
    BY DEF Init, StoreInit
  <1>3. ASSUME NEW n \in Numbers PROVE Credited(n) = {} /\ Debited(n) = {}
    BY <1>2 DEF Credited, Debited, Posted
  <1>4. ASSUME NEW n \in Numbers PROVE Credits(n) = 0 /\ Debits(n) = 0
    <2>1. ASSUME NEW f, DOMAIN f = {} PROVE SumFunction(f) = 0
      BY <2>1, SumEmpty DEF SumFunction
    <2> QED
      BY <1>3, <2>1 DEF Credits, Debits
  <1>5. audit = {Audit("account_created", Nobody, {m}, accounts[m].balance) :
                    m \in {x \in Numbers : accounts[x] # NoRow}}
    BY DEF Init, StoreInit
  <1>6. ASSUME NEW n \in Numbers, accounts[n] = NoRow PROVE Opened(n) = {}
    BY <1>5, <1>6 DEF Opened, Audit
  <1>7. ASSUME NEW n \in Numbers, accounts[n] # NoRow
        PROVE  /\ Whole(accounts[n].balance) /\ \E e \in audit : Opened(n) = {e}
               /\ accounts[n].balance = Opening(n) + Credits(n) - Debits(n)
    <2> DEFINE e == Audit("account_created", Nobody, {n}, accounts[n].balance)
    <2>1. e \in audit /\ Opened(n) = {e} /\ e.amount = accounts[n].balance
      <3>1. e \in audit
        BY <1>5, <1>7
      <3>2. e.op = "account_created" /\ e.on = {n} /\ e.amount = accounts[n].balance
        BY DEF Audit
      <3>3. ASSUME NEW x \in Opened(n) PROVE x = e
        <4>1. PICK m \in Numbers : x = Audit("account_created", Nobody, {m}, accounts[m].balance)
          BY <1>5 DEF Opened
        <4>2. {m} = {n}
          BY <4>1 DEF Opened, Audit
        <4>3. m = n
          BY <4>2
        <4> QED
          BY <4>1, <4>3
      <3>4. e \in Opened(n)
        BY <3>1, <3>2 DEF Opened
      <3> QED
        BY <3>1, <3>2, <3>3, <3>4
    <2>2. accounts[n].balance \in Nat /\ accounts[n].balance % Quantum = 0
      BY <1>7, InitialAssumption DEF Init, StoreInit, AccountTable, AccountRow
    <2> DEFINE g == [x \in Opened(n) |-> x.amount]
    <2>3. DOMAIN g = {e} /\ g[e] = accounts[n].balance
      BY <2>1
    <2> HIDE DEF g, e
    <2>4. SumFunction(g) = accounts[n].balance
      <3>1. g[e] \in Int
        BY <2>2, <2>3
      <3> QED
        BY <2>3, <3>1, SumOfOne
    <2> QED
      BY <1>4, <2>1, <2>2, <2>4, WholeFacts DEF Opening, g
  <1> QED
    BY <1>3, <1>6, <1>7 DEF BooksOK, Reconciled

(* Every step of the ledger keeps the books.                                *)
LEMMA LedgerKeepsBooks ==
  ASSUME WholeAmounts, IInv, IInv', BooksOK, [L!Next]_(L!ledger)
  PROVE  BooksOK'
  <1>1. CASE UNCHANGED <<accounts, transfers, audit>>
    <2>1. \A n \in Numbers : Opened(n)' = Opened(n)
      BY <1>1 DEF Opened
    <2> QED
      BY <1>1, <2>1, SameBooks
  <1>2. ASSUME NEW r \in Requests, NEW n \in Numbers, NEW c \in Currencies,
               NEW b \in OpeningBalances, NEW o \in Callers,
               L!Open(r, n, [status |-> "active", balance |-> b, currency |-> c, owner |-> o])
        PROVE  BooksOK'
    BY <1>2, OpeningKeepsBooks
  <1>3. ASSUME NEW r \in Requests, NEW n \in Numbers, L!Close(r, n) PROVE BooksOK'
    <2>1. \A m \in Numbers : Opened(m)' = Opened(m)
      BY <1>3 DEF L!Close, L!Entry, Opened
    <2>2. ASSUME NEW m \in Numbers
          PROVE  /\ accounts'[m] = NoRow <=> accounts[m] = NoRow
                 /\ accounts[m] # NoRow => accounts'[m].balance = accounts[m].balance
      <3>1. accounts[n] # NoRow /\ accounts[n] \in AccountRow
        BY <1>3 DEF L!Close, IInv, TypeOK, AccountTable
      <3>2. CASE m # n
        BY <1>3, <3>2 DEF L!Close, IInv, TypeOK, AccountTable
      <3>3. CASE m = n
        <4>1. accounts'[n] = [[accounts[n] EXCEPT !.status = "closed"] EXCEPT !.owner = Anonymized]
          BY <1>3, <3>1 DEF L!Close, IInv, TypeOK, AccountTable
        <4>2. accounts'[n] \in AccountRow /\ accounts'[n].balance = accounts[n].balance
          BY <3>1, <4>1 DEF AccountRow
        <4> QED
          BY <3>1, <3>3, <4>2, NoRowAssumption
      <3> QED
        BY <3>2, <3>3
    <2>3. UNCHANGED transfers
      BY <1>3 DEF L!Close
    <2> QED
      BY <2>1, <2>2, <2>3, SameBooks
  <1>4. ASSUME NEW r \in Requests, L!PostSome(r) PROVE BooksOK'
    <2>1. transfers'[r] # transfers[r]
      BY <1>4 DEF L!PostSome
    <2>2. PICK k \in Keys, c \in Callers, s \in Numbers, d \in Numbers, a \in Amounts :
             \/ L!Post(r, k, c, s, d, a)
             \/ \E from, to \in Currencies, q \in DOMAIN snapshots :
                   L!PostCross(r, k, c, s, d, a, from, to, q)
      BY <1>4 DEF L!PostSome
    <2> QED
      BY <2>1, <2>2, PostKeepsBooks, PostCrossKeepsBooks
  <1>5. CASE UNCHANGED L!ledger
    BY <1>1, <1>5 DEF L!ledger
  <1>6. ASSUME (\E f \in FeedRates : L!Publish(f)) \/ (\E q \in DOMAIN snapshots : L!Withdraw(q))
        PROVE  BooksOK'
    BY <1>1, <1>6 DEF L!Publish, L!Withdraw
  <1> QED
    BY <1>2, <1>3, <1>4, <1>5, <1>6 DEF L!Next

(* Balances, transfers and audit log never disagree: with amounts of at     *)
(* most four decimals every balance is the opening balance plus the credits *)
(* less the debits of the posted transfers, whatever interleaves, fails or  *)
(* is retried.                                                              *)
THEOREM BooksBalance ==
  ASSUME WholeAmounts
  PROVE  Spec => []Reconciled
  <1>1. BooksOK /\ IInv /\ IInv' /\ [L!Next]_(L!ledger) => BooksOK'
    BY LedgerKeepsBooks
  <1>2. BooksOK => Reconciled
    BY DEF BooksOK
  <1> QED
    BY <1>1, <1>2, InitBooks, StepSimulation, Invariance, PTL DEF Spec

-----------------------------------------------------------------------------
(* What CompletionIsWhole says of one transfer.                             *)
Ops(t)  == {e.op : e \in {x \in audit : x.by = t}}
Told(t) == {<<n.recipient, n.direction>> : n \in {x \in notifications : x.transfer = t}}

WholeOK(t) ==
    Posted(t) /\ transfers[t].type = "cross_currency" =>
        /\ transfers[t].status = "completed"
        /\ {"cross_currency_transfer_initiated", "cross_currency_transfer_completed"} \subseteq Ops(t)
        /\ "aml_kyc_screening_triggered" \in Ops(t) <=> transfers[t].usd >= AmlThresholdUsd
        /\ transfers[t].src # transfers[t].dst =>
              Told(t) = {<<transfers[t].src, "sent">>, <<transfers[t].dst, "received">>}

(* No screening and no notification is without its transfer.                *)
TracesOK ==
    /\ \A t \in Requests : WholeOK(t)
    /\ \A n \in notifications : Posted(n.transfer) /\ transfers[n.transfer].dstAmount = n.amount
    /\ \A e \in audit : e.op = "aml_kyc_screening_triggered" =>
          e.by \in Requests /\ Posted(e.by)

(* A transfer stays whole while nothing but other operations is recorded.   *)
LEMMA WholeKept ==
  ASSUME NEW t \in Requests, WholeOK(t), transfers'[t] = transfers[t],
         NEW new, audit' = audit \cup new,
         \A e \in new : e.by = t => e.op # "aml_kyc_screening_triggered",
         NEW notes, notifications' = notifications \cup notes, \A n \in notes : n.transfer # t
  PROVE  WholeOK(t)'
  <1>1. Ops(t) \subseteq Ops(t)'
    BY DEF Ops
  <1>2. "aml_kyc_screening_triggered" \in Ops(t)' => "aml_kyc_screening_triggered" \in Ops(t)
    BY DEF Ops
  <1>3. {x \in notifications' : x.transfer = t} = {x \in notifications : x.transfer = t}
    OBVIOUS
  <1>4. Told(t)' = Told(t)
    BY <1>3 DEF Told
  <1> QED
    BY <1>1, <1>2, <1>4 DEF WholeOK, Posted

(* A step that posts at most a transfer of the first service keeps them.    *)
LEMMA TracesKept ==
  ASSUME IInv, IInv', TracesOK, NEW new, audit' = audit \cup new,
         \A e \in new : e.op # "aml_kyc_screening_triggered",
         notifications' = notifications,
         \A t \in Requests : \/ transfers'[t] = transfers[t]
                             \/ transfers[t] = NoRow /\ transfers'[t].type = "none"
                                                     /\ transfers'[t] # NoRow
  PROVE  TracesOK'
  <1>1. ASSUME NEW t \in Requests PROVE WholeOK(t)'
    <2>1. CASE transfers'[t] = transfers[t]
      <3> DEFINE notes == {}
      <3>1. notifications' = notifications \cup notes /\ \A n \in notes : n.transfer # t
        OBVIOUS
      <3> HIDE DEF notes
      <3> QED
        BY <2>1, <3>1, WholeKept DEF TracesOK
    <2>2. CASE transfers'[t].type = "none"
      BY <2>2 DEF WholeOK
    <2> QED
      BY <2>1, <2>2
  <1>2. \A n \in notifications : n.transfer \in Requests /\ Posted(n.transfer)
    BY DEF IInv, TypeOK, Notification, TracesOK
  <1>3. \A n \in notifications : transfers'[n.transfer] = transfers[n.transfer]
    BY <1>2 DEF Posted
  <1>4. \A t \in Requests : Posted(t) => Posted(t)'
    BY DEF Posted
  <1> QED
    BY <1>1, <1>3, <1>4 DEF TracesOK, Posted

(* A cross-currency transfer is posted with all its traces.                 *)
LEMMA PostCrossIsWhole ==
  ASSUME IInv, IInv', TracesOK, NEW r \in Requests, NEW k \in Keys,
         NEW c \in Callers, NEW s \in Numbers, NEW d \in Numbers, NEW a \in Amounts,
         NEW from \in Currencies, NEW to \in Currencies, NEW q \in DOMAIN snapshots,
         L!PostCross(r, k, c, s, d, a, from, to, q), transfers'[r] # transfers[r]
  PROVE  TracesOK'
  <1> DEFINE rates == snapshots[q].rates
             net == L!NetAmount(a, rates[<<from, to>>])
             usd == L!AmountInUsd(a, from, rates)
             note(n, way) == [transfer |-> r, recipient |-> n, direction |-> way, amount |-> net]
             notes == IF s = d THEN {} ELSE {note(s, "sent"), note(d, "received")}
             both == {L!Entry("cross_currency_transfer_initiated", r, {s, d}, L!Stored(a)),
                      L!Entry("cross_currency_transfer_completed", r, {s, d}, L!Stored(a))}
             told == {L!Entry("notification_delivered", r, {n.recipient}, n.amount) : n \in notes}
             aml == IF usd < AmlThresholdUsd THEN {}
                    ELSE {L!Entry("aml_kyc_screening_triggered", r, {s, d}, usd)}
             new == both \cup told \cup aml
             row == transfers'[r]
  <1>1. /\ transfers[r] = NoRow
        /\ notifications' = notifications \cup notes
        /\ audit' = audit \cup new
        /\ \A t \in Requests \ {r} : transfers'[t] = transfers[t]
    BY DEF L!PostCross, IInv, TypeOK
  <1>2. /\ row # NoRow /\ row.src = s /\ row.dst = d /\ row.dstAmount = net
        /\ row.status = "completed" /\ row.type = "cross_currency" /\ row.usd = usd
    BY <1>1 DEF L!PostCross, IInv, TypeOK
  <1>3. usd \in Nat
    BY <1>1, <1>2 DEF IInv, TypeOK, TransferRow
  <1>4. /\ \A n \in notes : n.transfer = r /\ n.amount = net
        /\ s # d => {<<n.recipient, n.direction>> : n \in notes} = {<<s, "sent">>, <<d, "received">>}
    <2> DEFINE x == note(s, "sent")
               y == note(d, "received")
    <2>1. /\ x.transfer = r /\ x.amount = net /\ x.recipient = s /\ x.direction = "sent"
          /\ y.transfer = r /\ y.amount = net /\ y.recipient = d /\ y.direction = "received"
      OBVIOUS
    <2>2. notes = IF s = d THEN {} ELSE {x, y}
      OBVIOUS
    <2> HIDE DEF x, y, notes
    <2> QED
      BY <2>1, <2>2
  <1>5. /\ \A e \in new : e.by = r
        /\ {"cross_currency_transfer_initiated", "cross_currency_transfer_completed"}
              \subseteq {e.op : e \in new}
        /\ "aml_kyc_screening_triggered" \in {e.op : e \in new} <=> usd >= AmlThresholdUsd
    <2>1. /\ \A e \in both : e.by = r /\ e.op # "aml_kyc_screening_triggered"
          /\ {"cross_currency_transfer_initiated", "cross_currency_transfer_completed"}
                \subseteq {e.op : e \in both}
      BY DEF L!Entry
    <2>2. \A e \in told : e.by = r /\ e.op # "aml_kyc_screening_triggered"
      BY DEF L!Entry
    <2>3. /\ \A e \in aml : e.by = r /\ e.op = "aml_kyc_screening_triggered"
          /\ aml # {} <=> usd >= AmlThresholdUsd
      <3> HIDE DEF usd
      <3>1. usd < AmlThresholdUsd <=> ~ (usd >= AmlThresholdUsd)
        BY <1>3, LimitsAssumption
      <3>2. \A e \in aml : e.by = r /\ e.op = "aml_kyc_screening_triggered"
        BY DEF L!Entry
      <3>3. aml # {} <=> ~ (usd < AmlThresholdUsd)
        OBVIOUS
      <3> QED
        BY <3>1, <3>2, <3>3
    <2> HIDE DEF both, told, aml
    <2> QED
      BY <2>1, <2>2, <2>3
  <1> HIDE DEF notes, new, net, usd, row
  <1>6. \A n \in notifications : n.transfer \in Requests /\ n.transfer # r
    BY <1>1 DEF TracesOK, IInv, TypeOK, Notification, Posted
  <1>7. \A e \in audit : e.by = r => e.op # "aml_kyc_screening_triggered"
    BY <1>1 DEF TracesOK, Posted
  <1>8. WholeOK(r)'
    <2>1. {e.op : e \in new} \subseteq Ops(r)'
      BY <1>1, <1>5 DEF Ops
    <2>2. "aml_kyc_screening_triggered" \in Ops(r)' => "aml_kyc_screening_triggered" \in {e.op : e \in new}
      BY <1>1, <1>7 DEF Ops
    <2>3. {x \in notifications' : x.transfer = r} = notes
      BY <1>1, <1>4, <1>6
    <2>4. s # d => Told(r)' = {<<s, "sent">>, <<d, "received">>}
      BY <1>4, <2>3 DEF Told
    <2>5. transfers'[r] = row
      BY DEF row
    <2> QED
      BY <1>2, <1>5, <2>1, <2>2, <2>4, <2>5 DEF WholeOK
  <1>9. ASSUME NEW t \in Requests \ {r} PROVE WholeOK(t)'
    <2>1. /\ \A e \in new : e.by = t => e.op # "aml_kyc_screening_triggered"
          /\ \A n \in notes : n.transfer # t
      BY <1>4, <1>5
    <2> QED
      BY <1>1, <2>1, WholeKept DEF TracesOK
  <1>10. ASSUME NEW n \in notifications'
         PROVE  Posted(n.transfer)' /\ transfers'[n.transfer].dstAmount = n.amount
    <2>1. CASE n \in notifications
      BY <1>1, <1>6, <2>1 DEF TracesOK, Posted
    <2>2. CASE n \in notes
      BY <1>2, <1>4, <2>2 DEF Posted, row
    <2> QED
      BY <1>1, <2>1, <2>2
  <1>11. ASSUME NEW e \in audit', e.op = "aml_kyc_screening_triggered"
         PROVE  e.by \in Requests /\ Posted(e.by)'
    <2>1. CASE e \in audit
      BY <1>1, <1>11, <2>1, <1>7 DEF TracesOK, Posted
    <2>2. CASE e \in new
      BY <1>2, <1>5, <2>2 DEF Posted, row
    <2> QED
      BY <1>1, <2>1, <2>2
  <1> QED
    BY <1>8, <1>9, <1>10, <1>11 DEF TracesOK

(* Every step of the ledger keeps the traces.                               *)
LEMMA LedgerKeepsTraces ==
  ASSUME IInv, IInv', TracesOK, [L!Next]_(L!ledger)
  PROVE  TracesOK'
  <1>1. CASE UNCHANGED <<transfers, audit, notifications>>
    <2> DEFINE new == {}
    <2>1. audit' = audit \cup new /\ \A e \in new : e.op # "aml_kyc_screening_triggered"
      BY <1>1
    <2> HIDE DEF new
    <2> QED
      BY <1>1, <2>1, TracesKept
  <1>2. ASSUME NEW r, NEW n, NEW row, L!Open(r, n, row) PROVE TracesOK'
    <2> DEFINE new == {L!Entry("account_created", r, {n}, row.balance)}
    <2>1. \A e \in new : e.op # "aml_kyc_screening_triggered"
      BY DEF L!Entry
    <2>2. audit' = audit \cup new /\ transfers' = transfers /\ notifications' = notifications
      BY <1>2 DEF L!Open
    <2> HIDE DEF new
    <2> QED
      BY <2>1, <2>2, TracesKept
  <1>3. ASSUME NEW r, NEW n, L!Close(r, n) PROVE TracesOK'
    <2> DEFINE new == {L!Entry("account_deleted", r, {n}, 0)}
    <2>1. \A e \in new : e.op # "aml_kyc_screening_triggered"
      BY DEF L!Entry
    <2>2. audit' = audit \cup new /\ transfers' = transfers /\ notifications' = notifications
      BY <1>3 DEF L!Close
    <2> HIDE DEF new
    <2> QED
      BY <2>1, <2>2, TracesKept
  <1>4. ASSUME NEW r \in Requests, L!PostSome(r) PROVE TracesOK'
    <2>1. transfers'[r] # transfers[r]
      BY <1>4 DEF L!PostSome
    <2>2. ASSUME NEW k, NEW c, NEW s, NEW d, NEW a, L!Post(r, k, c, s, d, a) PROVE TracesOK'
      <3> DEFINE new == {L!Entry("transfer_completed", r, {s, d}, L!Stored(a))}
      <3>1. \A e \in new : e.op # "aml_kyc_screening_triggered"
        BY DEF L!Entry
      <3>2. audit' = audit \cup new /\ notifications' = notifications /\ transfers[r] = NoRow
        BY <2>2 DEF L!Post
      <3>3. /\ transfers'[r].type = "none" /\ transfers'[r] # NoRow
            /\ \A t \in Requests \ {r} : transfers'[t] = transfers[t]
        BY <2>1, <2>2, <3>2 DEF L!Post, IInv, TypeOK
      <3> HIDE DEF new
      <3> QED
        BY <3>1, <3>2, <3>3, TracesKept
    <2>3. PICK k \in Keys, c \in Callers, s \in Numbers, d \in Numbers, a \in Amounts :
             \/ L!Post(r, k, c, s, d, a)
             \/ \E from, to \in Currencies, q \in DOMAIN snapshots :
                   L!PostCross(r, k, c, s, d, a, from, to, q)
      BY <1>4 DEF L!PostSome
    <2> QED
      BY <2>1, <2>2, <2>3, PostCrossIsWhole
  <1> QED
    BY <1>1, <1>2, <1>3, <1>4 DEF L!Next, L!Publish, L!Withdraw, L!ledger

(* A posted cross-currency transfer has left all its traces in the step     *)
(* that posted it, and no notification is without its transfer.             *)
THEOREM CompletionWhole == Spec => []CompletionIsWhole
  <1>1. Init => TracesOK
    BY DEF Init, StoreInit, CrossInit, TracesOK, WholeOK, Posted, Audit
  <1>2. TracesOK /\ IInv /\ IInv' /\ [L!Next]_(L!ledger) => TracesOK'
    BY LedgerKeepsTraces
  <1>3. TracesOK => CompletionIsWhole
    BY DEF TracesOK, WholeOK, Ops, Told, CompletionIsWhole
  <1> QED
    BY <1>1, <1>2, <1>3, StepSimulation, Invariance, PTL DEF Spec

-------------------------------------------------------------------------------
(* What the handlers leave behind and answer: who holds locks, what a       *)
(* refused request has written, which transfer a response shows, and what   *)
(* the daily limit is worth while other handlers run.                       *)

(* Places after the commit; places where a handler holds rows; places where *)
(* it has an uncommitted transfers row.                                     *)
After    == {"reply", "replied", "cross_reply", "done"}
Locking  == {"lock_destination", "check", "insert", "commit", "commit_account",
             "commit_close", "cross_lock_destination"} \cup Holding
Inserted == {"commit", "pending", "processing", "completed"}

(* Locks and index entries belong to handlers that are at such a place.     *)
OwnersOK ==
    /\ \A n \in Numbers : lock[n] # Nobody => pc[lock[n]] \in Locking
    /\ \A k \in Keys : keyHolder[k] # Nobody => pc[keyHolder[k]] \in Inserted

(* The response shows transfer t, which is the one of the request's key.    *)
Shows(r, t) ==
    /\ t \in Requests /\ Posted(t)
    /\ transfers[t].key = req[r].key /\ transfers[t].caller = req[r].caller

(* A handler writes nothing before its commit and answers last; what it     *)
(* answers agrees with what it has written.                                 *)
AnswersOK(r) ==
    /\ pc[r] \notin After => \A e \in audit : e.by # r
    /\ pc[r] # "done" => reply[r] = "none"
    /\ pc[r] \in {"reply", "cross_reply"} => Shows(r, r)
    /\ pc[r] = "replied" => req[r].kind \in {"create", "delete"}
    /\ reply[r] \in {"created", "replayed"} /\ req[r].kind # "create" => Shows(r, result[r])
    /\ reply[r] \notin {"none", "created", "deleted", "replayed", "lost"} =>
          ~ Posted(r) /\ \A e \in audit : e.by # r

HandlersOK == OwnersOK /\ \A r \in Requests : AnswersOK(r)
-----------------------------------------------------------------------------
(* The four kinds of steps a handler makes.                                 *)

(* It moves on, or is rolled back to its start, and writes nothing.         *)
Moves(r) ==
    /\ UNCHANGED <<tables, reply, result>>
    /\ pc[r] \notin After /\ pc'[r] \notin After
    /\ \A q \in Requests \ {r} : pc'[q] = pc[q] /\ req'[q] = req[q]
    /\ \A n \in Numbers : \/ lock'[n] = Nobody
                          \/ lock'[n] = r /\ pc'[r] \in Locking
                          \/ lock'[n] = lock[n] /\ lock[n] # r
    /\ \A k \in Keys : \/ keyHolder'[k] = Nobody
                       \/ keyHolder'[k] = r /\ pc'[r] \in Inserted
                       \/ keyHolder'[k] = keyHolder[k] /\ keyHolder[k] # r

(* It raises before its commit, or is lost.                                 *)
Raises(r) ==
    \E o \in {"not_found", "conflict", "limit_exceeded", "insufficient_funds",
              "unsupported_currency", "account_has_balance", "forbidden",
              "capacity_exceeded", "stale_rate", "rate_deviation",
              "internal_error", "lost"} :
        /\ Raise(r, o)
        /\ pc[r] \notin {"idle", "done"}
        /\ o # "lost" => pc[r] \notin After

(* It answers.                                                              *)
Answers(r) ==
    /\ UNCHANGED <<tables, locks, req>>
    /\ \/ pc[r] \in {"reply", "cross_reply"} /\ Respond(r, "created", r)
       \/ /\ pc[r] \in {"lookup", "cross_lookup"}
          /\ \E t \in RecordOf(req[r].key) :
                transfers[t].caller = req[r].caller /\ Respond(r, "replayed", t)
       \/ /\ pc[r] = "replied"
          /\ Respond(r, IF req[r].kind = "create" THEN "created" ELSE "deleted", Nobody)

Commits(r) == Commit(r) \/ CommitAccount(r) \/ CommitClose(r) \/ CrossCommit(r)

(* A handler that goes on without touching the locks.                       *)
LEMMA GoesOn ==
  ASSUME IInv, OwnersOK, NEW r \in Requests, NEW next, GoTo(r, next), next \notin After,
         pc[r] \notin After, UNCHANGED <<tables, locks, req, reply, result>>,
         pc[r] \in Locking => next \in Locking, pc[r] \in Inserted => next \in Inserted
  PROVE  Moves(r)
  BY NobodyAssumption DEF IInv, TypeOK, OwnersOK, GoTo, locks, Moves

(* A locking SELECT raises or takes the row.                                *)
LEMMA Locks ==
  ASSUME IInv, OwnersOK, NEW r \in Requests, NEW n \in Numbers,
         NEW next \in Locking \ After, LockActive(r, n, next),
         pc[r] \notin After \cup {"idle"} \cup Inserted
  PROVE  Moves(r) \/ Raises(r)
  <1>1. CASE Raise(r, "not_found")
    BY <1>1 DEF Raises, After
  <1>2. CASE /\ lock' = [lock EXCEPT ![n] = r] /\ GoTo(r, next)
             /\ UNCHANGED <<tables, keyHolder, req, attempt, picked, reply, result>>
    BY <1>2, NobodyAssumption DEF IInv, TypeOK, OwnersOK, GoTo, Moves
  <1> QED
    BY <1>1, <1>2 DEF LockActive

(* The insertion of a transfers row raises or reserves its key.             *)
LEMMA Inserts ==
  ASSUME IInv, OwnersOK, NEW r \in Requests, NEW next \in Inserted,
         InsertUnique(r, next), pc[r] \in {"insert", "cross_insert"}
  PROVE  Moves(r) \/ Raises(r)
  <1>1. CASE Raise(r, "internal_error")
    BY <1>1 DEF Raises, After
  <1>2. CASE /\ keyHolder' = [keyHolder EXCEPT ![req[r].key] = r] /\ GoTo(r, next)
             /\ UNCHANGED <<tables, lock, req, attempt, seen, picked, reply, result>>
    BY <1>2, NobodyAssumption DEF IInv, TypeOK, OwnersOK, GoTo, Moves, After, Locking,
                                  Inserted, Holding, Checked
  <1> QED
    BY <1>1, <1>2 DEF InsertUnique

(* The lookup of the idempotency key moves on, replays or raises.           *)
LEMMA Replays ==
  ASSUME IInv, OwnersOK, NEW r \in Requests, NEW next \in {"lock_source", "latest"},
         ReplayOr(r, next), pc[r] \in {"lookup", "cross_lookup"}
  PROVE  Moves(r) \/ Raises(r) \/ Answers(r)
  <1>1. CASE Raise(r, "conflict")
    BY <1>1 DEF Raises, After
  <1>2. CASE /\ GoTo(r, next)
             /\ UNCHANGED <<tables, locks, req, attempt, seen, picked, reply, result>>
    BY <1>2, GoesOn DEF After, Locking, Inserted, Holding, Checked
  <1>3. CASE \E t \in RecordOf(req[r].key) :
                /\ transfers[t].caller = req[r].caller
                /\ Respond(r, "replayed", t)
                /\ UNCHANGED <<tables, locks, req, attempt, seen, picked>>
    BY <1>3 DEF Answers
  <1> QED
    BY <1>1, <1>2, <1>3 DEF ReplayOr

(* The steps of POST /transfers.                                            *)
LEMMA TransferKinds ==
  ASSUME IInv, OwnersOK, NEW r \in Requests, TransferStep(r)
  PROVE  Moves(r) \/ Raises(r) \/ Answers(r) \/ Commits(r)
  <1>1. CASE Lookup(r)
    BY <1>1, Replays DEF Lookup
  <1>2. CASE LockSource(r) \/ LockDestination(r)
    <2>1. req[r] \in TransferBody
      BY <1>2 DEF LockSource, LockDestination, IInv, RequestOK, BodyOK
    <2>2. req[r].src \in Numbers /\ req[r].dst \in Numbers
      BY <2>1 DEF TransferBody
    <2>3. {"lock_destination", "check"} \subseteq Locking \ After
      BY DEF Locking, After
    <2>4. {"lock_source", "lock_destination"} \cap (After \cup {"idle"} \cup Inserted) = {}
      BY DEF After, Inserted
    <2> QED
      BY <1>2, <2>2, <2>3, <2>4, Locks DEF LockSource, LockDestination
  <1>3. CASE Check(r)
    <2>1. CASE Verdict(r) # "ok"
      BY <1>3, <2>1 DEF Check, Verdict, Raises, After
    <2>2. CASE Verdict(r) = "ok"
      BY <1>3, <2>2, GoesOn DEF Check, After, Locking, Inserted, Holding, Checked
    <2> QED
      BY <2>1, <2>2
  <1>4. CASE Insert(r)
    BY <1>4, Inserts DEF Insert, Inserted
  <1>5. CASE Commit(r)
    BY <1>5 DEF Commits
  <1>6. CASE Reply(r)
    BY <1>6 DEF Reply, Answers
  <1>7. CASE DeadlockAbort(r)
    <2>1. CASE Raise(r, "internal_error")
      BY <1>7, <2>1 DEF DeadlockAbort, Raises, After
    <2>2. CASE Rollback(r) /\ GoTo(r, "lookup") /\ UNCHANGED <<req, picked, reply, result>>
      BY <1>7, <2>2 DEF DeadlockAbort, Rollback, Release, GoTo, IInv, TypeOK, Moves, After
    <2> QED
      BY <1>7, <2>1, <2>2 DEF DeadlockAbort
  <1> QED
    BY <1>1, <1>2, <1>3, <1>4, <1>5, <1>6, <1>7 DEF TransferStep

(* The steps of the account handlers.                                       *)
LEMMA AccountKinds ==
  ASSUME IInv, OwnersOK, NEW r \in Requests, AccountStep(r)
  PROVE  Moves(r) \/ Raises(r) \/ Answers(r) \/ Commits(r)
  <1>1. CASE RefuseCurrency(r)
    BY <1>1 DEF RefuseCurrency, Raises, After
  <1>2. CASE PickNumber(r)
    <2>1. PICK next \in {"insert_account", "pick_number"} : GoTo(r, next)
      BY <1>2 DEF PickNumber
    <2>2. pc[r] = "pick_number" /\ UNCHANGED <<tables, locks, req, reply, result>>
      BY <1>2 DEF PickNumber
    <2> QED
      BY <2>1, <2>2, GoesOn DEF After, Locking, Inserted, Holding, Checked
  <1>3. CASE InsertAccount(r)
    <2>1. CASE Raise(r, "internal_error")
      BY <1>3, <2>1 DEF InsertAccount, Raises, After
    <2>2. CASE ~ Raise(r, "internal_error")
      <3>1. /\ pc[r] = "insert_account" /\ lock' = [lock EXCEPT ![picked[r]] = r]
            /\ GoTo(r, "commit_account")
            /\ UNCHANGED <<tables, keyHolder, req, attempt, seen, picked, reply, result>>
        BY <1>3, <2>2 DEF InsertAccount
      <3> QED
        BY <3>1, NobodyAssumption DEF IInv, TypeOK, OwnersOK, GoTo, Moves, After, Locking,
                                      Inserted, Holding, Checked
    <2> QED
      BY <2>1, <2>2
  <1>4. CASE CommitAccount(r) \/ CommitClose(r)
    BY <1>4 DEF Commits
  <1>5. CASE LoadAccount(r)
    <2>1. CASE Raise(r, "not_found") \/ Raise(r, "forbidden")
      BY <1>5, <2>1 DEF LoadAccount, Raises, After
    <2>2. CASE ~ (Raise(r, "not_found") \/ Raise(r, "forbidden"))
      <3>1. /\ pc[r] = "load_account" /\ GoTo(r, "lock_account")
            /\ UNCHANGED <<tables, locks, req, attempt, picked, reply, result>>
        BY <1>5, <2>2 DEF LoadAccount
      <3> QED
        BY <3>1, GoesOn DEF After, Locking, Inserted, Holding, Checked
    <2> QED
      BY <2>1, <2>2
  <1>6. CASE LockAccount(r)
    <2>1. CASE Raise(r, "not_found") \/ Raise(r, "account_has_balance")
      BY <1>6, <2>1 DEF LockAccount, Raises, After
    <2>2. CASE ~ (Raise(r, "not_found") \/ Raise(r, "account_has_balance"))
      <3>1. /\ pc[r] = "lock_account" /\ lock' = [lock EXCEPT ![req[r].number] = r]
            /\ GoTo(r, "commit_close")
            /\ UNCHANGED <<tables, keyHolder, req, attempt, seen, picked, reply, result>>
        BY <1>6, <2>2 DEF LockAccount
      <3> QED
        BY <3>1, NobodyAssumption DEF IInv, TypeOK, OwnersOK, GoTo, Moves, After, Locking,
                                      Inserted, Holding, Checked
    <2> QED
      BY <2>1, <2>2
  <1>7. CASE ReplyAccount(r)
    BY <1>7 DEF ReplyAccount, Answers
  <1> QED
    BY <1>1, <1>2, <1>3, <1>4, <1>5, <1>6, <1>7 DEF AccountStep

(* The steps of POST /transfers/cross-currency.                             *)
LEMMA CrossKinds ==
  ASSUME IInv, OwnersOK, NEW r \in Requests, CrossStep(r)
  PROVE  Moves(r) \/ Raises(r) \/ Answers(r) \/ Commits(r)
  <1>1. CASE CheckCapacity(r)
    <2>1. CASE Raise(r, "capacity_exceeded")
      BY <1>1, <2>1 DEF CheckCapacity, Raises, After
    <2>2. CASE ~ Raise(r, "capacity_exceeded")
      BY <1>1, <2>2, GoesOn DEF CheckCapacity, After, Locking, Inserted, Holding, Checked
    <2> QED
      BY <2>1, <2>2
  <1>2. CASE CrossLookup(r)
    BY <1>2, Replays DEF CrossLookup
  <1>3. CASE ReadLatest(r)
    <2>1. CASE Raise(r, "stale_rate")
      BY <1>3, <2>1 DEF ReadLatest, Raises, After
    <2>2. CASE ~ Raise(r, "stale_rate")
      BY <1>3, <2>2, GoesOn DEF ReadLatest, After, Locking, Inserted, Holding, Checked
    <2> QED
      BY <2>1, <2>2
  <1>4. CASE ReadPreview(r)
    <2>1. CASE Raise(r, "stale_rate") \/ Raise(r, "unsupported_currency")
      BY <1>4, <2>1 DEF ReadPreview, Raises, After
    <2>2. CASE ~ (Raise(r, "stale_rate") \/ Raise(r, "unsupported_currency"))
      BY <1>4, <2>2, GoesOn DEF ReadPreview, After, Locking, Inserted, Holding, Checked
    <2> QED
      BY <2>1, <2>2
  <1>5. CASE CrossLockSource(r) \/ CrossLockDestination(r)
    <2>1. req[r] \in CrossBody
      BY <1>5 DEF CrossLockSource, CrossLockDestination, IInv, RequestOK, BodyOK, Quoted
    <2>2. req[r].src \in Numbers /\ req[r].dst \in Numbers
      BY <2>1 DEF CrossBody
    <2>3. {"cross_lock_destination", "cross_check"} \subseteq Locking \ After
      BY DEF Locking, After, Holding
    <2>4. {"cross_lock_source", "cross_lock_destination"} \cap (After \cup {"idle"} \cup Inserted) = {}
      BY DEF After, Inserted
    <2> QED
      BY <1>5, <2>2, <2>3, <2>4, Locks DEF CrossLockSource, CrossLockDestination
  <1>6. CASE CrossCheck(r)
    <2>1. CASE CrossVerdict(r) # "ok"
      BY <1>6, <2>1 DEF CrossCheck, CrossVerdict, Raises, After
    <2>2. CASE CrossVerdict(r) = "ok"
      BY <1>6, <2>2, GoesOn DEF CrossCheck, After, Locking, Inserted, Holding, Checked
    <2> QED
      BY <2>1, <2>2
  <1>7. CASE CrossInsert(r)
    <2>1. CASE Raise(r, "internal_error")
      BY <1>7, <2>1 DEF CrossInsert, Raises, After
    <2>2. CASE InsertUnique(r, "pending")
      BY <1>7, <2>2, Inserts DEF CrossInsert, Inserted
    <2> QED
      BY <1>7, <2>1, <2>2 DEF CrossInsert
  <1>8. CASE Process(r) \/ Complete(r)
    <2>1. /\ pc[r] \in {"pending", "processing"}
          /\ \E next \in {"processing", "completed"} : GoTo(r, next)
          /\ UNCHANGED <<tables, locks, req, reply, result>>
      BY <1>8 DEF Process, Complete, UpdateTransferStatus
    <2> QED
      BY <2>1, GoesOn DEF After, Locking, Inserted, Holding, Checked
  <1>9. CASE CrossCommit(r)
    BY <1>9 DEF Commits
  <1>10. CASE CrossReply(r)
    BY <1>10 DEF CrossReply, Answers
  <1>11. CASE CrossDeadlockAbort(r)
    BY <1>11 DEF CrossDeadlockAbort, Raises, After
  <1> QED
    BY <1>1, <1>2, <1>3, <1>4, <1>5, <1>6, <1>7, <1>8, <1>9, <1>10, <1>11 DEF CrossStep

(* Every step of a handler is of one of the four kinds.                     *)
LEMMA StepKinds ==
  ASSUME IInv, OwnersOK, NEW r \in Requests, Arrive(r) \/ Step(r) \/ Lose(r)
  PROVE  Moves(r) \/ Raises(r) \/ Answers(r) \/ Commits(r)
  <1>1. CASE Arrive(r)
    <2>1. PICK b \in Body, first \in {"lookup", "refuse", "pick_number", "load_account", "capacity"} :
             Receive(r, b, first)
      BY <1>1 DEF Arrive, CreateTransfer, CreateAccount, DeleteAccount,
                  CreateCrossCurrencyTransfer, Body
    <2> QED
      BY <2>1, NobodyAssumption DEF Receive, locks, IInv, TypeOK, OwnersOK, Moves, After, Locking,
                                    Inserted, Holding, Checked
  <1>2. CASE Step(r)
    BY <1>2, TransferKinds, AccountKinds, CrossKinds DEF Step
  <1>3. CASE Lose(r)
    BY <1>3 DEF Lose, Crash, InFlight, Raises
  <1> QED
    BY <1>1, <1>2, <1>3

-----------------------------------------------------------------------------
(* A step of another request leaves alone what request q has answered.      *)
LEMMA OtherAnswers ==
  ASSUME NEW q \in Requests, AnswersOK(q),
         pc'[q] = pc[q], req'[q] = req[q], reply'[q] = reply[q], result'[q] = result[q],
         transfers'[q] = transfers[q],
         \A t \in Requests : Posted(t) => transfers'[t] = transfers[t],
         \A e \in audit' : e \in audit \/ e.by # q
  PROVE  AnswersOK(q)'
  <1>1. \A t : Shows(q, t) => Shows(q, t)'
    BY DEF Shows, Posted
  <1>2. ~ Posted(q) => ~ Posted(q)'
    BY DEF Posted
  <1> QED
    BY <1>1, <1>2 DEF AnswersOK

(* A handler that moves on has written and answered nothing.                *)
LEMMA MovesHandlers ==
  ASSUME IInv, HandlersOK, NEW r \in Requests, Moves(r)
  PROVE  HandlersOK'
  <1>1. OwnersOK'
    <2>1. /\ \A n \in Numbers : lock[n] \in Requests \cup {Nobody}
          /\ \A k \in Keys : keyHolder[k] \in Requests \cup {Nobody}
      BY DEF IInv, TypeOK
    <2>2. ASSUME NEW n \in Numbers, lock'[n] # Nobody PROVE pc'[lock'[n]] \in Locking
      BY <2>1, <2>2 DEF HandlersOK, OwnersOK, Moves
    <2>3. ASSUME NEW k \in Keys, keyHolder'[k] # Nobody PROVE pc'[keyHolder'[k]] \in Inserted
      BY <2>1, <2>3 DEF HandlersOK, OwnersOK, Moves
    <2> QED
      BY <2>2, <2>3 DEF OwnersOK
  <1>2. ASSUME NEW q \in Requests \ {r} PROVE AnswersOK(q)'
    BY OtherAnswers DEF HandlersOK, Moves, tables
  <1>3. AnswersOK(r)'
    BY DEF HandlersOK, AnswersOK, Moves, After, tables
  <1> QED
    BY <1>1, <1>2, <1>3 DEF HandlersOK

(* A handler that raises leaves neither locks nor writes behind.            *)
LEMMA RaisesHandlers ==
  ASSUME IInv, HandlersOK, NEW r \in Requests, Raises(r)
  PROVE  HandlersOK'
  <1>1. PICK o \in {"not_found", "conflict", "limit_exceeded", "insufficient_funds",
                    "unsupported_currency", "account_has_balance", "forbidden",
                    "capacity_exceeded", "stale_rate", "rate_deviation",
                    "internal_error", "lost"} :
           /\ Raise(r, o) /\ pc[r] \notin {"idle", "done"}
           /\ o # "lost" => pc[r] \notin After
    BY DEF Raises
  <1>2. /\ UNCHANGED <<tables, req>> /\ Release(r)
        /\ pc' = [pc EXCEPT ![r] = "done"]
        /\ reply' = [reply EXCEPT ![r] = o] /\ result' = [result EXCEPT ![r] = Nobody]
    BY <1>1 DEF Raise, Rollback, Respond, GoTo
  <1>3. OwnersOK'
    BY <1>2, NobodyAssumption DEF IInv, TypeOK, HandlersOK, OwnersOK, Release
  <1>4. ASSUME NEW q \in Requests \ {r} PROVE AnswersOK(q)'
    BY <1>2, OtherAnswers DEF IInv, TypeOK, HandlersOK, tables
  <1>5. AnswersOK(r)'
    <2>1. pc'[r] = "done" /\ reply'[r] = o
      BY <1>2 DEF IInv, TypeOK
    <2>2. o # "lost" => ~ Posted(r) /\ \A e \in audit : e.by # r
      BY <1>1 DEF HandlersOK, AnswersOK, IInv, RequestOK, RowsOK, Posted, After
    <2> QED
      BY <1>1, <1>2, <2>1, <2>2 DEF AnswersOK, After, Posted, tables
  <1> QED
    BY <1>3, <1>4, <1>5 DEF HandlersOK

(* A handler that answers shows its own transfer or the one it replays.     *)
LEMMA AnswersHandlers ==
  ASSUME IInv, HandlersOK, NEW r \in Requests, Answers(r)
  PROVE  HandlersOK'
  <1>1. PICK o \in {"created", "replayed", "deleted"}, t \in Requests \cup {Nobody} :
           /\ Respond(r, o, t)
           /\ o \in {"created", "replayed"} /\ req[r].kind # "create" => Shows(r, t)
    BY DEF Answers, RecordOf, Shows, HandlersOK, AnswersOK
  <1>2. /\ UNCHANGED <<tables, locks, req>>
        /\ pc' = [pc EXCEPT ![r] = "done"]
        /\ reply' = [reply EXCEPT ![r] = o] /\ result' = [result EXCEPT ![r] = t]
    BY <1>1 DEF Answers, Respond, GoTo
  <1>3. pc[r] \notin Locking \cup Inserted
    BY DEF Answers, Locking, Holding, Checked, Inserted
  <1>4. OwnersOK'
    BY <1>2, <1>3 DEF IInv, TypeOK, HandlersOK, OwnersOK, locks
  <1>5. ASSUME NEW q \in Requests \ {r} PROVE AnswersOK(q)'
    BY <1>2, OtherAnswers DEF IInv, TypeOK, HandlersOK, tables
  <1>6. AnswersOK(r)'
    <2>1. pc'[r] = "done" /\ reply'[r] = o /\ result'[r] = t
      BY <1>2 DEF IInv, TypeOK
    <2> QED
      BY <1>1, <1>2, <2>1 DEF AnswersOK, After, Shows, Posted, tables
  <1> QED
    BY <1>4, <1>5, <1>6 DEF HandlersOK

(* A commit releases the locks and leaves only what bears its own name.     *)
LEMMA CommitsHandlers ==
  ASSUME IInv, HandlersOK, NEW r \in Requests, Commits(r)
  PROVE  HandlersOK'
  <1>1. /\ Release(r) /\ UNCHANGED <<req, reply, result>>
        /\ pc[r] \in {"commit", "commit_account", "commit_close", "completed"}
        /\ \E next \in {"reply", "replied", "cross_reply"} : pc' = [pc EXCEPT ![r] = next]
    BY DEF Commits, Commit, CommitAccount, CommitClose, CrossCommit, GoTo
  <1>2. OwnersOK'
    BY <1>1, NobodyAssumption DEF IInv, TypeOK, HandlersOK, OwnersOK, Release
  <1>3. transfers[r] = NoRow /\ reply[r] = "none"
    BY <1>1 DEF IInv, RequestOK, RowsOK, HandlersOK, AnswersOK
  <1>4. \A e \in audit' : e \in audit \/ e.by = r
    BY DEF Commits, Commit, CommitAccount, CommitClose, CrossCommit, CrossAudit, DeliveryAudit, Audit
  <1>5. \A q \in Requests \ {r} : transfers'[q] = transfers[q]
    BY DEF Commits, Commit, CommitAccount, CommitClose, CrossCommit, IInv, TypeOK
  <1>6. ASSUME NEW q \in Requests \ {r} PROVE AnswersOK(q)'
    BY <1>1, <1>3, <1>4, <1>5, OtherAnswers DEF IInv, TypeOK, HandlersOK, Posted
  <1>7. AnswersOK(r)'
    <2>1. pc'[r] \in {"reply", "cross_reply"} => Shows(r, r)'
      <3>1. CASE Commit(r)
        <4>1. transfers'[r] = NewTransfer(r) /\ NewTransfer(r) \in TransferRow
          BY <3>1, CommitFacts DEF Commit, IInv, TypeOK
        <4> QED
          BY <1>1, <4>1, NoTransferAssumption DEF Shows, Posted, NewTransfer
      <3>2. CASE CrossCommit(r)
        <4>1. transfers'[r] = CrossTransfer(r) /\ CrossTransfer(r) \in TransferRow
          BY <3>2, CrossCommitFacts DEF CrossCommit, IInv, TypeOK
        <4> QED
          BY <1>1, <4>1, NoTransferAssumption DEF Shows, Posted, CrossTransfer
      <3>3. CASE CommitAccount(r) \/ CommitClose(r)
        BY <3>3 DEF CommitAccount, CommitClose, GoTo, IInv, TypeOK
      <3> QED
        BY <3>1, <3>2, <3>3 DEF Commits
    <2>2. pc'[r] = "replied" => req'[r].kind \in {"create", "delete"}
      <3>1. CASE CommitAccount(r) \/ CommitClose(r)
        BY <1>1, <3>1 DEF CommitAccount, CommitClose, IInv, RequestOK, BodyOK, CreateBody, DeleteBody
      <3>2. CASE Commit(r) \/ CrossCommit(r)
        BY <3>2 DEF Commit, CrossCommit, GoTo, IInv, TypeOK
      <3> QED
        BY <3>1, <3>2 DEF Commits
    <2>3. pc'[r] \in After /\ reply'[r] = "none" /\ reply[r] = "none"
      BY <1>1, <1>3 DEF IInv, TypeOK, After
    <2> QED
      BY <2>1, <2>2, <2>3 DEF AnswersOK
  <1> QED
    BY <1>2, <1>6, <1>7 DEF HandlersOK

(* What is said of the handlers holds at the start.                         *)
LEMMA InitHandlers == Init => HandlersOK
  BY NobodyAssumption DEF Init, StoreInit, HandlersOK, OwnersOK, AnswersOK, After, Audit

(* What is said of the handlers is kept by every step.                      *)
LEMMA NextHandlers == IInv /\ HandlersOK /\ [Next]_vars => HandlersOK'
  <1> SUFFICES ASSUME IInv, HandlersOK, [Next]_vars PROVE HandlersOK'
    OBVIOUS
  <1>1. CASE UNCHANGED storeVars
    <2>1. UNCHANGED <<transfers, audit, lock, keyHolder, req, pc, reply, result>>
      BY <1>1 DEF storeVars
    <2> QED
      BY <2>1, OtherAnswers DEF HandlersOK, OwnersOK
  <1>2. ASSUME NEW r \in Requests, Arrive(r) \/ Step(r) \/ Lose(r) PROVE HandlersOK'
    <2>1. Moves(r) \/ Raises(r) \/ Answers(r) \/ Commits(r)
      BY <1>2, StepKinds DEF HandlersOK
    <2> QED
      BY <2>1, MovesHandlers, RaisesHandlers, AnswersHandlers, CommitsHandlers
  <1>3. CASE InsertSnapshot \/ MarkStale \/ Elapse
    BY <1>1, <1>3 DEF InsertSnapshot, MarkStale, Elapse
  <1> QED
    BY <1>1, <1>2, <1>3 DEF Next, Quiescent, vars

-----------------------------------------------------------------------------
(* What is said of the handlers holds throughout every behaviour.           *)
THEOREM Handlers == Spec => []HandlersOK
  BY InitHandlers, NextHandlers, Invariance, PTL DEF Spec

(* A request that is refused has done nothing, at whichever statement it    *)
(* was refused: it holds no key, told nobody and recorded no success.       *)
THEOREM RefusedDoNothing == Spec => []RefusedDidNothing
  <1>1. HandlersOK /\ CompletionIsWhole => RefusedDidNothing
    <2> SUFFICES ASSUME HandlersOK, CompletionIsWhole, NEW r \in Requests,
                        reply[r] \notin {"none", "created", "deleted", "replayed", "lost"}
                 PROVE  /\ ~ Posted(r)
                        /\ \A n \in notifications : n.transfer # r
                        /\ \A e \in audit : e.by = r => e.op \notin DoneOps
      BY DEF RefusedDidNothing
    <2>1. ~ Posted(r) /\ \A e \in audit : e.by # r
      BY DEF HandlersOK, AnswersOK
    <2>2. \A n \in notifications : Posted(n.transfer)
      BY DEF CompletionIsWhole
    <2> QED
      BY <2>1, <2>2
  <1> QED
    BY <1>1, Handlers, CompletionWhole, PTL

(* All the responses for one idempotency key show one and the same          *)
(* committed transfer, although the key is looked up outside the            *)
(* transaction that uses it.                                                *)
THEOREM ResponsesConsistent == Spec => []ResponsesAgree
  <1>1. IInv /\ HandlersOK => ResponsesAgree
    BY DEF IInv, AtMostOncePerKey, HandlersOK, AnswersOK, Shows, ResponsesAgree
  <1> QED
    BY <1>1, Handlers, Invariance, PTL

-----------------------------------------------------------------------------
(* The daily limit.  Between the check of the volume and the commit of the  *)
(* row the account stays locked, so that no other transfer of it can be     *)
(* added to the volume; transfers of other accounts do not matter, and the  *)
(* passing of time only takes away.                                         *)
DayOK ==
    /\ \A t \in recent : Posted(t)
    /\ DailyLimitKept
    /\ \A r \in Requests, n \in Numbers : pc[r] \in Checked /\ req[r].src = n =>
          DailyVolume(n) + AmountUsd(r) <= LimitPerDayUsd

Counted(n) == {t \in recent : /\ transfers[t].src = n
                              /\ transfers[t].status \in {"completed", "processing"}}

(* What is summed up are finitely many natural numbers.                     *)
LEMMA VolumeFacts ==
  ASSUME IInv, \A t \in recent : Posted(t), NEW n
  PROVE  /\ IsFiniteSet(Counted(n)) /\ Counted(n) \subseteq Requests
         /\ \A t \in Counted(n) : transfers[t].usd \in Nat
         /\ DailyVolume(n) = SumFunction([t \in Counted(n) |-> transfers[t].usd])
         /\ DailyVolume(n) \in Nat
  <1>1. Counted(n) \subseteq Requests /\ IsFiniteSet(Counted(n))
    BY RequestsAssumption, FS_Subset DEF IInv, TypeOK, Counted
  <1>2. \A t \in Counted(n) : transfers[t].usd \in Nat
    BY DEF IInv, TypeOK, Posted, TransferRow, Counted
  <1> DEFINE f == [t \in Counted(n) |-> transfers[t].usd]
  <1>3. DailyVolume(n) = SumFunction(f)
    BY DEF DailyVolume, Counted
  <1>4. SumFunctionOnSet(f, Counted(n)) \in Nat
    BY <1>1, <1>2, SumNat
  <1> QED
    BY <1>1, <1>2, <1>3, <1>4 DEF SumFunction

(* Rows that are not written again leave the volume as it is.               *)
LEMMA VolumeKept ==
  ASSUME recent' = recent, \A t \in recent : transfers'[t] = transfers[t], NEW n
  PROVE  DailyVolume(n)' = DailyVolume(n)
  <1>1. Counted(n)' = Counted(n)
    BY DEF Counted
  <1>2. [t \in Counted(n) |-> transfers[t].usd]' = [t \in Counted(n) |-> transfers[t].usd]
    BY <1>1 DEF Counted
  <1> QED
    BY <1>2 DEF DailyVolume, Counted

(* The volume falls when a transfer leaves the window.                      *)
LEMMA VolumeFalls ==
  ASSUME IInv, \A t \in recent : Posted(t), Elapse, NEW n
  PROVE  DailyVolume(n)' <= DailyVolume(n) /\ DailyVolume(n)' \in Int
  <1>1. PICK u \in recent : recent' = recent \ {u}
    BY DEF Elapse
  <1>2. transfers' = transfers
    BY DEF Elapse, storeVars
  <1>3. \A t \in recent' : Posted(t)'
    BY <1>1, <1>2 DEF Posted
  <1> DEFINE f == [t \in Counted(n)' |-> transfers[t].usd]
             g == [t \in Counted(n) |-> transfers[t].usd]
  <1>4. /\ DailyVolume(n) = SumFunction(g) /\ DailyVolume(n) \in Nat
        /\ DailyVolume(n)' = SumFunction(f) /\ DailyVolume(n)' \in Nat
    <2>1. DailyVolume(n) = SumFunction(g) /\ DailyVolume(n) \in Nat
      BY VolumeFacts
    <2>2. DailyVolume(n)' = SumFunction(f)
      BY <1>2 DEF DailyVolume, Counted
    <2>3. DailyVolume(n)' \in Nat
      <3>1. Counted(n)' \subseteq Counted(n)
        BY <1>1, <1>2 DEF Counted
      <3>2. IsFiniteSet(Counted(n)') /\ \A t \in Counted(n)' : f[t] \in Nat
        BY <3>1, VolumeFacts, FS_Subset
      <3>3. SumFunctionOnSet(f, Counted(n)') \in Nat
        BY <3>2, SumNat
      <3> QED
        BY <2>2, <3>3 DEF SumFunction
    <2> QED
      BY <2>1, <2>2, <2>3
  <1>5. CASE u \in Counted(n)
    <2>1. Counted(n) = Counted(n)' \cup {u} /\ u \notin Counted(n)'
      BY <1>1, <1>2, <1>5 DEF Counted
    <2>2. /\ IsFiniteSet(Counted(n)') /\ g[u] \in Nat
          /\ \A t \in Counted(n)' : f[t] \in Int /\ g[t] = f[t]
      <3>1. IsFiniteSet(Counted(n)) /\ \A t \in Counted(n) : transfers[t].usd \in Nat
        BY VolumeFacts
      <3>2. Counted(n)' \subseteq Counted(n)
        BY <2>1
      <3>3. IsFiniteSet(Counted(n)')
        BY <3>1, <3>2, FS_Subset
      <3> QED
        BY <1>5, <3>1, <3>2, <3>3
    <2>3. SumFunction(g) = SumFunction(f) + g[u]
      <3>1. DOMAIN f = Counted(n)' /\ DOMAIN g = Counted(n)' \cup {u}
        BY <2>1
      <3> HIDE DEF f, g
      <3> QED
        BY <2>1, <2>2, <3>1, SumExtended
    <2> QED
      BY <1>4, <2>2, <2>3
  <1>6. CASE u \notin Counted(n)
    <2>1. Counted(n)' = Counted(n)
      BY <1>1, <1>2, <1>6 DEF Counted
    <2> QED
      BY <1>4, <2>1
  <1> QED
    BY <1>5, <1>6

(* A commit adds its own amount to the volume of its own source.            *)
LEMMA VolumeRises ==
  ASSUME IInv, \A t \in recent : Posted(t), NEW r \in Requests, CrossCommit(r), NEW n
  PROVE  DailyVolume(n)' = DailyVolume(n) + (IF n = req[r].src THEN AmountUsd(r) ELSE 0)
  <1>1. /\ recent' = recent \cup {r} /\ pc[r] = "completed"
        /\ transfers' = [transfers EXCEPT ![r] = CrossTransfer(r)]
    BY DEF CrossCommit
  <1>2. r \notin recent /\ transfers \in [Requests -> TransferRow \cup {NoRow}] /\ recent \subseteq Requests
    BY <1>1 DEF IInv, TypeOK, RequestOK, RowsOK, Posted
  <1>3. /\ \A t \in recent : transfers'[t] = transfers[t]
        /\ transfers'[r].src = req[r].src /\ transfers'[r].status = "completed"
        /\ transfers'[r].usd = AmountUsd(r)
    BY <1>1, <1>2 DEF CrossTransfer
  <1> DEFINE f == [t \in Counted(n) |-> transfers[t].usd]
             g == [t \in Counted(n)' |-> transfers'[t].usd]
  <1>4. /\ DailyVolume(n) = SumFunction(f) /\ DailyVolume(n) \in Nat
        /\ DailyVolume(n)' = SumFunction(g)
    BY VolumeFacts DEF DailyVolume, Counted
  <1>5. CASE n = req[r].src
    <2>1. Counted(n)' = Counted(n) \cup {r} /\ r \notin Counted(n)
      BY <1>1, <1>2, <1>3, <1>5 DEF Counted
    <2>2. /\ IsFiniteSet(Counted(n)) /\ AmountUsd(r) \in Nat
          /\ \A t \in Counted(n) : transfers[t].usd \in Nat /\ transfers'[t] = transfers[t]
      <3>1. AmountUsd(r) \in Nat
        BY CrossCommitFacts
      <3>2. IsFiniteSet(Counted(n)) /\ \A t \in Counted(n) : transfers[t].usd \in Nat
        BY VolumeFacts
      <3> QED
        BY <1>3, <3>1, <3>2 DEF Counted
    <2>3. /\ DOMAIN f = Counted(n) /\ DOMAIN g = Counted(n) \cup {r}
          /\ \A t \in Counted(n) : f[t] \in Int /\ g[t] = f[t]
          /\ g[r] = AmountUsd(r) /\ g[r] \in Int
      BY <1>3, <2>1, <2>2
    <2>4. SumFunction(g) = SumFunction(f) + g[r]
      <3> HIDE DEF f, g
      <3> QED
        BY <2>1, <2>2, <2>3, SumExtended
    <2> QED
      BY <1>4, <1>5, <2>3, <2>4
  <1>6. CASE n # req[r].src
    <2>1. Counted(n)' = Counted(n)
      BY <1>1, <1>2, <1>3, <1>6 DEF Counted
    <2>2. g = f
      BY <1>3, <2>1 DEF Counted
    <2> QED
      BY <1>4, <1>6, <2>2
  <1> QED
    BY <1>5, <1>6

(* A transfers row is never written again.                                  *)
LEMMA RowsKept ==
  ASSUME IInv, OwnersOK, NEW r \in Requests, Arrive(r) \/ Step(r) \/ Lose(r)
  PROVE  \A t \in Requests : Posted(t) => transfers'[t] = transfers[t]
  <1>1. CASE Moves(r) \/ Answers(r)
    BY <1>1 DEF Moves, Answers, tables
  <1>2. CASE Raises(r)
    BY <1>2 DEF Raises, Raise, Rollback, tables
  <1>3. CASE Commits(r)
    <2>1. transfers[r] = NoRow
      BY <1>3 DEF Commits, Commit, CommitAccount, CommitClose, CrossCommit, IInv, RequestOK, RowsOK
    <2>2. \A q \in Requests \ {r} : transfers'[q] = transfers[q]
      BY <1>3 DEF Commits, Commit, CommitAccount, CommitClose, CrossCommit, IInv, TypeOK
    <2> QED
      BY <2>1, <2>2 DEF Posted
  <1> QED
    BY <1>1, <1>2, <1>3, StepKinds

(* What a step of r, other than its commit, does to the window, to what the *)
(* other handlers have checked, and to what r has checked.                  *)
ChecksKept(r) ==
    /\ recent' = recent /\ snapshots' = snapshots
    /\ \A q \in Requests \ {r} : pc'[q] = pc[q] /\ req'[q] = req[q] /\ quote'[q] = quote[q]
    /\ pc'[r] \in Checked =>
          /\ req'[r] = req[r] /\ quote'[r] = quote[r]
          /\ pc[r] \in Checked \/ (pc[r] = "cross_check" /\ CrossVerdict(r) = "ok")

(* Every handler passes the check of the volume before its insertion.       *)
LEMMA StepsKeepChecks ==
  ASSUME IInv, NEW r \in Requests, Arrive(r) \/ Step(r) \/ Lose(r), ~ CrossCommit(r)
  PROVE  ChecksKept(r)
  <1>1. ASSUME UNCHANGED fx, req' = req, NEW next, GoTo(r, next),
               next \in Checked =>
                  pc[r] \in Checked \/ (pc[r] = "cross_check" /\ CrossVerdict(r) = "ok")
        PROVE  ChecksKept(r)
    BY <1>1, FxKept DEF ChecksKept, GoTo, IInv, TypeOK
  <1>2. CASE Arrive(r)
    <2>1. PICK b \in Body, first \in {"lookup", "refuse", "pick_number", "load_account", "capacity"} :
             Receive(r, b, first)
      BY <1>2 DEF Arrive, CreateTransfer, CreateAccount, DeleteAccount,
                  CreateCrossCurrencyTransfer, Body
    <2>2. UNCHANGED fx
      BY <1>2 DEF Arrive, CreateCrossCurrencyTransfer
    <2> QED
      BY <2>1, <2>2, FxKept DEF Receive, ChecksKept, Checked, IInv, TypeOK
  <1>3. CASE Lose(r)
    BY <1>1, <1>3 DEF Lose, Crash, Raise, Respond, Checked
  <1>4. CASE TransferStep(r) /\ UNCHANGED fx
    BY <1>1, <1>4 DEF TransferStep, Lookup, ReplayOr, LockSource, LockDestination, LockActive,
                      Check, Insert, InsertUnique, Commit, Reply, DeadlockAbort, Raise, Respond,
                      Checked
  <1>5. CASE AccountStep(r) /\ UNCHANGED fx
    BY <1>1, <1>5 DEF AccountStep, RefuseCurrency, PickNumber, InsertAccount, CommitAccount,
                      LoadAccount, LockAccount, CommitClose, ReplyAccount, Raise, Respond, Checked
  <1>6. CASE ReadLatest(r)
    BY <1>1, <1>6 DEF ReadLatest, Raise, Respond, Checked, ChecksKept, GoTo, IInv, TypeOK
  <1>7. CASE CrossStep(r) /\ ~ ReadLatest(r)
    BY <1>1, <1>7 DEF CrossStep, CheckCapacity, CrossLookup, ReplayOr, ReadPreview,
                      CrossLockSource, CrossLockDestination, LockActive, CrossCheck, CrossInsert,
                      InsertUnique, Process, Complete, UpdateTransferStatus, CrossReply,
                      CrossDeadlockAbort, Raise, Respond, Checked
  <1> QED
    BY <1>2, <1>3, <1>4, <1>5, <1>6, <1>7 DEF Step

(* The amount in USD depends on the body and on the quoted snapshot.        *)
LEMMA UsdKept ==
  ASSUME SnapshotsKept, NEW q \in Requests, quote[q] \in DOMAIN snapshots,
         req'[q] = req[q], quote'[q] = quote[q]
  PROVE  AmountUsd(q)' = AmountUsd(q)
  BY DEF SnapshotsKept, AmountUsd, CurrentRates

(* A handler's step keeps the limit of the day.                             *)
LEMMA StepDay ==
  ASSUME IInv, OwnersOK, DayOK, NEW r \in Requests, Arrive(r) \/ Step(r) \/ Lose(r)
  PROVE  DayOK'
  <1>1. \A t \in Requests : Posted(t) => transfers'[t] = transfers[t]
    BY RowsKept
  <1>2. \A t \in recent : Posted(t)
    BY DEF DayOK
  <1>3. recent \subseteq Requests
    BY DEF IInv, TypeOK
  <1>4. \A q \in Requests : pc[q] \in Checked => /\ quote[q] \in DOMAIN snapshots
                                                 /\ req[q].src \in Numbers /\ lock[req[q].src] = q
    BY DEF IInv, RequestOK, BodyOK, LocksOK, CrossBody, Quoted, Holding
  <1>5. CASE ~ CrossCommit(r)
    <2>1. ChecksKept(r)
      BY <1>5, StepsKeepChecks
    <2>2. SnapshotsKept
      BY <2>1 DEF ChecksKept, SnapshotsKept
    <2>3. \A n \in Numbers : DailyVolume(n)' = DailyVolume(n)
      BY <1>1, <1>2, <1>3, <2>1, VolumeKept DEF ChecksKept
    <2>4. ASSUME NEW q \in Requests, NEW n \in Numbers, pc'[q] \in Checked, req'[q].src = n
          PROVE  DailyVolume(n)' + AmountUsd(q)' <= LimitPerDayUsd
      <3>1. /\ req'[q] = req[q] /\ quote'[q] = quote[q]
            /\ pc[q] \in Checked \/ (pc[q] = "cross_check" /\ CrossVerdict(q) = "ok")
        BY <2>1, <2>4 DEF ChecksKept
      <3>2. req[q].src = n /\ quote[q] \in DOMAIN snapshots
        BY <2>4, <3>1 DEF IInv, RequestOK, BodyOK, Quoted, Holding
      <3>3. DailyVolume(n) + AmountUsd(q) <= LimitPerDayUsd
        <4>1. CASE pc[q] \in Checked
          BY <3>2, <4>1 DEF DayOK
        <4>2. CASE pc[q] = "cross_check" /\ CrossVerdict(q) = "ok"
          <5>1. DailyVolume(n) \in Nat
            BY <1>2, VolumeFacts
          <5>2. AmountUsd(q) \in Nat /\ ~ OverLimit(q)
            BY <4>2, RateTypes DEF CrossVerdict, Holding
          <5> QED
            BY <3>2, <5>1, <5>2, LimitsAssumption DEF OverLimit
        <4> QED
          BY <3>1, <4>1, <4>2
      <3>4. AmountUsd(q)' = AmountUsd(q)
        BY <2>2, <3>1, <3>2, UsdKept
      <3> QED
        BY <2>3, <3>3, <3>4
    <2>5. \A t \in recent' : Posted(t)'
      BY <1>1, <1>2, <1>3, <2>1 DEF ChecksKept, Posted
    <2> QED
      BY <2>3, <2>4, <2>5 DEF DayOK, DailyLimitKept
  <1>6. CASE CrossCommit(r)
    <2>1. /\ pc[r] = "completed" /\ recent' = recent \cup {r} /\ snapshots' = snapshots
          /\ quote' = quote /\ req' = req /\ pc' = [pc EXCEPT ![r] = "cross_reply"]
      BY <1>6 DEF CrossCommit, GoTo
    <2>2. \A n \in Numbers : n = req[r].src => DailyVolume(n) + AmountUsd(r) <= LimitPerDayUsd
      BY <2>1 DEF DayOK, Checked
    <2>3. \A n \in Numbers : /\ DailyVolume(n) \in Nat
                             /\ n = req[r].src => DailyVolume(n)' = DailyVolume(n) + AmountUsd(r)
                             /\ n # req[r].src => DailyVolume(n)' = DailyVolume(n)
      <3>1. ASSUME NEW n \in Numbers
            PROVE  /\ DailyVolume(n) \in Nat
                   /\ DailyVolume(n)' = DailyVolume(n) + (IF n = req[r].src THEN AmountUsd(r) ELSE 0)
        BY <1>2, <1>6, VolumeFacts, VolumeRises
      <3> QED
        BY <3>1
    <2>4. DailyLimitKept'
      BY <2>2, <2>3 DEF DayOK, DailyLimitKept
    <2>5. ASSUME NEW q \in Requests, NEW n \in Numbers, pc'[q] \in Checked, req'[q].src = n
          PROVE  DailyVolume(n)' + AmountUsd(q)' <= LimitPerDayUsd
      <3>1. q # r /\ pc[q] \in Checked
        BY <2>1, <2>5 DEF IInv, TypeOK, Checked
      <3>2. req[q].src = n /\ n # req[r].src /\ quote[q] \in DOMAIN snapshots
        BY <1>4, <2>1, <2>5, <3>1 DEF Checked
      <3>3. AmountUsd(q)' = AmountUsd(q)
        BY <2>1, <3>2, UsdKept DEF SnapshotsKept
      <3> QED
        BY <2>3, <3>1, <3>2, <3>3 DEF DayOK
    <2>6. \A t \in recent' : Posted(t)'
      <3>1. Posted(r)'
        <4>1. CrossTransfer(r) \in TransferRow
          BY <1>6, CrossCommitFacts
        <4> QED
          BY <1>6, <4>1, NoTransferAssumption DEF CrossCommit, IInv, TypeOK, Posted
      <3> QED
        BY <1>1, <1>2, <1>3, <2>1, <3>1 DEF Posted
    <2> QED
      BY <2>4, <2>5, <2>6 DEF DayOK
  <1> QED
    BY <1>5, <1>6

(* The limit holds at the start.                                            *)
LEMMA InitDay == Init => DayOK
  <1> SUFFICES ASSUME Init PROVE DayOK
    OBVIOUS
  <1>1. recent = {} /\ \A r \in Requests : pc[r] = "idle"
    BY DEF Init, StoreInit, CrossInit
  <1>2. \A n \in Numbers : DailyVolume(n) \in Nat /\ DailyVolume(n) = 0
    <2>1. ASSUME NEW n \in Numbers PROVE DailyVolume(n) = 0
      <3> DEFINE f == [t \in Counted(n) |-> transfers[t].usd]
      <3>1. Counted(n) = {} /\ DailyVolume(n) = SumFunction(f)
        BY <1>1 DEF Counted, DailyVolume
      <3>2. DOMAIN f = {}
        BY <3>1
      <3> HIDE DEF f
      <3> QED
        BY <3>1, <3>2, SumEmpty DEF SumFunction
    <2> QED
      BY <2>1
  <1> QED
    BY <1>1, <1>2, LimitsAssumption DEF DayOK, DailyLimitKept, Checked

(* The limit is kept by every step.                                         *)
LEMMA NextDay == IInv /\ OwnersOK /\ DayOK /\ [Next]_vars => DayOK'
  <1> SUFFICES ASSUME IInv, OwnersOK, DayOK, [Next]_vars PROVE DayOK'
    OBVIOUS
  <1>1. ASSUME UNCHANGED storeVars, SnapshotsKept, quote' = quote, recent' \subseteq recent,
               \A n \in Numbers : DailyVolume(n)' <= DailyVolume(n),
               \A n \in Numbers : DailyVolume(n)' \in Int
        PROVE  DayOK'
    <2>1. UNCHANGED <<transfers, pc, req>>
      BY <1>1 DEF storeVars
    <2>2. \A n \in Numbers : DailyVolume(n) \in Nat
      BY VolumeFacts DEF DayOK
    <2>3. DailyLimitKept'
      BY <1>1, <2>2, LimitsAssumption DEF DayOK, DailyLimitKept
    <2>4. ASSUME NEW q \in Requests, NEW n \in Numbers, pc'[q] \in Checked, req'[q].src = n
          PROVE  DailyVolume(n)' + AmountUsd(q)' <= LimitPerDayUsd
      <3>1. quote[q] \in DOMAIN snapshots /\ pc[q] \in Checked /\ req[q].src = n
        BY <2>1, <2>4 DEF IInv, RequestOK, BodyOK, Quoted, Holding
      <3>2. AmountUsd(q)' = AmountUsd(q)
        BY <1>1, <2>1, <3>1, UsdKept
      <3>3. AmountUsd(q) \in Nat
        BY <3>1, RateTypes DEF IInv, RequestOK, SeenOK, Cleared, Holding
      <3> QED
        BY <1>1, <2>2, <3>1, <3>2, <3>3, LimitsAssumption DEF DayOK
    <2>5. \A t \in recent' : Posted(t)'
      BY <1>1, <2>1 DEF DayOK, Posted
    <2> QED
      BY <2>3, <2>4, <2>5 DEF DayOK
  <1>2. ASSUME UNCHANGED <<transfers, recent>>, NEW n \in Numbers
        PROVE  DailyVolume(n)' <= DailyVolume(n) /\ DailyVolume(n)' \in Int
    <2>1. DailyVolume(n)' = DailyVolume(n)
      BY <1>2, VolumeKept
    <2>2. DailyVolume(n) \in Nat
      BY VolumeFacts DEF DayOK
    <2> QED
      BY <2>1, <2>2
  <1>3. CASE UNCHANGED vars
    BY <1>1, <1>2, <1>3 DEF vars, storeVars, fx, SnapshotsKept
  <1>4. ASSUME NEW r \in Requests, Arrive(r) \/ Step(r) \/ Lose(r) PROVE DayOK'
    BY <1>4, StepDay
  <1>5. CASE InsertSnapshot \/ MarkStale
    <2>1. UNCHANGED <<storeVars, quote, recent>>
      BY <1>5 DEF InsertSnapshot, MarkStale
    <2>2. SnapshotsKept
      <3>1. CASE InsertSnapshot
        BY <3>1 DEF InsertSnapshot, SnapshotsKept, IInv, TypeOK
      <3>2. CASE MarkStale
        BY <3>2 DEF MarkStale, SnapshotsKept, IInv, TypeOK, SnapshotRow
      <3> QED
        BY <1>5, <3>1, <3>2
    <2> QED
      BY <1>1, <1>2, <2>1, <2>2 DEF storeVars
  <1>6. CASE Elapse
    <2>1. UNCHANGED <<storeVars, quote, snapshots>> /\ recent' \subseteq recent
      BY <1>6 DEF Elapse
    <2>2. \A n \in Numbers : DailyVolume(n)' <= DailyVolume(n) /\ DailyVolume(n)' \in Int
      BY <1>6, VolumeFalls DEF DayOK
    <2> QED
      BY <1>1, <2>1, <2>2 DEF SnapshotsKept
  <1> QED
    BY <1>3, <1>4, <1>5, <1>6 DEF Next, Quiescent

(* The volume of a day stays within its limit, whatever the order in which  *)
(* the handlers check it and commit.                                        *)
THEOREM LimitKept == Spec => []DailyLimitKept
  <1>1. Spec => []DayOK
    <2>1. HandlersOK => OwnersOK
      BY DEF HandlersOK
    <2> QED
      BY <2>1, InitDay, NextDay, Handlers, Invariance, PTL DEF Spec
  <1>2. DayOK => DailyLimitKept
    BY DEF DayOK
  <1> QED
    BY <1>1, <1>2, PTL
===============================================================================
