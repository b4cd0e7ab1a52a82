---------------------------- MODULE MCFundTransfer ----------------------------
(***************************************************************************)
(* Small instances of FundTransfer.  Amounts and balances are ticks; with   *)
(* Quantum = 2 an odd amount is half a stored unit.                         *)
(***************************************************************************)
EXTENDS FundTransfer, TLC

CONSTANTS r1, r2, r3, A, B, C, k1, k2, alice, bob, EUR, USD, JPY, anon

MCCurrencies == {EUR, USD}
MCMaxTransfer == EUR :> 8 @@ USD :> 8
MCRates == <<EUR, USD>> :> 3 @@ <<USD, EUR>> :> 1
OneWayRates == <<EUR, USD>> :> 3

Account(c, b) == [status |-> "active", balance |-> b, currency |-> c, owner |-> alice]

Send(s, d, a, k, c) == [kind |-> "transfer", src |-> s, dst |-> d, amount |-> a,
                        key |-> k, caller |-> c]
Open(c, b) == [kind |-> "create", currency |-> c, opening |-> b, owner |-> alice]
Delete(n, c, o) == [kind |-> "delete", number |-> n, caller |-> c, operator |-> o]

MCSymmetry == Permutations(Requests)

(* Transfers both ways between two accounts, with shared and fresh keys, to *)
(* an account that may not exist yet, over the limit and over the balance;  *)
(* accounts are opened under numbers that may collide, closed and filled.   *)
ServiceAccounts ==
    {A :> Account(EUR, 6) @@ B :> Account(USD, 2) @@ C :> NoRow,
     A :> Account(EUR, 0) @@ B :> Account(EUR, 4) @@ C :> NoRow}
ServiceWorkload ==
    {Send(A, B, 4, k1, alice), Send(A, B, 4, k2, alice), Send(B, A, 2, k2, alice),
     Send(A, B, 2, k1, bob), Send(A, C, 2, k2, alice), Send(A, B, 10, k1, alice),
     Send(B, A, 4, k1, alice),
     Open(EUR, 4), Open(JPY, 0), Delete(A, alice, FALSE), Delete(A, bob, FALSE),
     Delete(B, bob, TRUE)}

(* A deposit races the closing of the account it goes to.                   *)
ClosingAccounts == {A :> Account(EUR, 0) @@ B :> Account(EUR, 4)}
ClosingWorkload == {Delete(A, alice, FALSE), Send(B, A, 4, k1, alice)}
-----------------------------------------------------------------------------
(* Cross-currency transfers.  The second table of the feed is a third above *)
(* the first, over the threshold of 30 percent, and does not quote USD/EUR. *)
OneFeedRate == {<<EUR, USD>> :> 6 @@ <<USD, EUR>> :> 3 @@ <<EUR, EUR>> :> 4}
MCFeedRates == OneFeedRate \cup {<<EUR, USD>> :> 8}
MCActivePairs == {<<EUR, USD>>, <<USD, EUR>>}

Cross(s, d, a, from, to, p, k, c) ==
    [kind |-> "cross", src |-> s, dst |-> d, amount |-> a, from |-> from, to |-> to,
     snapshot |-> p, key |-> k, caller |-> c]

CrossAccounts == {A :> Account(EUR, 14) @@ B :> Account(USD, 6)}

(* Previews of either snapshot, both directions, a transfer to the same     *)
(* account, another caller, a pair that is not active, a source in another  *)
(* currency, amounts over the limit and over the balance; a transfer of the *)
(* other service under a shared key, and the closing of an account.  With   *)
(* the second accounts A covers a second amount, but not its fee.           *)
CrossWorkload ==
    {Cross(A, B, 4, EUR, USD, 1, k1, alice), Cross(A, B, 4, EUR, USD, 2, k2, alice),
     Cross(A, B, 4, EUR, USD, 1, k2, alice),
     Cross(B, A, 4, USD, EUR, 1, k2, alice), Cross(A, A, 4, EUR, USD, 1, k2, alice),
     Cross(A, B, 4, EUR, USD, 1, k1, bob), Cross(A, B, 4, EUR, EUR, 1, k1, alice),
     Cross(B, A, 4, EUR, USD, 1, k1, alice), Cross(B, A, 8, USD, EUR, 1, k1, alice),
     Cross(A, B, 8, EUR, USD, 2, k1, alice),
     Send(A, B, 8, k2, alice), Delete(B, alice, FALSE)}
MixedAccounts == CrossAccounts \cup {A :> Account(EUR, 10) @@ B :> Account(USD, 0)}

(* The two services lock the two accounts in opposite orders.               *)
ProgressWorkload ==
    {Send(A, B, 2, k1, alice), Cross(B, A, 4, USD, EUR, 1, k2, alice)}
===============================================================================
