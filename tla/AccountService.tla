---------------------------- MODULE AccountService ----------------------------
(***************************************************************************)
(* AccountService.create_account and delete_account with the repository     *)
(* operations they call:                                                    *)
(*                                                                          *)
(*   create:  pick_number -> insert_account -> commit_account -> replied    *)
(*   delete:  load_account -> lock_account -> commit_close -> replied       *)
(*                                                                          *)
(* The first SELECT of a delete is not locked, and the object it loads      *)
(* stays in the session that later locks the row.                           *)
(***************************************************************************)
EXTENDS Store

CONSTANTS
    CurrencyCodes,    \* currency codes a request may name
    OpeningBalances,  \* opening balances a request may name, in ticks
    MaxPicks          \* account numbers AccountRepository.create tries (10)

ASSUME CurrencyCodesAssumption == Currencies \subseteq CurrencyCodes
ASSUME OpeningAssumption ==
    /\ OpeningBalances \subseteq Nat
    /\ \A b \in OpeningBalances : b % Quantum = 0
ASSUME MaxPicksAssumption == MaxPicks \in Nat \ {0}

(* Bodies that pass CreateAccountRequest's validators.                      *)
CreateBody == [kind: {"create"}, currency: CurrencyCodes,
               opening: OpeningBalances, owner: Callers]

DeleteBody == [kind: {"delete"}, number: Numbers, caller: Callers,
               operator: BOOLEAN]
-----------------------------------------------------------------------------
(* POST /accounts; an unsupported currency is refused before any statement. *)
CreateAccount(r) ==
    \E b \in Workload \cap CreateBody :
        Receive(r, b, IF b.currency \in Currencies THEN "pick_number" ELSE "refuse")

RefuseCurrency(r) ==
    /\ pc[r] = "refuse"
    /\ Raise(r, "unsupported_currency")

(* One iteration of the loop of AccountRepository.create: a random number,  *)
(* kept if the table does not show it, or if it is the last one tried.      *)
PickNumber(r) ==
    /\ pc[r] = "pick_number"
    /\ \E n \in Numbers :
          /\ picked' = [picked EXCEPT ![r] = n]
          /\ attempt' = [attempt EXCEPT ![r] = @ + 1]
          /\ GoTo(r, IF accounts[n] = NoRow \/ attempt[r] + 1 = MaxPicks
                     THEN "insert_account" ELSE "pick_number")
    /\ UNCHANGED <<tables, locks, req, seen, reply, result>>

(* Variant of InsertAccount on a table without the unique constraint.       *)
InsertAccountNoUnique(r) ==
    /\ pc[r] = "insert_account"
    /\ GoTo(r, "commit_account")
    /\ UNCHANGED <<tables, locks, req, attempt, seen, picked, reply, result>>

(* The flush inserts the account and its audit entry.  The unique index on  *)
(* account_number makes it wait for an uncommitted duplicate and fail on a  *)
(* committed one.                                                           *)
InsertAccount(r) ==
    /\ pc[r] = "insert_account"
    /\ \/ /\ accounts[picked[r]] = NoRow
          /\ lock[picked[r]] = Nobody
          /\ lock' = [lock EXCEPT ![picked[r]] = r]
          /\ GoTo(r, "commit_account")
          /\ UNCHANGED <<tables, keyHolder, req, attempt, seen, picked, reply, result>>
       \/ /\ accounts[picked[r]] # NoRow
          /\ Raise(r, "internal_error")

NewAccount(r) == [status |-> "active", balance |-> Stored(req[r].opening),
                  currency |-> req[r].currency, owner |-> req[r].owner]

CommitAccount(r) ==
    /\ pc[r] = "commit_account"
    /\ accounts' = [accounts EXCEPT ![picked[r]] = NewAccount(r)]
    /\ audit' = audit \cup {Audit("account_created", r, {picked[r]},
                                  Stored(req[r].opening))}
    /\ Release(r)
    /\ GoTo(r, "replied")
    /\ UNCHANGED <<transfers, req, attempt, seen, picked, reply, result>>
-----------------------------------------------------------------------------
(* DELETE /accounts/{account_number}.                                       *)
DeleteAccount(r) ==
    \E b \in Workload \cap DeleteBody : Receive(r, b, "load_account")

(* get_active_by_account_number and require_owner_or_operator: an unlocked  *)
(* read whose object the session keeps.                                     *)
LoadAccount(r) ==
    LET n == req[r].number
    IN  /\ pc[r] = "load_account"
        /\ \/ /\ ~ IsActive(accounts[n])
              /\ Raise(r, "not_found")
           \/ /\ IsActive(accounts[n])
              /\ accounts[n].owner # req[r].caller /\ ~ req[r].operator
              /\ Raise(r, "forbidden")
           \/ /\ IsActive(accounts[n])
              /\ accounts[n].owner = req[r].caller \/ req[r].operator
              /\ Load(r, n)
              /\ GoTo(r, "lock_account")
              /\ UNCHANGED <<tables, locks, req, attempt, picked, reply, result>>

(* AccountRepository.delete_account up to its flush: lock the row, test the *)
(* object of the session for status and balance, write the new status.      *)
LockAccount(r) ==
    LET n == req[r].number
    IN  /\ pc[r] = "lock_account"
        /\ RowFree(r, n)
        /\ \/ /\ ~ IsActive(Loaded(r, n)) \/ Loaded(r, n).balance # 0
              /\ Raise(r, IF IsActive(Loaded(r, n)) THEN "account_has_balance"
                                                    ELSE "not_found")
           \/ /\ IsActive(Loaded(r, n))
              /\ Loaded(r, n).balance = 0
              /\ lock' = [lock EXCEPT ![n] = r]
              /\ GoTo(r, "commit_close")
              /\ UNCHANGED <<tables, keyHolder, req, attempt, seen, picked, reply, result>>

(* Variant of CommitClose that writes the whole object of the session back. *)
CommitCloseWholeRow(r) ==
    /\ pc[r] = "commit_close"
    /\ accounts' = [accounts EXCEPT ![req[r].number] =
          [seen[r][req[r].number] EXCEPT !.status = "closed", !.owner = Anonymized]]
    /\ audit' = audit \cup {Audit("account_deleted", r, {req[r].number}, 0)}
    /\ Release(r)
    /\ GoTo(r, "replied")
    /\ UNCHANGED <<transfers, req, attempt, seen, picked, reply, result>>

(* Only the dirty columns are written: status, owner_id and owner_pii_hash. *)
CommitClose(r) ==
    /\ pc[r] = "commit_close"
    /\ accounts' = [accounts EXCEPT ![req[r].number].status = "closed",
                                    ![req[r].number].owner = Anonymized]
    /\ audit' = audit \cup {Audit("account_deleted", r, {req[r].number}, 0)}
    /\ Release(r)
    /\ GoTo(r, "replied")
    /\ UNCHANGED <<transfers, req, attempt, seen, picked, reply, result>>

(* The API answers 201 for a created account, 204 for a deleted one.        *)
ReplyAccount(r) ==
    /\ pc[r] = "replied"
    /\ Respond(r, IF req[r].kind = "create" THEN "created" ELSE "deleted", Nobody)
    /\ UNCHANGED <<tables, locks, req, attempt, seen, picked>>

AccountStep(r) ==
    \/ RefuseCurrency(r) \/ PickNumber(r) \/ InsertAccount(r) \/ CommitAccount(r)
    \/ LoadAccount(r) \/ LockAccount(r) \/ CommitClose(r) \/ ReplyAccount(r)
===============================================================================
