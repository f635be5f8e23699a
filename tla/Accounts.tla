------------------------------ MODULE Accounts ------------------------------
(***************************************************************************)
(* The documents BalanceService works on, and its five operations.  A user *)
(* is the two balances of its document in the `users` collection.  The     *)
(* `ledger_entries` collection is abstracted to, for every user, the total *)
(* amount of the entries of each type.                                     *)
(***************************************************************************)
EXTENDS Integers

LedgerType == {"LOCK", "UNLOCK", "PAYOUT", "REFUND", "DEPOSIT"}

Ledger == [LedgerType -> Nat]

NoEntries == [t \in LedgerType |-> 0]

\* Mutant: entries that take money are inserted with a negative amount.
AddSignedEntry(ledger, type, amount) ==
    [ledger EXCEPT ![type] = IF type = "PAYOUT" THEN @ - amount ELSE @ + amount]

\* Inserting one ledger entry.
AddEntry(ledger, type, amount) == [ledger EXCEPT ![type] = @ + amount]

User == [balance : Int, lockedBalance : Int]

\* A user after auth.register: the initial deposit, nothing locked.
NewUser(deposit) == [balance |-> deposit, lockedBalance |-> 0]

-----------------------------------------------------------------------------
(* The checks made on the user document that was read.                     *)

CanLock(user, amount) == user.balance >= amount

\* unlockFunds, payout and refund make the same check of the locked funds.
CanTakeLocked(user, amount) == user.lockedBalance >= amount

Allowed(type, user, amount) ==
    CASE type = "LOCK"    -> CanLock(user, amount)
      [] type = "DEPOSIT" -> TRUE
      [] OTHER            -> CanTakeLocked(user, amount)

-----------------------------------------------------------------------------
(* The $inc of each operation.                                             *)

LockFunds(user, amount) ==
    [balance |-> user.balance - amount, lockedBalance |-> user.lockedBalance + amount]

UnlockFunds(user, amount) ==
    [balance |-> user.balance + amount, lockedBalance |-> user.lockedBalance - amount]

Payout(user, amount) == [user EXCEPT !.lockedBalance = @ - amount]

Refund(user, amount) ==
    [balance |-> user.balance + amount, lockedBalance |-> user.lockedBalance - amount]

Deposit(user, amount) == [user EXCEPT !.balance = @ + amount]

Apply(type, user, amount) ==
    CASE type = "LOCK"    -> LockFunds(user, amount)
      [] type = "UNLOCK"  -> UnlockFunds(user, amount)
      [] type = "PAYOUT"  -> Payout(user, amount)
      [] type = "REFUND"  -> Refund(user, amount)
      [] type = "DEPOSIT" -> Deposit(user, amount)

-----------------------------------------------------------------------------

\* What the ledger says the two balances are.
Reconciled(user, ledger) ==
    /\ user.balance =
          ledger["DEPOSIT"] + ledger["UNLOCK"] + ledger["REFUND"] - ledger["LOCK"]
    /\ user.lockedBalance =
          ledger["LOCK"] - ledger["UNLOCK"] - ledger["PAYOUT"] - ledger["REFUND"]

\* The check each operation makes of the document it has updated.
NonNegative(user) == user.balance >= 0 /\ user.lockedBalance >= 0
=============================================================================
