--------------------------- MODULE BalanceService ---------------------------
(***************************************************************************)
(* Concurrent calls of BalanceService, each in a MongoDB session of its    *)
(* own.  A call reads the user document inside its transaction, checks the *)
(* funds on what it read, increments the document and inserts the ledger   *)
(* entry, and commits.  MongoDB gives the transaction a snapshot; writing  *)
(* a document that another transaction has written since that snapshot, or *)
(* is writing now, is a write conflict: the driver's withTransaction runs  *)
(* the callback again.  Inserted ledger entries conflict with nothing.  A  *)
(* call is made once per element of Calls.                                 *)
(***************************************************************************)
EXTENDS Accounts

CONSTANTS
    Users,            \* user ids
    Calls,            \* the calls made during a behaviour, one session each
    Amounts,          \* the amounts callers ask for, 0 an invalid one
    InitialDeposit    \* what every user starts with

ASSUME AmountsAssumption == Amounts \subseteq Nat
ASSUME DepositAssumption == InitialDeposit \in Nat

VARIABLES
    users,    \* users[u]: the committed user document
    ledger,   \* ledger[u]: totals of the committed ledger entries of u
    call      \* call[c]: the session of call c

vars == <<users, ledger, call>>

(* pc of a call: "idle" before it is made; "begun" once the session exists *)
(* (and again after a conflict); "read" after findById; "updated" after    *)
(* the $inc and the insert; "done", "rejected" (insufficient funds or a    *)
(* non-positive amount) and "failed" (any other error) are the answers.    *)
Running == {"begun", "read", "updated"}
Answered == {"done", "rejected", "failed"}

\* doc is the transaction's version of the user document, stale says that
\* another transaction has committed the document since the snapshot.
Call == [pc : {"idle"} \cup Running \cup Answered, type : LedgerType,
         user : Users, amount : Nat, doc : User, stale : BOOLEAN]

NoCall(u) == [pc |-> "idle", type |-> "LOCK", user |-> u, amount |-> 0,
              doc |-> NewUser(InitialDeposit), stale |-> FALSE]

TypeOK ==
    /\ users \in [Users -> User]
    /\ ledger \in [Users -> Ledger]
    /\ call \in [Calls -> Call]

Init ==
    /\ users = [u \in Users |-> NewUser(InitialDeposit)]
    /\ ledger = [u \in Users |-> AddEntry(NoEntries, "DEPOSIT", InitialDeposit)]
    /\ \E u \in Users : call = [c \in Calls |-> NoCall(u)]

-----------------------------------------------------------------------------
\* The caller passes the arguments; a non-positive amount is refused at once.
Request(c, type, u, amount) ==
    /\ call[c].pc = "idle"
    /\ call' = [call EXCEPT
                  ![c] = [@ EXCEPT !.type = type, !.user = u, !.amount = amount,
                                   !.pc = IF amount > 0 THEN "begun" ELSE "rejected"]]
    /\ UNCHANGED <<users, ledger>>

\* findById opens the snapshot; the check is made on the document it returns.
Read(c) ==
    /\ call[c].pc = "begun"
    /\ LET doc == users[call[c].user] IN
       call' = [call EXCEPT
                  ![c] = [@ EXCEPT !.doc = doc, !.stale = FALSE,
                                   !.pc = IF Allowed(call[c].type, doc, call[c].amount)
                                          THEN "read" ELSE "rejected"]]
    /\ UNCHANGED <<users, ledger>>

\* Mutant: the document is updated outside the session's transaction.
NoConflict(c) == FALSE

\* Another transaction wrote the document after the snapshot, or holds it.
Conflict(c) ==
    \/ call[c].stale
    \/ \E o \in Calls \ {c} : call[o].pc = "updated" /\ call[o].user = call[c].user

\* findByIdAndUpdate with $inc, the check of the result, the ledger entry.
Update(c) ==
    /\ call[c].pc = "read"
    /\ ~ Conflict(c)
    /\ LET doc == Apply(call[c].type, call[c].doc, call[c].amount) IN
       call' = [call EXCEPT
                  ![c] = [@ EXCEPT !.doc = doc,
                                   !.pc = IF NonNegative(doc) THEN "updated" ELSE "failed"]]
    /\ UNCHANGED <<users, ledger>>

\* Mutant: the transaction is retried on the snapshot it already has.
RetryOnOldSnapshot(c) ==
    /\ call[c].pc = "read"
    /\ Conflict(c)
    /\ call' = [call EXCEPT ![c].pc = "read"]
    /\ UNCHANGED <<users, ledger>>

\* A write conflict aborts the attempt; withTransaction starts it again.
RetryAfterConflict(c) ==
    /\ call[c].pc = "read"
    /\ Conflict(c)
    /\ call' = [call EXCEPT ![c].pc = "begun"]
    /\ UNCHANGED <<users, ledger>>

Commit(c) ==
    LET u == call[c].user IN
    /\ call[c].pc = "updated"
    /\ users' = [users EXCEPT ![u] = call[c].doc]
    /\ ledger' = [ledger EXCEPT ![u] = AddEntry(@, call[c].type, call[c].amount)]
    /\ call' = [o \in Calls |->
                  CASE o = c -> [call[o] EXCEPT !.pc = "done"]
                    [] o # c /\ call[o].user = u -> [call[o] EXCEPT !.stale = TRUE]
                    [] OTHER -> call[o]]

\* The session is lost or the server answers with another error.
Fail(c) ==
    /\ call[c].pc \in Running
    /\ call' = [call EXCEPT ![c].pc = "failed"]
    /\ UNCHANGED <<users, ledger>>

\* Every call has been answered: nothing is left to do.
Quiescent ==
    /\ \A c \in Calls : call[c].pc \in Answered
    /\ UNCHANGED vars

Step(c) == Read(c) \/ Update(c) \/ RetryAfterConflict(c) \/ Commit(c)

Next ==
    \/ \E c \in Calls, type \in LedgerType, u \in Users, amount \in Amounts :
          Request(c, type, u, amount)
    \/ \E c \in Calls : Step(c) \/ Fail(c)
    \/ Quiescent

Spec == Init /\ [][Next]_vars

\* The event loop and the driver keep running the callbacks of a session.
FairSpec == Spec /\ \A c \in Calls : WF_vars(Step(c))

-----------------------------------------------------------------------------
(* The ledger explains both balances of every user, whatever the calls and *)
(* their interleaving (balance.service.ts: each operation writes the user  *)
(* document and the ledger entry in one transaction): no increment is lost *)
(* and none is applied without its entry.                                  *)
LedgerExplainsBalances == \A u \in Users : Reconciled(users[u], ledger[u])

(* Two calls that each fit the balance they read never overdraw it         *)
(* together: no committed balance is negative (user.schema.ts, balance and *)
(* lockedBalance "Must be >= 0").                                          *)
BalancesNonNegative == \A u \in Users : NonNegative(users[u])

(* Calls that conflict on the same user do not make each other retry for   *)
(* ever: every call that has begun is answered (withTransaction around     *)
(* executeTransaction).                                                    *)
EveryCallAnswered ==
    \A c \in Calls : (call[c].pc = "begun") ~> (call[c].pc \in Answered)
=============================================================================
