---------------------------- MODULE Registration ----------------------------
(***************************************************************************)
(* The `users` collection and the calls that create its documents:         *)
(* AuthService.register and login, UsersController.createUser (a user with *)
(* no password) and the batch of bots of BotSimulatorController.  A call   *)
(* is a request under way: each of its database calls is one step, and     *)
(* other calls run in between.  A user is inserted with empty balances; its *)
(* grant (initialBalance) is a BalanceService.deposit afterwards, on a     *)
(* session of its own, that may fail or take effect unheard.               *)
(*                                                                         *)
(* A document is named by the call that inserts it and its username: the   *)
(* unique index on username is a check of InsertUser, not a matter of      *)
(* names.  Hashing, and the token's signature, are left out: a token is    *)
(* the id of its user.                                                     *)
(***************************************************************************)
EXTENDS Accounts, FiniteSets

CONSTANTS
    Names,       \* usernames
    Passwords,
    NoPassword,  \* the password of a user that has none
    Grants,      \* the initial balances asked for, 0 for none
    Calls,
    MaxFaults    \* bound: failed deposits and crashes

ASSUME PasswordAssumption == NoPassword \notin Passwords
ASSUME GrantsAssumption == Grants \subseteq Nat
ASSUME RegistrationAssumption == IsFiniteSet(Names) /\ MaxFaults \in Nat

VARIABLES
    users,   \* the user documents, by id
    ledger,  \* totals of the ledger entries of every user
    call,    \* call[c]: where call c stands
    faults

registration == <<users, ledger, call, faults>>

UserId == Calls \X Names

UserDoc == [username : Names, password : Passwords \cup {NoPassword}, account : User]

Kind == {"register", "create", "bots"}

\* names: still to be inserted; made: inserted by this call; unpaid: of
\* these, the ones whose deposit is still to come; errors: of a batch;
\* shown: the balance answered; password: what the caller last offered, and
\* token: whom the token it was last given stands for.
Call == [at : {"idle", "finding", "inserting", "depositing", "reloading", "answered"},
         kind : Kind, names : SUBSET Names, password : Passwords \cup {NoPassword},
         grant : Grants \cup {0}, made : SUBSET UserId, unpaid : SUBSET UserId,
         errors : BOOLEAN, answer : {"none", "ok", "conflict", "error"},
         token : SUBSET UserId, shown : Nat]

NoCall == [at |-> "idle", kind |-> "create", names |-> {}, password |-> NoPassword,
           grant |-> 0, made |-> {}, unpaid |-> {}, errors |-> FALSE,
           answer |-> "none", token |-> {}, shown |-> 0]

TypeOK ==
    /\ DOMAIN users \subseteq UserId /\ users \in [DOMAIN users -> UserDoc]
    /\ ledger \in [DOMAIN users -> Ledger]
    /\ call \in [Calls -> Call]
    /\ faults \in 0 .. MaxFaults

Init ==
    /\ users = [id \in {} |-> NoCall]
    /\ ledger = [id \in {} |-> NoCall]
    /\ call = [c \in Calls |-> NoCall]
    /\ faults = 0
-----------------------------------------------------------------------------
UsernameTaken(n) == \E id \in DOMAIN users : users[id].username = n

Answered(r, answer) == [r EXCEPT !.at = "answered", !.answer = answer]

\* The call, whose deposits are done, is answered or reads its user again.
Deposited(r) ==
    IF r.unpaid # {} THEN r
    ELSE IF r.kind = "bots" THEN Answered(r, "ok") ELSE [r EXCEPT !.at = "reloading"]

\* A request arrives.
Ask(c, kind, names, password, grant) ==
    /\ call[c].at = "idle"
    /\ call' = [call EXCEPT ![c] =
                  [NoCall EXCEPT
                     !.at = IF kind = "bots" THEN "inserting" ELSE "finding",
                     !.kind = kind, !.names = names, !.password = password,
                     !.grant = grant]]
    /\ UNCHANGED <<users, ledger, faults>>

\* register and runBulkSimulation.
AskAny(c) ==
    \/ \E n \in Names, p \in Passwords, g \in Grants : Ask(c, "register", {n}, p, g)
    \/ \E N \in SUBSET Names \ {{}}, g \in Grants : Ask(c, "bots", N, NoPassword, g)

\* No auction is running: the simulation is refused.
RefuseBots(c) ==
    /\ call[c].at = "inserting" /\ call[c].kind = "bots"
    /\ call[c].made = {} /\ ~ call[c].errors
    /\ call' = [call EXCEPT ![c] = Answered(@, "error")]
    /\ UNCHANGED <<users, ledger, faults>>

\* findOne({username})
FindExisting(c) ==
    /\ call[c].at = "finding"
    /\ call' = [call EXCEPT ![c] =
                  IF \E n \in @.names : UsernameTaken(n) THEN Answered(@, "conflict")
                                                         ELSE [@ EXCEPT !.at = "inserting"]]
    /\ UNCHANGED <<users, ledger, faults>>

\* Of the call c, once n is inserted.
Inserted(c, n) ==
    LET r    == call[c]
        rest == r.names \ {n}
        made == r.made \cup {<<c, n>>}
        next == [r EXCEPT !.names = rest, !.made = made,
                          !.unpaid = IF r.grant > 0 THEN made ELSE {}]
    IN  IF rest # {} THEN next
        ELSE IF r.errors THEN Answered([next EXCEPT !.unpaid = {}], "ok")
        ELSE IF r.grant > 0 THEN [next EXCEPT !.at = "depositing"]
        ELSE [Answered(next, "ok") EXCEPT
                !.token = IF r.kind = "register" THEN made ELSE {}]

InsertDocument(c, n) ==
    LET id == <<c, n>> IN
    /\ users' = [x \in DOMAIN users \cup {id} |->
                    IF x = id THEN [username |-> n, password |-> call[c].password,
                                    account |-> NewUser(0)]
                              ELSE users[x]]
    /\ ledger' = [x \in DOMAIN ledger \cup {id} |->
                    IF x = id THEN NoEntries ELSE ledger[x]]
    /\ call' = [call EXCEPT ![c] = Inserted(c, n)]
    /\ UNCHANGED faults

\* Mutant: users.username has no unique index.
InsertUserUnindexed(c, n) ==
    /\ call[c].at = "inserting" /\ n \in call[c].names
    /\ InsertDocument(c, n)

\* userModel.create, and one document of insertMany({ordered: false}).
InsertUser(c, n) ==
    /\ call[c].at = "inserting" /\ n \in call[c].names
    /\ ~ UsernameTaken(n)
    /\ InsertDocument(c, n)

\* The unique index refuses the name, found or not by findOne before.  In a
\* batch the other documents are inserted, but insertMany throws at its end:
\* the batch is left without its deposits.
RefuseDuplicate(c, n) ==
    LET r == call[c] IN
    /\ r.at = "inserting" /\ n \in r.names
    /\ UsernameTaken(n)
    /\ call' = [call EXCEPT ![c] =
                  IF r.kind # "bots" THEN Answered(r, "error")
                  ELSE IF r.names = {n}
                  THEN Answered([r EXCEPT !.names = {}, !.errors = TRUE, !.unpaid = {}], "ok")
                  ELSE [r EXCEPT !.names = @ \ {n}, !.errors = TRUE]]
    /\ UNCHANGED <<users, ledger, faults>>

Paid(c, id) == [call[c] EXCEPT !.unpaid = @ \ {id}]

Credit(id, amount) ==
    /\ users' = [users EXCEPT ![id].account = Deposit(@, amount)]
    /\ ledger' = [ledger EXCEPT ![id] = AddEntry(@, "DEPOSIT", amount)]

\* BalanceService.deposit commits and is answered.
DepositGrant(c, id) ==
    /\ call[c].at = "depositing" /\ id \in call[c].unpaid
    /\ Credit(id, call[c].grant)
    /\ call' = [call EXCEPT ![c] = Deposited(Paid(c, id))]
    /\ UNCHANGED faults

\* Mutant: register ignores a deposit that fails.
DepositThrownIgnored(c, id) ==
    IF call[c].kind = "bots" THEN Deposited([Paid(c, id) EXCEPT !.errors = TRUE])
                             ELSE Deposited(Paid(c, id))

\* What becomes of a call one of whose deposits throws.
DepositThrown(c, id) ==
    IF call[c].kind = "bots" THEN Deposited([Paid(c, id) EXCEPT !.errors = TRUE])
                             ELSE Answered(Paid(c, id), "error")

\* It throws, without effect or (its answer lost) with.
DepositFails(c, id) ==
    /\ call[c].at = "depositing" /\ id \in call[c].unpaid /\ faults < MaxFaults
    /\ faults' = faults + 1
    /\ call' = [call EXCEPT ![c] = DepositThrown(c, id)]
    /\ \/ UNCHANGED <<users, ledger>>
       \/ Credit(id, call[c].grant)

\* findById after the deposit; the answer.
Reload(c) ==
    LET r == call[c] IN
    /\ r.at = "reloading"
    /\ call' = [call EXCEPT ![c] =
                  [Answered(r, "ok") EXCEPT
                     !.token = IF r.kind = "register" THEN r.made ELSE {},
                     !.shown = (CHOOSE b \in {users[id].account.balance : id \in r.made} : TRUE)]]
    /\ UNCHANGED <<users, ledger, faults>>

\* Mutant: a user without a password is let in with any.
PasswordMatchesOrNone(n, p) ==
    {id \in DOMAIN users : users[id].username = n /\ users[id].password \in {p, NoPassword}}

\* Whom login lets in: the user with this name and password, if any.
PasswordMatches(n, p) ==
    {id \in DOMAIN users : /\ users[id].username = n
                           /\ users[id].password # NoPassword
                           /\ users[id].password = p}

\* One read of the user; nothing is written.  A 401 is no token.
Login(c, n, p) ==
    /\ call[c].at \in {"idle", "answered"}
    /\ call' = [call EXCEPT ![c].password = p, ![c].token = PasswordMatches(n, p)]
    /\ UNCHANGED <<users, ledger, faults>>

\* The server process stops: its calls end without an answer that tells.
Crash ==
    /\ faults < MaxFaults
    /\ \E c \in Calls : call[c].at \notin {"idle", "answered"}
    /\ faults' = faults + 1
    /\ call' = [c \in Calls |-> IF call[c].at \in {"idle", "answered"} THEN call[c]
                                                                       ELSE Answered(call[c], "error")]
    /\ UNCHANGED <<users, ledger>>

Step(c) ==
    \/ FindExisting(c) \/ Reload(c) \/ RefuseBots(c)
    \/ \E n \in Names : InsertUser(c, n) \/ RefuseDuplicate(c, n)
    \/ \E id \in call[c].unpaid : DepositGrant(c, id) \/ DepositFails(c, id)

Next ==
    \/ \E c \in Calls : \/ AskAny(c) \/ Step(c)
                        \/ \E n \in Names, p \in Passwords : Login(c, n, p)
    \/ Crash

Spec == Init /\ [][Next]_registration
-----------------------------------------------------------------------------
(* Two calls that both find a name free do not both get it                 *)
(* (register.dto.ts: "Username (must be unique)").                         *)
UniqueNames ==
    \A a, b \in DOMAIN users : users[a].username = users[b].username => a = b

(* A call that is answered without an error has given each user it created *)
(* the grant asked for, and its answer shows it; whatever fails or is      *)
(* retried, no user is granted more than that, and the ledger explains     *)
(* every balance.                                                          *)
GrantHonoured ==
    \A id \in DOMAIN users :
        LET r == call[id[1]] IN
        /\ Reconciled(users[id].account, ledger[id])
        /\ users[id].account.balance \in {0, r.grant}
        /\ id \in r.unpaid => users[id].account.balance = 0
        /\ r.answer = "ok" /\ ~ r.errors => users[id].account.balance = r.grant
        /\ r.answer = "ok" /\ r.kind = "register" => r.shown = r.grant

(* A token is given only for a user whose password the call has offered,   *)
(* never to the one that lost the race for the name, and a user created    *)
(* without a password stays without one.                                   *)
TokenForPassword ==
    \A c \in Calls : \A id \in call[c].token :
        /\ id \in DOMAIN users
        /\ users[id].password = call[c].password
        /\ users[id].password # NoPassword
=============================================================================
