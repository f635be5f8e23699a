--------------------------- MODULE BotLoadProofs ---------------------------
(***************************************************************************)
(* What Registration and BotLoad promise holds for every set of names,     *)
(* passwords and calls, every grant, and every size of the load test.      *)
(* Registration: between its steps a call knows which of the documents it  *)
(* has inserted are still unpaid, and each of its documents has exactly    *)
(* what that says (CallSound).  BotLoad: the tasks not yet started are     *)
(* those from pool.next on, so a task is started once, and the places of   *)
(* the pool are counted (PoolSound).                                       *)
(***************************************************************************)
EXTENDS BotLoad, FiniteSetTheorems, TLAPS

UnderWay(r) == r.at \notin {"idle", "answered"}

\* A document of a call r has no more than it should have by now.
DocumentPaid(r, id) ==
    /\ users[id].account.balance \in {0, r.grant}
    /\ id \in r.unpaid => users[id].account.balance = 0
    /\ \/ id \in r.unpaid
       \/ users[id].account.balance = r.grant
       \/ r.errors
       \/ r.answer = "error"

\* What is true of the record r of call c between two steps.
CallSound(c, r) ==
    /\ r.made \subseteq DOMAIN users
    /\ \A id \in r.made : id[1] = c /\ DocumentPaid(r, id)
    /\ r.unpaid \subseteq r.made
    /\ r.at \in {"idle", "finding"} => r.made = {}
    /\ r.at = "inserting" /\ r.grant > 0 => r.unpaid = r.made
    /\ UnderWay(r) =>
          /\ r.answer = "none"
          /\ \A id \in r.made : users[id].password = r.password
          /\ r.kind = "register" => r.password # NoPassword
          /\ r.shown = 0
    /\ r.at \in {"depositing", "reloading"} => r.made # {}
    /\ r.at = "reloading" => r.unpaid = {} /\ r.kind # "bots"
    /\ r.at = "idle" => r.answer = "none"
    /\ r.kind # "bots" => ~ r.errors
    /\ r.answer = "ok" /\ ~ r.errors => r.unpaid = {}
    /\ r.answer = "ok" /\ r.kind = "register" => r.shown = r.grant
    /\ \A id \in r.token :
          /\ id \in DOMAIN users
          /\ users[id].password = r.password
          /\ users[id].password # NoPassword

\* Every document belongs to the call that inserted it.
DocumentsSound ==
    \A id \in DOMAIN users :
        /\ users[id].username = id[2]
        /\ id \in call[id[1]].made
        /\ Reconciled(users[id].account, ledger[id])

IInv ==
    /\ TypeOK
    /\ UniqueNames
    /\ DocumentsSound
    /\ \A c \in Calls : CallSound(c, call[c])

LEMMA GrantNat ==
    ASSUME NEW r \in Call PROVE r.grant \in Nat
<1>1. r.grant \in Grants \cup {0}
  BY DEF Call
<1>2. \A g \in Grants \cup {0} : g \in Nat
  BY GrantsAssumption
<1> QED
  BY <1>1, <1>2, Zenon

(* The invariant says what the properties claim.                           *)
LEMMA IInvImplies == IInv => UniqueNames /\ GrantHonoured /\ TokenForPassword
<1> SUFFICES ASSUME IInv PROVE GrantHonoured /\ TokenForPassword
  BY DEF IInv
<1>1. GrantHonoured
  <2> SUFFICES ASSUME NEW id \in DOMAIN users
               PROVE  LET r == call[id[1]] IN
                      /\ Reconciled(users[id].account, ledger[id])
                      /\ users[id].account.balance \in {0, r.grant}
                      /\ id \in r.unpaid => users[id].account.balance = 0
                      /\ r.answer = "ok" /\ ~ r.errors => users[id].account.balance = r.grant
                      /\ r.answer = "ok" /\ r.kind = "register" => r.shown = r.grant
    BY DEF GrantHonoured
  <2>1. id \in call[id[1]].made /\ Reconciled(users[id].account, ledger[id])
    BY DEF IInv, DocumentsSound
  <2>2. id[1] \in Calls
    BY DEF IInv, TypeOK, UserId
  <2>3. CallSound(id[1], call[id[1]])
    BY <2>2 DEF IInv
  <2>4. DocumentPaid(call[id[1]], id)
    BY <2>1, <2>3 DEF CallSound
  <2> QED
    BY <2>1, <2>3, <2>4 DEF CallSound, DocumentPaid
<1>2. TokenForPassword
  BY DEF IInv, CallSound, TokenForPassword
<1> QED
  BY <1>1, <1>2

LEMMA InitIInv == Init => IInv
<1> SUFFICES ASSUME Init PROVE IInv
  OBVIOUS
<1>1. DOMAIN users = {} /\ DOMAIN ledger = {}
  BY DEF Init
<1>2. NoCall \in Call
  BY DEF NoCall, Call, Kind
<1>3. users \in [DOMAIN users -> UserDoc] /\ ledger \in [DOMAIN users -> Ledger]
  BY <1>1 DEF Init
<1>4. TypeOK
  BY <1>1, <1>2, <1>3, RegistrationAssumption DEF Init, TypeOK
<1>5. UniqueNames /\ DocumentsSound
  BY <1>1 DEF UniqueNames, DocumentsSound
<1>6. \A c \in Calls : CallSound(c, call[c])
  BY DEF Init, NoCall, CallSound, UnderWay
<1> QED
  BY <1>4, <1>5, <1>6 DEF IInv

(* Calls may move in any way that keeps them sound, as long as no document *)
(* changes and each keeps those it has made.                               *)
LEMMA CallsMove ==
    ASSUME IInv, UNCHANGED <<users, ledger>>,
           call' \in [Calls -> Call], faults' \in 0 .. MaxFaults,
           \A c \in Calls : /\ CallSound(c, call'[c])
                            /\ call'[c].made = call[c].made
    PROVE  IInv'
<1>1. TypeOK'
  BY DEF IInv, TypeOK
<1>2. UniqueNames'
  BY DEF IInv, UniqueNames
<1>3. DocumentsSound'
  <2> SUFFICES ASSUME NEW id \in DOMAIN users
               PROVE  /\ users[id].username = id[2]
                      /\ id \in call'[id[1]].made
                      /\ Reconciled(users[id].account, ledger[id])
    BY DEF DocumentsSound, Reconciled
  <2>1. id[1] \in Calls
    BY DEF IInv, TypeOK, UserId
  <2> QED
    BY <2>1 DEF IInv, DocumentsSound
<1>4. \A c \in Calls : CallSound(c, call[c])'
  <2> SUFFICES ASSUME NEW c \in Calls PROVE CallSound(c, call[c])'
    OBVIOUS
  <2>1. CallSound(c, call'[c]) /\ users' = users
    OBVIOUS
  <2> QED
    BY <2>1 DEF CallSound, DocumentPaid
<1> QED
  BY <1>1, <1>2, <1>3, <1>4 DEF IInv

(* The same for one call.                                                  *)
LEMMA CallMoves ==
    ASSUME IInv, UNCHANGED <<users, ledger>>, NEW c \in Calls, NEW r \in Call,
           call' = [call EXCEPT ![c] = r], faults' \in 0 .. MaxFaults,
           CallSound(c, r), r.made = call[c].made
    PROVE  IInv'
<1>1. call \in [Calls -> Call]
  BY DEF IInv, TypeOK
<1>2. call' \in [Calls -> Call]
  BY <1>1
<1>3. \A o \in Calls : CallSound(o, call'[o]) /\ call'[o].made = call[o].made
  BY <1>1 DEF IInv
<1> QED
  BY <1>2, <1>3, CallsMove

-----------------------------------------------------------------------------
(* The steps of a call that change no document.                            *)
LEMMA AskIInv ==
    ASSUME IInv, NEW c \in Calls, AskAny(c) PROVE IInv'
<1>1. call[c] \in Call /\ CallSound(c, call[c]) /\ faults \in 0 .. MaxFaults
  BY DEF IInv, TypeOK
<1>2. ASSUME NEW kind \in {"register", "bots"}, NEW N \in SUBSET Names,
             NEW p \in Passwords \cup {NoPassword}, NEW g \in Grants,
             kind = "register" => p # NoPassword,
             Ask(c, kind, N, p, g)
      PROVE  IInv'
  <2> DEFINE r == [NoCall EXCEPT
                     !.at = IF kind = "bots" THEN "inserting" ELSE "finding",
                     !.kind = kind, !.names = N, !.password = p, !.grant = g]
  <2>1. r \in Call
    BY <1>2 DEF Call, NoCall, Kind
  <2>2. CallSound(c, r) /\ r.made = call[c].made
    BY <1>1, <1>2 DEF Ask, CallSound, NoCall, UnderWay
  <2>3. call' = [call EXCEPT ![c] = r] /\ UNCHANGED <<users, ledger, faults>>
    BY <1>2 DEF Ask
  <2> HIDE DEF r
  <2> QED
    BY <1>1, <2>1, <2>2, <2>3, CallMoves
<1>3. ASSUME NEW n \in Names, NEW p \in Passwords, NEW g \in Grants,
             Ask(c, "register", {n}, p, g)
      PROVE  IInv'
  BY <1>2, <1>3, PasswordAssumption
<1>4. ASSUME NEW N \in SUBSET Names \ {{}}, NEW g \in Grants,
             Ask(c, "bots", N, NoPassword, g)
      PROVE  IInv'
  BY <1>2, <1>4
<1> QED
  BY <1>3, <1>4 DEF AskAny

LEMMA LoginIInv ==
    ASSUME IInv, NEW c \in Calls, NEW n \in Names, NEW p \in Passwords, Login(c, n, p)
    PROVE  IInv'
<1>1. call \in [Calls -> Call] /\ CallSound(c, call[c]) /\ faults \in 0 .. MaxFaults
  BY DEF IInv, TypeOK
<1> DEFINE r == [call[c] EXCEPT !.password = p, !.token = PasswordMatches(n, p)]
<1>2. call' = [call EXCEPT ![c] = r] /\ UNCHANGED <<users, ledger, faults>>
  BY <1>1 DEF Login, Call
<1>3. PasswordMatches(n, p) \subseteq UserId
  BY DEF IInv, TypeOK, PasswordMatches
<1>4. r \in Call
  BY <1>1, <1>3 DEF Call
<1>5. CallSound(c, r) /\ r.made = call[c].made
  BY <1>1 DEF Login, Call, CallSound, DocumentPaid, UnderWay, PasswordMatches
<1> HIDE DEF r
<1> QED
  BY <1>1, <1>2, <1>4, <1>5, CallMoves

(* Ending a call without success, whatever it has left undone.             *)
LEMMA AnsweredSound ==
    ASSUME NEW c \in Calls, NEW r \in Call, CallSound(c, r), UnderWay(r),
           NEW answer \in {"conflict", "error"}
    PROVE  /\ Answered(r, answer) \in Call
           /\ CallSound(c, Answered(r, answer))
           /\ Answered(r, answer).made = r.made
BY DEF Answered, Call, CallSound, DocumentPaid, UnderWay

LEMMA FindExistingIInv ==
    ASSUME IInv, NEW c \in Calls, FindExisting(c) PROVE IInv'
<1>1. call \in [Calls -> Call] /\ CallSound(c, call[c]) /\ faults \in 0 .. MaxFaults
  BY DEF IInv, TypeOK
<1>2. UnderWay(call[c]) /\ call[c].at = "finding" /\ UNCHANGED <<users, ledger, faults>>
  BY DEF FindExisting, UnderWay
<1>3. CASE call' = [call EXCEPT ![c] = Answered(call[c], "conflict")]
  BY <1>1, <1>2, <1>3, AnsweredSound, CallMoves
<1>4. CASE call' = [call EXCEPT ![c] = [call[c] EXCEPT !.at = "inserting"]]
  <2> DEFINE r == [call[c] EXCEPT !.at = "inserting"]
  <2>1. r \in Call /\ CallSound(c, r) /\ r.made = call[c].made
    BY <1>1, <1>2 DEF Call, CallSound, DocumentPaid, UnderWay
  <2> HIDE DEF r
  <2> QED
    BY <1>1, <1>2, <1>4, <2>1, CallMoves DEF r
<1> QED
  BY <1>1, <1>3, <1>4 DEF FindExisting

LEMMA RefuseBotsIInv ==
    ASSUME IInv, NEW c \in Calls, RefuseBots(c) PROVE IInv'
<1>1. call \in [Calls -> Call] /\ CallSound(c, call[c]) /\ faults \in 0 .. MaxFaults
  BY DEF IInv, TypeOK
<1>2. /\ UnderWay(call[c]) /\ UNCHANGED <<users, ledger, faults>>
      /\ call' = [call EXCEPT ![c] = Answered(call[c], "error")]
  BY <1>1 DEF RefuseBots, UnderWay
<1> QED
  BY <1>1, <1>2, AnsweredSound, CallMoves

LEMMA RefuseDuplicateIInv ==
    ASSUME IInv, NEW c \in Calls, NEW n \in Names, RefuseDuplicate(c, n) PROVE IInv'
<1>1. call \in [Calls -> Call] /\ CallSound(c, call[c]) /\ faults \in 0 .. MaxFaults
  BY DEF IInv, TypeOK
<1>2. call[c] \in Call /\ UnderWay(call[c]) /\ call[c].at = "inserting"
      /\ UNCHANGED <<users, ledger, faults>>
  BY <1>1 DEF RefuseDuplicate, UnderWay
<1>3. CASE call' = [call EXCEPT ![c] = Answered(call[c], "error")]
  BY <1>1, <1>2, <1>3, AnsweredSound, CallMoves
<1>4. ASSUME call[c].kind = "bots",
             call' = [call EXCEPT ![c] =
                        Answered([call[c] EXCEPT !.names = {}, !.errors = TRUE, !.unpaid = {}], "ok")]
      PROVE  IInv'
  <2> DEFINE r == Answered([call[c] EXCEPT !.names = {}, !.errors = TRUE, !.unpaid = {}], "ok")
  <2>1. r \in Call /\ r.made = call[c].made
    BY <1>2 DEF Answered, Call
  <2>2. CallSound(c, r)
    BY <1>1, <1>2, <1>4 DEF Answered, Call, CallSound, DocumentPaid, UnderWay
  <2> HIDE DEF r
  <2> QED
    BY <1>1, <1>2, <1>4, <2>1, <2>2, CallMoves DEF r
<1>5. ASSUME call[c].kind = "bots",
             call' = [call EXCEPT ![c] = [call[c] EXCEPT !.names = @ \ {n}, !.errors = TRUE]]
      PROVE  IInv'
  <2> DEFINE r == [call[c] EXCEPT !.names = @ \ {n}, !.errors = TRUE]
  <2>1. r \in Call /\ r.made = call[c].made
    BY <1>2 DEF Call
  <2>2. CallSound(c, r)
    BY <1>1, <1>2, <1>5 DEF Call, CallSound, DocumentPaid, UnderWay
  <2> HIDE DEF r
  <2> QED
    BY <1>1, <1>2, <1>5, <2>1, <2>2, CallMoves DEF r
<1>6. \/ call' = [call EXCEPT ![c] = Answered(call[c], "error")]
      \/ /\ call[c].kind = "bots"
         /\ \/ call' = [call EXCEPT ![c] =
                          Answered([call[c] EXCEPT !.names = {}, !.errors = TRUE, !.unpaid = {}], "ok")]
            \/ call' = [call EXCEPT ![c] = [call[c] EXCEPT !.names = @ \ {n}, !.errors = TRUE]]
  BY DEF RefuseDuplicate
<1> QED
  BY <1>3, <1>4, <1>5, <1>6

LEMMA CrashIInv ==
    ASSUME IInv, Crash PROVE IInv'
<1>1. call \in [Calls -> Call] /\ (\A c \in Calls : CallSound(c, call[c]))
  BY DEF IInv, TypeOK
<1>2. UNCHANGED <<users, ledger>> /\ faults' \in 0 .. MaxFaults
  BY RegistrationAssumption DEF Crash, IInv, TypeOK
<1>3. ASSUME NEW c \in Calls
      PROVE  call'[c] \in Call /\ CallSound(c, call'[c]) /\ call'[c].made = call[c].made
  <2>1. CASE UnderWay(call[c])
    BY <1>1, <2>1, AnsweredSound DEF Crash, UnderWay
  <2>2. CASE ~ UnderWay(call[c])
    BY <1>1, <2>2 DEF Crash, UnderWay
  <2> QED
    BY <2>1, <2>2
<1>4. call' \in [Calls -> Call]
  BY <1>3 DEF Crash
<1> QED
  BY <1>2, <1>3, <1>4, CallsMove

LEMMA ReloadIInv ==
    ASSUME IInv, NEW c \in Calls, Reload(c) PROVE IInv'
<1>1. call \in [Calls -> Call] /\ CallSound(c, call[c]) /\ faults \in 0 .. MaxFaults
  BY DEF IInv, TypeOK
<1> DEFINE balances == {users[id].account.balance : id \in call[c].made}
           shown == CHOOSE b \in balances : TRUE
           r == [Answered(call[c], "ok") EXCEPT
                   !.token = IF call[c].kind = "register" THEN call[c].made ELSE {},
                   !.shown = shown]
<1>2. call[c] \in Call /\ UnderWay(call[c]) /\ call[c].at = "reloading"
      /\ call' = [call EXCEPT ![c] = r] /\ UNCHANGED <<users, ledger, faults>>
  BY <1>1 DEF Reload, UnderWay
<1>3. \A id \in call[c].made : users[id].account.balance = call[c].grant
  BY <1>1, <1>2 DEF CallSound, DocumentPaid
<1>4. shown = call[c].grant
  <2>1. balances = {call[c].grant}
    BY <1>1, <1>2, <1>3 DEF CallSound
  <2> QED
    BY <2>1
<1> HIDE DEF shown
<1>5. r \in Call /\ r.made = call[c].made
  <2>1. shown \in Nat
    BY <1>2, <1>4, GrantNat
  <2> QED
    BY <1>2, <2>1 DEF Answered, Call
<1>6. CallSound(c, r)
  BY <1>1, <1>2, <1>4 DEF Answered, Call, CallSound, DocumentPaid, UnderWay
<1> HIDE DEF r
<1> QED
  BY <1>1, <1>2, <1>5, <1>6, CallMoves

-----------------------------------------------------------------------------
(* The steps that change a document: it is one of the call that steps.     *)
LEMMA OthersSound ==
    ASSUME IInv, NEW c \in Calls, NEW r, call' = [call EXCEPT ![c] = r],
           \A x \in DOMAIN users :
               /\ x \in DOMAIN users' /\ users'[x].password = users[x].password
               /\ x[1] # c => users'[x] = users[x],
           NEW o \in Calls, o # c
    PROVE  CallSound(o, call[o])'
<1>1. call'[o] = call[o] /\ CallSound(o, call[o])
  BY DEF IInv, TypeOK
<1>2. \A x \in call[o].made : x \in DOMAIN users /\ users'[x] = users[x]
  BY <1>1 DEF CallSound
<1> QED
  BY <1>1, <1>2 DEF CallSound, DocumentPaid

LEMMA InsertedSound ==
    ASSUME IInv, NEW c \in Calls, NEW n \in Names, InsertUser(c, n)
    PROVE  /\ Inserted(c, n) \in Call
           /\ CallSound(c, call[c])'
<1> DEFINE id   == <<c, n>>
           r    == call[c]
           rest == r.names \ {n}
           made == r.made \cup {id}
           next == [r EXCEPT !.names = rest, !.made = made,
                             !.unpaid = IF r.grant > 0 THEN made ELSE {}]
<1>1. call \in [Calls -> Call] /\ r \in Call /\ CallSound(c, r)
      /\ r.at = "inserting" /\ UnderWay(r) /\ n \in r.names
  BY DEF IInv, TypeOK, InsertUser, UnderWay
<1>2. call'[c] = Inserted(c, n)
  BY <1>1 DEF InsertUser, InsertDocument
<1>3. id \notin DOMAIN users
  BY DEF IInv, DocumentsSound, InsertUser, UsernameTaken
<1>4. /\ DOMAIN users' = DOMAIN users \cup {id}
      /\ \A x \in DOMAIN users : users'[x] = users[x]
      /\ users'[id].password = r.password
      /\ users'[id].account.balance = 0
  BY <1>3 DEF InsertUser, InsertDocument, NewUser
<1>5. id \in UserId /\ made \subseteq UserId /\ r.grant \in Nat
  <2>1. id \in UserId
    BY DEF UserId
  <2>2. r.made \subseteq UserId
    BY <1>1 DEF Call
  <2>3. r.grant \in Nat
    BY <1>1, GrantNat
  <2> QED
    BY <2>1, <2>2, <2>3
<1>6. next \in Call
  BY <1>1, <1>5 DEF Call
<1>7. /\ made \subseteq DOMAIN users'
      /\ \A x \in made : /\ x[1] = c /\ users'[x].password = r.password
                         /\ users'[x].account.balance \in {0, r.grant}
                         /\ r.grant > 0 => users'[x].account.balance = 0
  <2>1. \A x \in r.made :
           /\ x[1] = c /\ x \in DOMAIN users /\ users[x].password = r.password
           /\ users[x].account.balance \in {0, r.grant}
           /\ r.grant > 0 => users[x].account.balance = 0
    BY <1>1 DEF CallSound, DocumentPaid
  <2> QED
    BY <1>4, <2>1
<1>8. CASE rest # {}
  <2>1. Inserted(c, n) = next
    BY <1>8 DEF Inserted
  <2> QED
    BY <1>1, <1>2, <1>4, <1>5, <1>6, <1>7, <2>1 DEF Call, CallSound, DocumentPaid, UnderWay
<1>9. CASE rest = {} /\ r.errors
  <2>1. Inserted(c, n) = Answered([next EXCEPT !.unpaid = {}], "ok")
    BY <1>9 DEF Inserted
  <2>2. Inserted(c, n) \in Call
    BY <1>6, <2>1 DEF Answered, Call
  <2> QED
    BY <1>1, <1>2, <1>4, <1>6, <1>7, <1>9, <2>1, <2>2
       DEF Answered, Call, CallSound, DocumentPaid, UnderWay
<1>10. CASE rest = {} /\ ~ r.errors /\ r.grant > 0
  <2>1. Inserted(c, n) = [next EXCEPT !.at = "depositing"]
    BY <1>10 DEF Inserted
  <2>2. Inserted(c, n) \in Call
    BY <1>6, <2>1 DEF Call
  <2> QED
    BY <1>1, <1>2, <1>4, <1>6, <1>7, <1>10, <2>1, <2>2
       DEF Call, CallSound, DocumentPaid, UnderWay
<1>11. CASE rest = {} /\ ~ r.errors /\ ~ r.grant > 0
  <2>1. Inserted(c, n) = [Answered(next, "ok") EXCEPT
                            !.token = IF r.kind = "register" THEN made ELSE {}]
    BY <1>11 DEF Inserted
  <2>2. Inserted(c, n) \in Call
    BY <1>5, <1>6, <2>1 DEF Answered, Call
  <2>3. r.grant = 0
    BY <1>5, <1>11
  <2> DEFINE i == Inserted(c, n)
  <2>4. /\ i.at = "answered" /\ i.made = made /\ i.unpaid = {}
        /\ i.errors = r.errors /\ i.grant = 0 /\ i.kind = r.kind
        /\ i.shown = r.shown /\ i.password = r.password
        /\ i.token = IF r.kind = "register" THEN made ELSE {}
    BY <1>1, <1>6, <1>11, <2>1, <2>3 DEF Answered, Call
  <2>5. /\ r.kind # "bots" => ~ r.errors
        /\ r.kind = "register" => r.password # NoPassword
        /\ r.shown = 0
    BY <1>1 DEF CallSound
  <2>6. call'[c] = i
    BY <1>2
  <2> HIDE DEF i, next, made, rest
  <2>7. CallSound(c, call[c])'
    BY <1>7, <2>3, <2>4, <2>5, <2>6 DEF CallSound, DocumentPaid, UnderWay
  <2> QED
    BY <2>2, <2>7
<1> QED
  BY <1>8, <1>9, <1>10, <1>11

LEMMA InsertUserIInv ==
    ASSUME IInv, NEW c \in Calls, NEW n \in Names, InsertUser(c, n) PROVE IInv'
<1> DEFINE id == <<c, n>>
<1>1. /\ call \in [Calls -> Call] /\ users \in [DOMAIN users -> UserDoc]
      /\ ledger \in [DOMAIN users -> Ledger] /\ DOMAIN users \subseteq UserId
      /\ faults \in 0 .. MaxFaults
  BY DEF IInv, TypeOK
<1>2. /\ call' = [call EXCEPT ![c] = Inserted(c, n)] /\ UNCHANGED faults
      /\ users' = [x \in DOMAIN users \cup {id} |->
                     IF x = id THEN [username |-> n, password |-> call[c].password,
                                     account |-> NewUser(0)]
                               ELSE users[x]]
      /\ ledger' = [x \in DOMAIN users \cup {id} |->
                      IF x = id THEN NoEntries ELSE ledger[x]]
      /\ \A x \in DOMAIN users : users[x].username # n
      /\ n \in call[c].names
  BY <1>1 DEF InsertUser, InsertDocument, UsernameTaken
<1>3. Inserted(c, n) \in Call /\ CallSound(c, call[c])'
  BY InsertedSound
<1>4. id \notin DOMAIN users
  BY <1>2 DEF IInv, DocumentsSound
<1>5. DOMAIN users' = DOMAIN users \cup {id} /\ id \in UserId
  BY <1>2 DEF UserId
<1>6. TypeOK'
  <2>1. [username |-> n, password |-> call[c].password, account |-> NewUser(0)] \in UserDoc
    BY <1>1 DEF UserDoc, NewUser, User, Call
  <2>2. NoEntries \in Ledger
    BY DEF NoEntries, Ledger
  <2>3. users' \in [DOMAIN users \cup {id} -> UserDoc]
    BY <1>1, <1>2, <2>1
  <2>4. ledger' \in [DOMAIN users \cup {id} -> Ledger]
    BY <1>1, <1>2, <2>2
  <2>5. call' \in [Calls -> Call]
    BY <1>1, <1>2, <1>3
  <2> HIDE DEF id
  <2> QED
    BY <1>1, <1>2, <1>5, <2>3, <2>4, <2>5 DEF TypeOK
<1>7. /\ users'[id].username = n /\ users'[id].account = NewUser(0) /\ ledger'[id] = NoEntries
      /\ \A x \in DOMAIN users : users'[x] = users[x] /\ ledger'[x] = ledger[x]
  BY <1>2, <1>4
<1>8. UniqueNames'
  BY <1>2, <1>5, <1>7 DEF IInv, UniqueNames
<1>9. DocumentsSound'
  <2>1. id[1] = c /\ id[2] = n
    OBVIOUS
  <2> HIDE DEF id
  <2>2. ASSUME NEW x \in DOMAIN users
        PROVE  /\ users'[x].username = x[2] /\ x \in call'[x[1]].made
               /\ Reconciled(users'[x].account, ledger'[x])
    <3>1. x[1] \in Calls /\ x \in call[x[1]].made
      BY <1>1 DEF IInv, DocumentsSound, UserId
    <3>2. call[c].made \subseteq call'[c].made
      BY <1>1, <1>2 DEF Inserted, Answered, Call
    <3> QED
      BY <1>1, <1>2, <1>7, <3>1, <3>2 DEF IInv, DocumentsSound
  <2>3. id \in call'[c].made
    BY <1>1, <1>2 DEF Inserted, Answered, Call, id
  <2>4. Reconciled(users'[id].account, ledger'[id])
    BY <1>7 DEF Reconciled, NewUser, NoEntries, LedgerType
  <2> QED
    BY <1>5, <1>7, <2>1, <2>2, <2>3, <2>4 DEF DocumentsSound
<1>10. \A o \in Calls : CallSound(o, call[o])'
  <2>1. \A x \in DOMAIN users :
            /\ x \in DOMAIN users' /\ users'[x].password = users[x].password
            /\ x[1] # c => users'[x] = users[x]
    BY <1>5, <1>7
  <2>2. \A o \in Calls : o # c => CallSound(o, call[o])'
    BY <1>2, <2>1, OthersSound
  <2> QED
    BY <1>3, <2>2
<1> QED
  BY <1>6, <1>8, <1>9, <1>10 DEF IInv

(* What a credit does to the documents.                                    *)
LEMMA CreditFacts ==
    ASSUME IInv, NEW c \in Calls, NEW id \in call[c].unpaid, Credit(id, call[c].grant)
    PROVE  /\ id \in DOMAIN users /\ id[1] = c /\ DOMAIN users' = DOMAIN users
           /\ \A x \in DOMAIN users : /\ users'[x].username = users[x].username
                                     /\ users'[x].password = users[x].password
           /\ \A x \in DOMAIN users \ {id} : users'[x] = users[x] /\ ledger'[x] = ledger[x]
           /\ users'[id].account = Deposit(users[id].account, call[c].grant)
           /\ ledger'[id] = AddEntry(ledger[id], "DEPOSIT", call[c].grant)
           /\ users'[id].account.balance = call[c].grant
<1>1. /\ users \in [DOMAIN users -> UserDoc] /\ ledger \in [DOMAIN users -> Ledger]
      /\ CallSound(c, call[c])
  BY DEF IInv, TypeOK
<1>2. id \in DOMAIN users /\ id[1] = c /\ users[id].account.balance = 0 /\ call[c].grant \in Nat
  BY <1>1, GrantNat DEF CallSound, DocumentPaid, IInv, TypeOK
<1>3. /\ users' = [users EXCEPT ![id].account = Deposit(users[id].account, call[c].grant)]
      /\ ledger' = [ledger EXCEPT ![id] = AddEntry(ledger[id], "DEPOSIT", call[c].grant)]
  BY DEF Credit
<1>4. DOMAIN users' = DOMAIN users
  BY <1>3
<1>5. \A x \in DOMAIN users \ {id} : users'[x] = users[x] /\ ledger'[x] = ledger[x]
  BY <1>1, <1>3
<1>6. users'[id].username = users[id].username /\ users'[id].password = users[id].password
  BY <1>1, <1>2, <1>3 DEF UserDoc
<1>7. /\ users'[id].account = Deposit(users[id].account, call[c].grant)
      /\ ledger'[id] = AddEntry(ledger[id], "DEPOSIT", call[c].grant)
  BY <1>1, <1>2, <1>3 DEF UserDoc
<1>8. users'[id].account.balance = call[c].grant
  <2>1. users[id].account \in User
    BY <1>1, <1>2 DEF UserDoc
  <2> QED
    BY <1>2, <1>7, <2>1 DEF Deposit, User
<1> QED
  BY <1>2, <1>4, <1>5, <1>6, <1>7, <1>8

(* A deposit that takes effect, heard of or not, gives a document that had *)
(* nothing its grant; r is the call then.                                  *)
LEMMA CreditIInv ==
    ASSUME IInv, NEW c \in Calls, NEW id \in call[c].unpaid,
           Credit(id, call[c].grant), faults' \in 0 .. MaxFaults,
           NEW r \in Call, call' = [call EXCEPT ![c] = r],
           CallSound(c, call[c])', r.made = call[c].made
    PROVE  IInv'
<1>1. /\ call \in [Calls -> Call] /\ users \in [DOMAIN users -> UserDoc]
      /\ ledger \in [DOMAIN users -> Ledger] /\ DOMAIN users \subseteq UserId
      /\ CallSound(c, call[c])
  BY DEF IInv, TypeOK
<1>2. id \in DOMAIN users /\ id[1] = c /\ call[c].grant \in Nat
  BY <1>1, GrantNat DEF CallSound
<1>3. /\ users' = [users EXCEPT ![id].account = Deposit(users[id].account, call[c].grant)]
      /\ ledger' = [ledger EXCEPT ![id] = AddEntry(ledger[id], "DEPOSIT", call[c].grant)]
  BY DEF Credit
<1>4. users[id].account \in User /\ ledger[id] \in Ledger
  BY <1>1, <1>2 DEF UserDoc
<1>5. /\ Deposit(users[id].account, call[c].grant) \in User
      /\ AddEntry(ledger[id], "DEPOSIT", call[c].grant) \in Ledger
  BY <1>2, <1>4 DEF User, Deposit, Ledger, LedgerType, AddEntry
<1>6. TypeOK'
  <2>1. users' \in [DOMAIN users -> UserDoc]
    BY <1>1, <1>2, <1>3, <1>5 DEF UserDoc
  <2>2. ledger' \in [DOMAIN users -> Ledger]
    BY <1>1, <1>2, <1>3, <1>5
  <2>3. DOMAIN users' = DOMAIN users /\ call' \in [Calls -> Call]
    BY <1>1, <1>3
  <2> QED
    BY <1>1, <2>1, <2>2, <2>3 DEF TypeOK
<1>7. /\ DOMAIN users' = DOMAIN users
      /\ \A x \in DOMAIN users : /\ users'[x].username = users[x].username
                                /\ users'[x].password = users[x].password
      /\ \A x \in DOMAIN users \ {id} : users'[x] = users[x] /\ ledger'[x] = ledger[x]
  BY CreditFacts
<1>8. UniqueNames'
  BY <1>7 DEF IInv, UniqueNames
<1>9. Reconciled(users'[id].account, ledger'[id])
  <2>1. Reconciled(users[id].account, ledger[id])
    BY <1>2 DEF IInv, DocumentsSound
  <2>2. /\ users'[id].account = Deposit(users[id].account, call[c].grant)
        /\ ledger'[id] = AddEntry(ledger[id], "DEPOSIT", call[c].grant)
    BY CreditFacts
  <2> QED
    BY <1>2, <1>4, <2>1, <2>2 DEF Reconciled, Deposit, AddEntry, User, Ledger, LedgerType
<1>10. DocumentsSound'
  <2> SUFFICES ASSUME NEW x \in DOMAIN users
               PROVE  /\ users'[x].username = x[2] /\ x \in call'[x[1]].made
                      /\ Reconciled(users'[x].account, ledger'[x])
    BY <1>7 DEF DocumentsSound
  <2>1. x[1] \in Calls
    BY <1>1 DEF UserId
  <2>2. x \in call[x[1]].made /\ users[x].username = x[2] /\ Reconciled(users[x].account, ledger[x])
    BY DEF IInv, DocumentsSound
  <2>3. x \in call'[x[1]].made
    BY <1>1, <2>1, <2>2
  <2>4. CASE x = id
    BY <1>7, <1>9, <2>2, <2>3, <2>4
  <2>5. CASE x # id
    BY <1>7, <2>2, <2>3, <2>5
  <2> QED
    BY <2>4, <2>5
<1>11. \A o \in Calls : o # c => CallSound(o, call[o])'
  <2>1. \A x \in DOMAIN users :
            /\ x \in DOMAIN users' /\ users'[x].password = users[x].password
            /\ x[1] # c => users'[x] = users[x]
    BY <1>2, <1>7
  <2> QED
    BY <2>1, OthersSound
<1> QED
  BY <1>6, <1>8, <1>10, <1>11 DEF IInv

(* What is left of a call after one of its deposits is sound again, with   *)
(* and without the credit.                                                 *)
LEMMA DepositedSound ==
    ASSUME IInv, NEW c \in Calls, NEW id \in call[c].unpaid, call[c].at = "depositing",
           Credit(id, call[c].grant), NEW r \in Call, call' = [call EXCEPT ![c] = r],
           r = Deposited(Paid(c, id)) \/ r = DepositThrown(c, id)
    PROVE  CallSound(c, call[c])'
<1>1. call[c] \in Call /\ CallSound(c, call[c]) /\ call'[c] = r
  BY DEF IInv, TypeOK
<1>2. /\ DOMAIN users' = DOMAIN users
      /\ \A x \in DOMAIN users : users'[x].password = users[x].password
      /\ \A x \in DOMAIN users \ {id} : users'[x] = users[x]
      /\ users'[id].account.balance = call[c].grant
  BY CreditFacts
<1>3. \A x \in call[c].made :
         /\ x \in DOMAIN users' /\ x[1] = c /\ users'[x].password = call[c].password
         /\ users'[x].account.balance \in {0, call[c].grant}
         /\ x \in call[c].unpaid \ {id} => users'[x].account.balance = 0
         /\ \/ x \in call[c].unpaid \ {id}
            \/ users'[x].account.balance = call[c].grant
            \/ call[c].errors
  BY <1>1, <1>2 DEF CallSound, DocumentPaid, UnderWay
<1>4. /\ r.made = call[c].made /\ r.grant = call[c].grant /\ r.password = call[c].password
      /\ r.kind = call[c].kind /\ r.token = call[c].token /\ r.shown = call[c].shown
      /\ r.unpaid = call[c].unpaid \ {id}
  <2>1. CASE r = Deposited(Paid(c, id))
    BY <1>1, <2>1 DEF Deposited, Paid, Answered, Call
  <2>2. CASE r = DepositThrown(c, id) /\ call[c].kind = "bots"
    BY <1>1, <2>2 DEF DepositThrown, Deposited, Paid, Answered, Call
  <2>3. CASE r = DepositThrown(c, id) /\ call[c].kind # "bots"
    BY <1>1, <2>3 DEF DepositThrown, Paid, Answered, Call
  <2> QED
    BY <2>1, <2>2, <2>3
<1>5. \/ r.at = "depositing" /\ r.answer = call[c].answer
      \/ /\ r.at = "reloading" /\ r.answer = call[c].answer /\ r.unpaid = {}
         /\ r.kind # "bots"
      \/ r.at = "answered" /\ r.answer = "ok" /\ r.kind = "bots" /\ r.unpaid = {}
      \/ r.at = "answered" /\ r.answer = "error"
  BY <1>1 DEF DepositThrown, Deposited, Paid, Answered, Call
<1>6. r.errors = call[c].errors \/ (r.errors /\ r.kind = "bots")
  BY <1>1 DEF DepositThrown, Deposited, Paid, Answered, Call
<1>7. \A x \in r.made : DocumentPaid(r, x)'
  BY <1>3, <1>4, <1>6 DEF DocumentPaid
<1>8. \A x \in r.token : /\ x \in DOMAIN users' /\ users'[x].password = r.password
                         /\ users'[x].password # NoPassword
  BY <1>1, <1>2, <1>4 DEF CallSound
<1>9. /\ call[c].made # {} /\ call[c].answer = "none" /\ call[c].shown = 0
      /\ call[c].unpaid \subseteq call[c].made
      /\ call[c].kind # "bots" => ~ call[c].errors
      /\ call[c].kind = "register" => call[c].password # NoPassword
  BY <1>1 DEF CallSound, UnderWay
<1> QED
  BY <1>1, <1>3, <1>4, <1>5, <1>6, <1>7, <1>8, <1>9 DEF CallSound, UnderWay

LEMMA ThrownSound ==
    ASSUME IInv, NEW c \in Calls, NEW id \in call[c].unpaid, call[c].at = "depositing"
    PROVE  CallSound(c, DepositThrown(c, id))
<1>1. call[c] \in Call /\ CallSound(c, call[c])
  BY DEF IInv, TypeOK
<1> QED
  BY <1>1 DEF DepositThrown, Deposited, Paid, Answered, Call, CallSound, DocumentPaid, UnderWay

LEMMA DepositType ==
    ASSUME IInv, NEW c \in Calls, NEW id \in call[c].unpaid
    PROVE  /\ Deposited(Paid(c, id)) \in Call /\ DepositThrown(c, id) \in Call
           /\ Deposited(Paid(c, id)).made = call[c].made
           /\ DepositThrown(c, id).made = call[c].made
<1>1. call[c] \in Call
  BY DEF IInv, TypeOK
<1>2. Paid(c, id) \in Call /\ Paid(c, id).made = call[c].made
  BY <1>1 DEF Paid, Call
<1>3. ASSUME NEW r \in Call
      PROVE  /\ Deposited(r) \in Call /\ Deposited(r).made = r.made
             /\ Answered(r, "error") \in Call /\ Answered(r, "error").made = r.made
             /\ [r EXCEPT !.errors = TRUE] \in Call
             /\ [r EXCEPT !.errors = TRUE].made = r.made
  BY DEF Deposited, Answered, Call
<1>4. /\ Deposited([Paid(c, id) EXCEPT !.errors = TRUE]) \in Call
      /\ Deposited([Paid(c, id) EXCEPT !.errors = TRUE]).made = call[c].made
  BY <1>2, <1>3
<1> QED
  BY <1>2, <1>3, <1>4 DEF DepositThrown

LEMMA DepositsIInv ==
    ASSUME IInv, NEW c \in Calls, NEW id \in call[c].unpaid,
           DepositGrant(c, id) \/ DepositFails(c, id)
    PROVE  IInv'
<1>1. call \in [Calls -> Call] /\ faults \in 0 .. MaxFaults /\ call[c].at = "depositing"
  BY DEF IInv, TypeOK, DepositGrant, DepositFails
<1>2. CASE DepositGrant(c, id)
  <2>1. /\ Credit(id, call[c].grant) /\ UNCHANGED faults
        /\ call' = [call EXCEPT ![c] = Deposited(Paid(c, id))]
    BY <1>1, <1>2 DEF DepositGrant
  <2>2. CallSound(c, call[c])'
    BY <1>1, <2>1, DepositedSound, DepositType
  <2> QED
    BY <1>1, <2>1, <2>2, CreditIInv, DepositType
<1>3. CASE DepositFails(c, id)
  <2>1. /\ faults' \in 0 .. MaxFaults
        /\ call' = [call EXCEPT ![c] = DepositThrown(c, id)]
        /\ UNCHANGED <<users, ledger>> \/ Credit(id, call[c].grant)
    BY <1>1, <1>3, RegistrationAssumption DEF DepositFails
  <2>2. CASE UNCHANGED <<users, ledger>>
    BY <1>1, <2>1, <2>2, CallMoves, ThrownSound, DepositType
  <2>3. CASE Credit(id, call[c].grant)
    <3>1. CallSound(c, call[c])'
      BY <1>1, <2>1, <2>3, DepositedSound, DepositType
    <3> QED
      BY <1>1, <2>1, <2>3, <3>1, CreditIInv, DepositType
  <2> QED
    BY <2>1, <2>2, <2>3
<1> QED
  BY <1>2, <1>3

-----------------------------------------------------------------------------
(* Every step of the server or of a client.                                *)
LEMMA ServerIInv == ASSUME IInv, NEW c \in Calls, Step(c) PROVE IInv'
BY FindExistingIInv, ReloadIInv, RefuseBotsIInv, InsertUserIInv, RefuseDuplicateIInv,
   DepositsIInv DEF Step

LEMMA NextIInv == IInv /\ [Next]_registration => IInv'
<1>1. ASSUME IInv, UNCHANGED registration PROVE IInv'
  <2>1. UNCHANGED <<users, ledger>> /\ call' = call /\ faults' = faults
    BY <1>1 DEF registration
  <2> QED
    BY <1>1, <2>1, CallsMove DEF IInv, TypeOK
<1> QED
  BY <1>1, AskIInv, ServerIInv, LoginIInv, CrashIInv DEF Next

(* Names stay unique, grants are honoured and tokens given to whom they    *)
(* belong, in every state of the registration.                             *)
THEOREM RegistrationSafe == Spec => [](UniqueNames /\ GrantHonoured /\ TokenForPassword)
<1>1. Spec => []IInv
  BY InitIInv, NextIInv, PTL DEF Spec
<1> QED
  BY <1>1, IInvImplies, PTL

-----------------------------------------------------------------------------
(* The load test.                                                          *)

Settled == {t \in Task : task[t].at = "settled"}

\* The tasks whose bot was created, or that are over.
Past == {t \in Task : task[t].at \in {"bidding", "settled"}}

\* A task is started when the pool comes to it and never again, and what
\* the report counts has happened.
PoolSound ==
    /\ pool.next <= pool.last + 1
    /\ \A t \in Task : t >= pool.next \/ t > pool.last => task[t].at = "waiting"
    /\ \A t \in Task : task[t].at = "waiting" => call[t].at = "idle"
    /\ ~ pool.running => Active = {}
    /\ PoolFull
    /\ succeeded.tasks <= Cardinality(Settled)
    /\ succeeded.bots <= Cardinality(Past)

LoadInv ==
    /\ IInv
    /\ LoadTypeOK
    /\ PoolSound

LEMMA TwoOf ==
    ASSUME NEW a \in Int, NEW b \in Int
    PROVE  /\ Max({a, b}) = IF a >= b THEN a ELSE b
           /\ Min({a, b}) = IF a <= b THEN a ELSE b
BY DEF Max, Min

(* The width stays between its bounds.                                     *)
LEMMA AdaptedWidth == ASSUME NEW c \in Width PROVE Adapted(c) \subseteq Width
<1>1. c \in Nat /\ MinConcurrency \in Nat /\ MaxConcurrency \in Nat
      /\ MinConcurrency <= c /\ c <= MaxConcurrency
  BY WidthAssumption DEF Width
<1>2. (c * 8) \div 10 \in Nat /\ (c * 8) \div 10 <= c
  BY <1>1
<1>3. (c * 11) \div 10 \in Nat /\ (c * 11) \div 10 >= c
  BY <1>1
<1>4. Max({MinConcurrency, (c * 8) \div 10}) \in Width
  BY <1>1, <1>2, TwoOf DEF Width
<1>5. Min({MaxConcurrency, (c * 11) \div 10}) \in Width
  <2> DEFINE w == (c * 11) \div 10
  <2>1. w \in Nat /\ w >= c
    BY <1>3
  <2> HIDE DEF w
  <2>2. Min({MaxConcurrency, w}) = IF MaxConcurrency <= w THEN MaxConcurrency ELSE w
    BY <1>1, <2>1, TwoOf
  <2>3. Min({MaxConcurrency, w}) \in Width
    BY <1>1, <2>1, <2>2 DEF Width
  <2> QED
    BY <2>3 DEF w
<1> QED
  BY <1>4, <1>5 DEF Adapted

(* The tasks are a finite set of calls.                                    *)
LEMMA TaskFinite ==
    /\ IsFiniteSet(Task) /\ Cardinality(Task) = NumBots
    /\ \A S \in SUBSET Task : /\ IsFiniteSet(S) /\ Cardinality(S) \in Nat
                             /\ Cardinality(S) <= NumBots
<1>1. IsFiniteSet(Task) /\ Cardinality(Task) = NumBots
  BY BotsAssumption, FS_Interval DEF Task
<1>2. ASSUME NEW S \in SUBSET Task
      PROVE  IsFiniteSet(S) /\ Cardinality(S) \in Nat /\ Cardinality(S) <= NumBots
  <2>1. IsFiniteSet(S) /\ Cardinality(S) <= NumBots
    BY <1>1, FS_Subset
  <2>2. Cardinality(S) \in Nat
    BY <2>1, FS_CardinalityType
  <2> QED
    BY <2>1, <2>2
<1> QED
  BY <1>1, <1>2

(* The calls of tasks that have not been started may be sent.              *)
LEMMA StartIInv ==
    ASSUME IInv, LoadTypeOK, NEW T \in SUBSET Task, \A t \in T : call[t].at = "idle",
           NEW tasks, Start(T, tasks), UNCHANGED <<users, ledger, faults>>
    PROVE  IInv'
<1> DEFINE r(c) == [NoCall EXCEPT !.at = "finding", !.kind = "create",
                                  !.names = {c}, !.grant = BotGrant]
<1>1. call \in [Calls -> Call] /\ faults \in 0 .. MaxFaults
      /\ \A c \in Calls : CallSound(c, call[c])
  BY DEF IInv, TypeOK
<1>2. T \subseteq Calls /\ T \subseteq Names
  BY BotsAssumption
<1>3. call' = [c \in Calls |-> IF c \in T THEN r(c) ELSE call[c]]
  BY DEF Start
<1>4. \A c \in T : r(c) \in Call
  BY <1>2, WorkAssumption DEF Call, NoCall, Kind
<1>5. \A c \in T : CallSound(c, r(c)) /\ r(c).made = call[c].made
  BY <1>1, <1>2 DEF CallSound, NoCall, UnderWay
<1> HIDE DEF r
<1>6. call' \in [Calls -> Call]
  BY <1>1, <1>3, <1>4
<1>7. \A c \in Calls : CallSound(c, call'[c]) /\ call'[c].made = call[c].made
  BY <1>1, <1>3, <1>5
<1> QED
  BY <1>1, <1>6, <1>7, CallsMove

(* A step of the server or of a client moves one call, and no call that    *)
(* has not begun.                                                          *)
LEMMA StepLocal ==
    ASSUME IInv, NEW c \in Calls, Step(c)
    PROVE  call[c].at # "idle" /\ \A o \in Calls : o # c => call'[o] = call[o]
<1>1. call \in [Calls -> Call] /\ CallSound(c, call[c])
  BY DEF IInv, TypeOK
<1>2. CASE FindExisting(c) \/ Reload(c) \/ RefuseBots(c)
  BY <1>1, <1>2 DEF FindExisting, Reload, RefuseBots
<1>3. ASSUME NEW n \in Names, InsertUser(c, n) \/ RefuseDuplicate(c, n)
      PROVE  call[c].at # "idle" /\ \A o \in Calls : o # c => call'[o] = call[o]
  BY <1>1, <1>3 DEF InsertUser, InsertDocument, RefuseDuplicate
<1>4. ASSUME NEW id \in call[c].unpaid, DepositGrant(c, id) \/ DepositFails(c, id)
      PROVE  call[c].at # "idle" /\ \A o \in Calls : o # c => call'[o] = call[o]
  BY <1>1, <1>4 DEF DepositGrant, DepositFails
<1> QED
  BY <1>2, <1>3, <1>4 DEF Step

(* Where the pool is after it has filled `free` places.                    *)
LEMMA AdvancedRange ==
    ASSUME NEW p, p.next \in Nat, p.last \in Nat, p.next <= p.last + 1, NEW free \in Nat \ {0}
    PROVE  /\ Advanced(p, free) \in p.next .. p.last + 1
           /\ p.next <= p.last => Advanced(p, free) > p.next
           /\ Advanced(p, free) <= p.next + free
           /\ Advanced(p, free) = p.next + free \/ Advanced(p, free) = p.last + 1
BY DEF Advanced

LEMMA LoadInitInv == LoadInit => LoadInv
<1> SUFFICES ASSUME LoadInit PROVE LoadInv
  OBVIOUS
<1>1. IInv
  BY InitIInv DEF LoadInit
<1>2. /\ task = [t \in Task |-> [at |-> "waiting", bids |-> BidsPerBot]]
      /\ pool = [running |-> FALSE, last |-> 0, limit |-> InitialConcurrency, next |-> 1]
      /\ concurrency = InitialConcurrency /\ succeeded = [tasks |-> 0, bots |-> 0]
  BY DEF LoadInit
<1>3. LoadTypeOK
  BY <1>1, <1>2, BotsAssumption, WorkAssumption, WidthAssumption DEF LoadTypeOK, IInv, Width
<1>4. Settled = {} /\ Past = {} /\ Active = {}
  BY <1>2 DEF Settled, Past, Active
<1>5. \A t \in Task : call[t].at = "idle"
  BY BotsAssumption DEF LoadInit, Init, NoCall
<1>6. PoolSound
  BY <1>2, <1>4, <1>5, FS_EmptySet DEF PoolSound, PoolFull
<1> QED
  BY <1>1, <1>3, <1>6 DEF LoadInv

LEMMA StartBatchInv == ASSUME LoadInv, StartBatch PROVE LoadInv'
<1> DEFINE last == Min({pool.last + BatchSize, NumBots})
           p == [running |-> TRUE, last |-> last, limit |-> concurrency, next |-> pool.last + 1]
           end == Advanced(p, concurrency)
<1>1. /\ ~ pool.running /\ pool.last < NumBots /\ Active = {}
      /\ Start(StartedBy(p, concurrency), task) /\ pool' = [p EXCEPT !.next = end]
      /\ UNCHANGED <<users, ledger, faults, concurrency, succeeded>>
  BY DEF StartBatch, FreeAtStart, LoadInv, PoolSound
<1>2. /\ pool.last \in 0 .. NumBots /\ concurrency \in Width /\ concurrency \in Nat \ {0}
      /\ NumBots \in Nat /\ BatchSize \in Nat \ {0}
      /\ task \in [Task -> [at : {"waiting", "creating", "bidding", "settled"}, bids : 0 .. BidsPerBot]]
  BY BotsAssumption, WorkAssumption, WidthAssumption DEF LoadInv, LoadTypeOK, Width
<1>3. last \in pool.last + 1 .. NumBots
  <2>1. last = IF pool.last + BatchSize <= NumBots THEN pool.last + BatchSize ELSE NumBots
    <3> DEFINE sum == pool.last + BatchSize
    <3>1. sum \in Int /\ NumBots \in Int
      BY <1>2
    <3> HIDE DEF sum
    <3>2. Min({sum, NumBots}) = IF sum <= NumBots THEN sum ELSE NumBots
      BY <3>1, TwoOf
    <3> QED
      BY <3>2 DEF sum
  <2> HIDE DEF last
  <2> QED
    BY <1>1, <1>2, <2>1
<1> HIDE DEF last
<1>4. /\ end \in pool.last + 2 .. last + 1
      /\ end = pool.last + 1 + concurrency \/ end = last + 1
      /\ end <= pool.last + 1 + concurrency
  <2>1. p.next = pool.last + 1 /\ p.last = last
    OBVIOUS
  <2> HIDE DEF p
  <2>2. p.next \in Nat /\ p.last \in Nat /\ p.next <= p.last /\ p.next <= p.last + 1
    BY <1>2, <1>3, <2>1
  <2>3. /\ end \in p.next .. p.last + 1 /\ end > p.next /\ end <= p.next + concurrency
        /\ end = p.next + concurrency \/ end = p.last + 1
    BY <1>2, <2>2, AdvancedRange
  <2> QED
    BY <1>2, <1>3, <2>1, <2>3
<1>5. StartedBy(p, concurrency) = pool.last + 1 .. end - 1
  BY <1>2, <1>3, <1>4 DEF StartedBy, Task
<1> HIDE DEF end
<1>6. /\ pool'.running /\ pool'.last = last /\ pool'.limit = concurrency /\ pool'.next = end
      /\ pool' \in [running : BOOLEAN, last : 0 .. NumBots, limit : Width, next : 1 .. NumBots + 1]
  <2>1. last \in 0 .. NumBots /\ end \in 1 .. NumBots + 1
    BY <1>2, <1>3, <1>4
  <2>2. pool' = [running |-> TRUE, last |-> last, limit |-> concurrency, next |-> end]
    BY <1>1
  <2> QED
    BY <1>2, <2>1, <2>2
<1> HIDE DEF p
<1> DEFINE T == pool.last + 1 .. end - 1
<1>7. T \in SUBSET Task /\ \A t \in T : task[t].at = "waiting" /\ call[t].at = "idle"
  <2> SUFFICES ASSUME NEW t \in T
               PROVE  t \in Task /\ task[t].at = "waiting" /\ call[t].at = "idle"
    OBVIOUS
  <2>1. t \in Task /\ t > pool.last
    BY <1>2, <1>3, <1>4 DEF Task
  <2> QED
    BY <2>1 DEF LoadInv, PoolSound
<1>8. IInv'
  BY <1>1, <1>5, <1>7, StartIInv DEF LoadInv
<1>9. task' = [t \in Task |-> IF t \in T THEN [task[t] EXCEPT !.at = "creating"] ELSE task[t]]
      /\ call' = [c \in Calls |-> IF c \in T
                                 THEN [NoCall EXCEPT !.at = "finding", !.kind = "create",
                                                     !.names = {c}, !.grant = BotGrant]
                                 ELSE call[c]]
  BY <1>1, <1>5 DEF Start
<1>10. LoadTypeOK'
  <2>1. task' \in [Task -> [at : {"waiting", "creating", "bidding", "settled"}, bids : 0 .. BidsPerBot]]
    BY <1>2, <1>9
  <2> QED
    BY <1>1, <1>6, <1>8, <2>1 DEF LoadInv, LoadTypeOK, IInv
<1>11. Active' = T /\ Settled' = Settled /\ Past' = Past
  BY <1>1, <1>2, <1>7, <1>9 DEF Active, Settled, Past
<1>12. Cardinality(T) = end - 1 - pool.last /\ T # {}
  <2>1. pool.last + 1 \in Int /\ end - 1 \in Int /\ ~ (pool.last + 1 > end - 1)
        /\ (end - 1) - (pool.last + 1) + 1 = end - 1 - pool.last
    BY <1>2, <1>3, <1>4
  <2>2. Cardinality(T) = end - 1 - pool.last
    BY <2>1, FS_Interval
  <2>3. pool.last + 1 \in T
    BY <1>2, <1>3, <1>4
  <2> QED
    BY <2>2, <2>3
<1>13. PoolFull'
  <2>1. pool'.limit = concurrency /\ pool'.last = last /\ pool'.next = end
    BY <1>6
  <2>2. /\ end - 1 - pool.last <= concurrency
        /\ end - 1 - pool.last = concurrency \/ end > last
    BY <1>2, <1>3, <1>4
  <2> HIDE DEF T
  <2> QED
    BY <1>11, <1>12, <2>1, <2>2 DEF PoolFull
<1>14. \A t \in Task : t >= end \/ t > last => task'[t].at = "waiting"
  <2> SUFFICES ASSUME NEW t \in Task, t >= end \/ t > last PROVE task'[t].at = "waiting"
    OBVIOUS
  <2>1. t \in Nat /\ t > pool.last /\ t \notin T
    BY <1>2, <1>3, <1>4 DEF Task
  <2>2. task[t].at = "waiting"
    BY <2>1 DEF LoadInv, PoolSound
  <2> QED
    BY <1>2, <1>9, <2>1, <2>2
<1>15. \A t \in Task : task'[t].at = "waiting" => call'[t].at = "idle"
  BY <1>2, <1>9, BotsAssumption DEF LoadInv, PoolSound
<1>16. PoolSound'
  BY <1>1, <1>2, <1>3, <1>4, <1>6, <1>11, <1>13, <1>14, <1>15 DEF LoadInv, PoolSound
<1> QED
  BY <1>8, <1>10, <1>16 DEF LoadInv

(* A task that is over makes room for the next one of the batch, if any.   *)
LEMMA SettleInv ==
    ASSUME LoadInv, NEW t \in Task, task[t].at \in {"creating", "bidding"}, Settle(t),
           UNCHANGED <<users, ledger, faults>>, concurrency' \in Width,
           succeeded' \in [tasks : Nat, bots : Nat], succeeded'.bots = succeeded.bots,
           \/ succeeded'.tasks = succeeded.tasks
           \/ succeeded'.tasks = succeeded.tasks + 1
    PROVE  LoadInv'
<1> DEFINE T == {u \in Task : u = pool.next /\ u <= pool.last}
           next == IF pool.next <= pool.last THEN pool.next + 1 ELSE pool.next
<1>1. /\ task \in [Task -> [at : {"waiting", "creating", "bidding", "settled"}, bids : 0 .. BidsPerBot]]
      /\ pool \in [running : BOOLEAN, last : 0 .. NumBots, limit : Width, next : 1 .. NumBots + 1]
      /\ pool.last \in Nat /\ pool.next \in Nat /\ pool.limit \in Nat \ {0}
      /\ pool.next <= pool.last + 1 /\ NumBots \in Nat
  BY BotsAssumption, WidthAssumption DEF LoadInv, LoadTypeOK, Width, PoolSound
<1>2. Advanced(pool, 1) = next
  BY <1>1 DEF Advanced
<1>3. StartedBy(pool, 1) = T
  BY <1>1, <1>2 DEF StartedBy, Task
<1>4. /\ t \in Active /\ pool.running /\ t \notin T /\ t < pool.next /\ t <= pool.last /\ t \in Nat
      /\ \A u \in T : task[u].at = "waiting" /\ call[u].at = "idle"
  <2>1. t \in Nat /\ t \in Active
    BY DEF Task, Active
  <2>2. ~ (t >= pool.next \/ t > pool.last)
    BY DEF LoadInv, PoolSound
  <2>3. pool.running
    BY <2>1 DEF LoadInv, PoolSound
  <2>4. \A u \in T : u >= pool.next
    BY <1>1
  <2>5. \A u \in T : task[u].at = "waiting" /\ call[u].at = "idle"
    BY <2>4 DEF LoadInv, PoolSound
  <2> QED
    BY <1>1, <2>1, <2>2, <2>3, <2>5
<1>5. task' = [u \in Task |-> IF u \in T THEN [task[u] EXCEPT !.at = "creating"]
                            ELSE IF u = t THEN [task[u] EXCEPT !.at = "settled"] ELSE task[u]]
  BY <1>1, <1>3, <1>4 DEF Settle, Start
<1>6. call' = [c \in Calls |-> IF c \in T
                             THEN [NoCall EXCEPT !.at = "finding", !.kind = "create",
                                                 !.names = {c}, !.grant = BotGrant]
                             ELSE call[c]]
  BY <1>3 DEF Settle, Start
<1>7. /\ pool'.last = pool.last /\ pool'.limit = pool.limit /\ pool'.next = next
      /\ pool'.running <=> pool.next <= pool.last \/ Active # {t}
      /\ pool' \in [running : BOOLEAN, last : 0 .. NumBots, limit : Width, next : 1 .. NumBots + 1]
  <2> DEFINE more == pool.next <= pool.last \/ Active # {t}
  <2>1. pool' = [pool EXCEPT !.next = next, !.running = more]
    BY <1>2 DEF Settle, OthersActive
  <2>2. next \in 1 .. NumBots + 1 /\ more \in BOOLEAN
    BY <1>1
  <2>3. pool'.running = more
    BY <1>1, <2>1
  <2> HIDE DEF next, more
  <2>4. /\ pool'.last = pool.last /\ pool'.limit = pool.limit /\ pool'.next = next
        /\ pool' \in [running : BOOLEAN, last : 0 .. NumBots, limit : Width, next : 1 .. NumBots + 1]
    BY <1>1, <2>1, <2>2
  <2> QED
    BY <2>3, <2>4 DEF more
<1>8. IInv'
  <2>1. T \in SUBSET Task /\ Start(T, [task EXCEPT ![t].at = "settled"])
    BY <1>3 DEF Settle
  <2> HIDE DEF T
  <2> QED
    BY <1>4, <2>1, StartIInv DEF LoadInv
<1>9. IsFiniteSet(Active) /\ IsFiniteSet(Settled) /\ IsFiniteSet(Past)
      /\ Cardinality(Active) \in Nat /\ Cardinality(Settled) \in Nat /\ Cardinality(Past) \in Nat
  <2>1. Active \in SUBSET Task /\ Settled \in SUBSET Task /\ Past \in SUBSET Task
    BY DEF Active, Settled, Past
  <2> QED
    BY <2>1, TaskFinite
<1>10. Active' = (Active \ {t}) \cup T
  BY <1>1, <1>4, <1>5 DEF Active
<1>11. Settled' = Settled \cup {t} /\ t \notin Settled
  BY <1>1, <1>4, <1>5 DEF Settled
<1>12. Past' = Past \cup {t}
  BY <1>1, <1>4, <1>5 DEF Past
<1>13. Cardinality(Settled') = Cardinality(Settled) + 1 /\ Cardinality(Past') >= Cardinality(Past)
  <2>1. Cardinality(Settled \cup {t}) = Cardinality(Settled) + 1
    BY <1>9, <1>11, FS_AddElement
  <2>2. Cardinality(Past \cup {t}) = IF t \in Past THEN Cardinality(Past) ELSE Cardinality(Past) + 1
    BY <1>9, FS_AddElement
  <2>3. Cardinality(Past \cup {t}) >= Cardinality(Past)
    BY <1>9, <2>2
  <2> QED
    BY <1>11, <1>12, <2>1, <2>3
<1>14. Cardinality(Active \ {t}) = Cardinality(Active) - 1 /\ IsFiniteSet(Active \ {t})
  BY <1>4, <1>9, FS_RemoveElement
<1>15. succeeded' \in [tasks : 0 .. NumBots, bots : 0 .. NumBots]
       /\ succeeded'.tasks <= Cardinality(Settled') /\ succeeded'.bots <= Cardinality(Past')
  <2>1. Settled' \in SUBSET Task /\ Past' \in SUBSET Task
    BY DEF Settled, Past
  <2>2. /\ Cardinality(Settled') \in Nat /\ Cardinality(Settled') <= NumBots
        /\ Cardinality(Past') \in Nat /\ Cardinality(Past') <= NumBots
    BY <2>1, TaskFinite
  <2>3. /\ succeeded.tasks \in Nat /\ succeeded.bots \in Nat
        /\ succeeded.tasks <= Cardinality(Settled) /\ succeeded.bots <= Cardinality(Past)
    BY <1>1 DEF LoadInv, LoadTypeOK, PoolSound
  <2>4. succeeded'.tasks \in 0 .. NumBots /\ succeeded'.bots \in 0 .. NumBots
        /\ succeeded'.tasks <= Cardinality(Settled') /\ succeeded'.bots <= Cardinality(Past')
    BY <1>1, <1>9, <1>13, <2>2, <2>3
  <2> QED
    BY <2>4
<1>16. LoadTypeOK'
  <2>1. task' \in [Task -> [at : {"waiting", "creating", "bidding", "settled"}, bids : 0 .. BidsPerBot]]
    BY <1>1, <1>5
  <2> QED
    BY <1>7, <1>8, <1>15, <2>1 DEF LoadTypeOK, IInv
<1>17. PoolFull' /\ (~ pool'.running => Active' = {})
  <2>1. CASE pool.next <= pool.last
    <3>1. T = {pool.next} /\ pool.next \notin Active
      BY <1>1, <1>4, <2>1 DEF Task, Active
    <3>2. Cardinality(Active') = Cardinality(Active)
      <4>1. Cardinality((Active \ {t}) \cup {pool.next}) = Cardinality(Active \ {t}) + 1
        BY <1>14, <3>1, FS_AddElement
      <4>2. Active' = (Active \ {t}) \cup {pool.next}
        BY <1>10, <3>1
      <4> QED
        BY <1>9, <1>14, <4>1, <4>2
    <3>3. Cardinality(Active) <= pool.limit /\ Cardinality(Active) = pool.limit
      BY <1>1, <1>4, <2>1 DEF LoadInv, PoolSound, PoolFull
    <3> QED
      BY <1>7, <1>10, <2>1, <3>1, <3>2, <3>3 DEF PoolFull
  <2>2. CASE ~ pool.next <= pool.last
    <3>1. T = {} /\ next = pool.next /\ pool.next > pool.last
      BY <1>1, <2>2
    <3>2. Active' = Active \ {t} /\ Cardinality(Active') = Cardinality(Active) - 1
      BY <1>10, <1>14, <3>1
    <3>3. Cardinality(Active) <= pool.limit
      BY <1>4 DEF LoadInv, PoolSound, PoolFull
    <3>4. pool'.running <=> Active # {t}
      BY <1>7, <2>2
    <3> QED
      BY <1>1, <1>4, <1>7, <1>9, <3>1, <3>2, <3>3, <3>4 DEF PoolFull
  <2> QED
    BY <2>1, <2>2
<1>18. \A u \in Task : u >= next \/ u > pool.last => task'[u].at = "waiting"
  <2> SUFFICES ASSUME NEW u \in Task, u >= next \/ u > pool.last PROVE task'[u].at = "waiting"
    OBVIOUS
  <2>1. u >= pool.next /\ u \notin T /\ u # t
    BY <1>1, <1>4 DEF Task
  <2>2. task[u].at = "waiting"
    BY <2>1 DEF LoadInv, PoolSound
  <2> QED
    BY <1>1, <1>5, <2>1, <2>2
<1>19. \A u \in Task : task'[u].at = "waiting" => call'[u].at = "idle"
  BY <1>1, <1>5, <1>6, BotsAssumption DEF LoadInv, PoolSound
<1>20. next <= pool.last + 1
  BY <1>1
<1> QED
  BY <1>7, <1>8, <1>15, <1>16, <1>17, <1>18, <1>19, <1>20 DEF LoadInv, PoolSound

LEMMA TaskStepInv == ASSUME LoadInv, NEW t \in Task, TaskStep(t) PROVE LoadInv'
<1>1. /\ task \in [Task -> [at : {"waiting", "creating", "bidding", "settled"}, bids : 0 .. BidsPerBot]]
      /\ succeeded \in [tasks : 0 .. NumBots, bots : 0 .. NumBots] /\ concurrency \in Width
      /\ BidsPerBot \in Nat /\ NumBots \in Nat
  BY BotsAssumption, WorkAssumption DEF LoadInv, LoadTypeOK
<1>2. CASE BotNotCreated(t)
  BY <1>1, <1>2, SettleInv DEF BotNotCreated
<1>3. CASE FinishTask(t)
  <2>1. concurrency' \in Width
    BY <1>1, <1>3, AdaptedWidth DEF FinishTask
  <2>2. /\ succeeded' \in [tasks : Nat, bots : Nat] /\ succeeded'.bots = succeeded.bots
        /\ succeeded'.tasks = succeeded.tasks + 1
    BY <1>1, <1>3 DEF FinishTask
  <2> QED
    BY <1>3, <2>1, <2>2, SettleInv DEF FinishTask
<1>4. CASE PlaceBid(t)
  <2>1. /\ task[t].at = "bidding" /\ task[t].bids > 0
        /\ task' = [task EXCEPT ![t].bids = @ - 1]
        /\ UNCHANGED <<users, ledger, call, faults, pool, concurrency, succeeded>>
    BY <1>4 DEF PlaceBid, registration
  <2>2. task' \in [Task -> [at : {"waiting", "creating", "bidding", "settled"}, bids : 0 .. BidsPerBot]]
        /\ \A u \in Task : task'[u].at = task[u].at
    BY <1>1, <2>1
  <2>3. IInv'
    BY <2>1, CallsMove DEF LoadInv, IInv, TypeOK
  <2>4. Active' = Active /\ Settled' = Settled /\ Past' = Past
    BY <2>2 DEF Active, Settled, Past
  <2>5. LoadTypeOK'
    BY <2>1, <2>2, <2>3 DEF LoadInv, LoadTypeOK, IInv
  <2>6. PoolSound'
    BY <2>1, <2>2, <2>4 DEF LoadInv, PoolSound, PoolFull
  <2> QED
    BY <2>3, <2>5, <2>6 DEF LoadInv
<1>5. CASE BotCreated(t)
  <2>1. /\ task[t].at = "creating" /\ task' = [task EXCEPT ![t].at = "bidding"]
        /\ succeeded' = [succeeded EXCEPT !.bots = @ + 1]
        /\ UNCHANGED <<users, ledger, call, faults, pool, concurrency>>
    BY <1>5 DEF BotCreated, registration
  <2>2. task' \in [Task -> [at : {"waiting", "creating", "bidding", "settled"}, bids : 0 .. BidsPerBot]]
        /\ \A u \in Task : task'[u].at = IF u = t THEN "bidding" ELSE task[u].at
    BY <1>1, <2>1
  <2>3. IInv'
    BY <2>1, CallsMove DEF LoadInv, IInv, TypeOK
  <2>4. Active' = Active /\ Settled' = Settled /\ Past' = Past \cup {t} /\ t \notin Past
    BY <2>1, <2>2 DEF Active, Settled, Past
  <2>5. /\ Cardinality(Past') = Cardinality(Past) + 1
        /\ Cardinality(Past) \in Nat /\ Cardinality(Past') \in Nat /\ Cardinality(Past') <= NumBots
    <3>1. Past \in SUBSET Task /\ Past' \in SUBSET Task
      BY DEF Past
    <3>2. /\ IsFiniteSet(Past) /\ Cardinality(Past) \in Nat
          /\ Cardinality(Past') \in Nat /\ Cardinality(Past') <= NumBots
      BY <3>1, TaskFinite
    <3>3. Cardinality(Past \cup {t}) = Cardinality(Past) + 1
      BY <2>4, <3>2, FS_AddElement
    <3> QED
      BY <2>4, <3>2, <3>3
  <2>6. /\ succeeded' \in [tasks : 0 .. NumBots, bots : 0 .. NumBots]
        /\ succeeded'.bots <= Cardinality(Past') /\ succeeded'.tasks = succeeded.tasks
    <3>1. succeeded.bots \in Nat /\ succeeded.bots <= Cardinality(Past)
      BY <1>1 DEF LoadInv, PoolSound
    <3>2. succeeded.bots + 1 \in 0 .. NumBots /\ succeeded.bots + 1 <= Cardinality(Past')
      BY <1>1, <2>5, <3>1
    <3> QED
      BY <1>1, <2>1, <3>2
  <2>7. LoadTypeOK'
    BY <2>1, <2>2, <2>3, <2>6 DEF LoadInv, LoadTypeOK, IInv
  <2>8. PoolSound'
    BY <2>1, <2>2, <2>4, <2>6 DEF LoadInv, PoolSound, PoolFull
  <2> QED
    BY <2>3, <2>7, <2>8 DEF LoadInv
<1> QED
  BY <1>2, <1>3, <1>4, <1>5 DEF TaskStep

(* The server and the other clients leave the load test alone, and start   *)
(* none of its calls.                                                      *)
LEMMA RegistrationStepInv ==
    ASSUME LoadInv, IInv', UNCHANGED load,
           \A t \in Task : task[t].at = "waiting" => call'[t].at = "idle"
    PROVE  LoadInv'
<1>1. task' = task /\ pool' = pool /\ concurrency' = concurrency /\ succeeded' = succeeded
  BY DEF load
<1>2. LoadTypeOK'
  BY <1>1 DEF LoadInv, LoadTypeOK, IInv
<1>3. Active' = Active /\ Settled' = Settled /\ Past' = Past
  BY <1>1 DEF Active, Settled, Past
<1>4. PoolSound'
  BY <1>1, <1>3 DEF LoadInv, PoolSound, PoolFull
<1> QED
  BY <1>2, <1>4 DEF LoadInv

LEMMA LoadNextInv == LoadInv /\ [LoadNext]_vars => LoadInv'
<1> SUFFICES ASSUME LoadInv, [LoadNext]_vars PROVE LoadInv'
  OBVIOUS
<1>0. /\ IInv /\ call \in [Calls -> Call] /\ Task \subseteq Calls
      /\ \A t \in Task : task[t].at = "waiting" => call[t].at = "idle"
  BY BotsAssumption DEF LoadInv, IInv, TypeOK, PoolSound
<1>1. CASE StartBatch
  BY <1>1, StartBatchInv
<1>2. ASSUME NEW t \in Task, TaskStep(t) PROVE LoadInv'
  BY <1>2, TaskStepInv
<1>3. ASSUME NEW c \in Calls, Server(c) PROVE LoadInv'
  <2>1. Step(c) /\ UNCHANGED load
    BY <1>3 DEF Server
  <2>2. IInv' /\ call[c].at # "idle" /\ \A o \in Calls : o # c => call'[o] = call[o]
    BY <1>0, <2>1, ServerIInv, StepLocal
  <2> QED
    BY <1>0, <2>1, <2>2, RegistrationStepInv
<1>4. ASSUME NEW c \in Clients, AskAny(c) \/ \E n \in Names, p \in Passwords : Login(c, n, p),
             UNCHANGED load
      PROVE  LoadInv'
  <2>1. c \in Calls /\ c \notin Task
    BY DEF Clients
  <2>2. IInv'
    BY <1>0, <1>4, <2>1, AskIInv, LoginIInv
  <2>3. \A o \in Calls : o # c => call'[o] = call[o]
    BY <1>0, <1>4 DEF AskAny, Ask, Login
  <2> QED
    BY <1>0, <1>4, <2>1, <2>2, <2>3, RegistrationStepInv
<1>5. CASE Crash /\ UNCHANGED load
  <2>1. \A t \in Task : task[t].at = "waiting" => call'[t].at = "idle"
    BY <1>0, <1>5 DEF Crash
  <2> QED
    BY <1>0, <1>5, <2>1, CrashIInv, RegistrationStepInv
<1>6. CASE UNCHANGED vars
  <2>1. UNCHANGED <<users, ledger, call, faults>> /\ UNCHANGED load
    BY <1>6 DEF vars, load
  <2>2. IInv'
    BY <1>0, <2>1, CallsMove DEF IInv, TypeOK
  <2> QED
    BY <1>0, <2>1, <2>2, RegistrationStepInv
<1> QED
  BY <1>1, <1>2, <1>3, <1>4, <1>5, <1>6 DEF LoadNext

LEMMA LoadInvariant == LoadSpec => []LoadInv
BY LoadInitInv, LoadNextInv, PTL DEF LoadSpec

(* The state has its type: in particular the width stays between its       *)
(* bounds and the report never counts more than there are bots.            *)
THEOREM LoadTypeCorrect == LoadSpec => []LoadTypeOK
BY LoadInvariant, PTL DEF LoadInv

(* Whatever the load test and other clients do, no two users have the same *)
(* name.                                                                   *)
THEOREM NamesUnique == LoadSpec => []UniqueNames
BY LoadInvariant, PTL DEF LoadInv, IInv

(* A user answered for has its grant, and nobody has more.                 *)
THEOREM GrantsHonoured == LoadSpec => []GrantHonoured
<1>1. LoadInv => GrantHonoured
  BY IInvImplies DEF LoadInv
<1> QED
  BY <1>1, LoadInvariant, PTL

(* A token is for a user whose password was offered.                       *)
THEOREM TokensForPasswords == LoadSpec => []TokenForPassword
<1>1. LoadInv => TokenForPassword
  BY IInvImplies DEF LoadInv
<1> QED
  BY <1>1, LoadInvariant, PTL

(* The pool keeps to its limit, whatever the number of bots, the size of   *)
(* the batches and the adaptations, and leaves no place free that a task   *)
(* could take.                                                             *)
THEOREM PoolKeepsLimit == LoadSpec => []PoolFull
BY LoadInvariant, PTL DEF LoadInv, PoolSound
=============================================================================
