------------------------- MODULE BidServicesProofs --------------------------
(***************************************************************************)
(* Two services that every bid goes through, each by itself:               *)
(* BalanceService, which moves the money of the bid, and                   *)
(* BidUpdateThrottlerService, which tells the room about it.               *)
(***************************************************************************)
EXTENDS BalanceService, BidUpdateThrottler, FiniteSetTheorems, TLAPS

-----------------------------------------------------------------------------
(* BalanceService.  Its invariants hold for every set of users and calls,  *)
(* every set of amounts and every initial deposit.  They are not inductive *)
(* alone: that the ledger still explains the balances after a commit needs *)
(* the transaction's version of the document to have been computed from    *)
(* the document it replaces.  That is what write conflicts give:           *)
(*   - at most one open transaction has updated a given user (SoleWriter), *)
(*   - until another commit makes it stale, what a transaction holds is    *)
(*     the committed document, before or after its own increment           *)
(*     (SnapshotsCurrent).                                                 *)

SoleWriter ==
    \A c, o \in Calls :
        /\ call[c].pc = "updated" /\ call[o].pc = "updated"
        /\ call[c].user = call[o].user
        => c = o

SnapshotsCurrent ==
    \A c \in Calls :
        /\ call[c].pc \in Running => call[c].amount > 0
        /\ call[c].pc = "read" /\ ~ call[c].stale
              => call[c].doc = users[call[c].user]
        /\ call[c].pc = "updated"
              => /\ call[c].doc = Apply(call[c].type, users[call[c].user], call[c].amount)
                 /\ NonNegative(call[c].doc)

IInv ==
    /\ TypeOK
    /\ SoleWriter
    /\ SnapshotsCurrent
    /\ LedgerExplainsBalances
    /\ BalancesNonNegative

-----------------------------------------------------------------------------
(* An operation turns a user document into a user document.                *)
LEMMA ApplyType ==
    ASSUME NEW doc \in User, NEW amount \in Nat, NEW type \in LedgerType
    PROVE  Apply(type, doc, amount) \in User
<1>1. doc.balance \in Int /\ doc.lockedBalance \in Int
  BY DEF User
<1>2. LockFunds(doc, amount) \in User
  BY <1>1 DEF LockFunds, User
<1>3. UnlockFunds(doc, amount) \in User /\ Refund(doc, amount) \in User
  BY <1>1 DEF UnlockFunds, Refund, User
<1>4. Payout(doc, amount) \in User
  BY <1>1 DEF Payout, User
<1>5. Deposit(doc, amount) \in User
  BY <1>1 DEF Deposit, User
<1>6. \/ type = "LOCK" \/ type = "UNLOCK" \/ type = "PAYOUT"
      \/ type = "REFUND" \/ type = "DEPOSIT"
  BY DEF LedgerType
<1> QED
  BY <1>1, <1>2, <1>3, <1>4, <1>5, <1>6 DEF Apply, User

(* Inserting an entry keeps the totals natural numbers.                    *)
LEMMA AddEntryType ==
    ASSUME NEW l \in Ledger, NEW amount \in Nat, NEW type \in LedgerType
    PROVE  AddEntry(l, type, amount) \in Ledger
BY DEF AddEntry, Ledger

(* An increment and its ledger entry, applied together to a reconciled     *)
(* user, leave it reconciled.                                              *)
LEMMA ApplyReconciles ==
    ASSUME NEW doc \in User, NEW l \in Ledger, NEW amount \in Nat,
           NEW type \in LedgerType, Reconciled(doc, l)
    PROVE  Reconciled(Apply(type, doc, amount), AddEntry(l, type, amount))
<1>1. \A t \in LedgerType : l[t] \in Nat
  BY DEF Ledger
<1>2. doc.balance \in Int /\ doc.lockedBalance \in Int
  BY DEF User
<1> QED
  BY <1>1, <1>2
     DEF Reconciled, Apply, AddEntry, LockFunds, UnlockFunds, Payout, Refund,
         Deposit, LedgerType, Ledger, User

-----------------------------------------------------------------------------
LEMMA InitIInv == Init => IInv
<1> SUFFICES ASSUME Init PROVE IInv
  OBVIOUS
<1>1. NewUser(InitialDeposit) \in User
  BY DepositAssumption DEF NewUser, User
<1>2. AddEntry(NoEntries, "DEPOSIT", InitialDeposit) \in Ledger
  BY DepositAssumption DEF AddEntry, NoEntries, Ledger, LedgerType
<1>3. TypeOK
  BY <1>1, <1>2 DEF Init, TypeOK, Call, NoCall, LedgerType
<1>4. SoleWriter /\ SnapshotsCurrent
  BY DEF Init, NoCall, SoleWriter, SnapshotsCurrent, Running
<1>5. LedgerExplainsBalances /\ BalancesNonNegative
  BY DepositAssumption
     DEF Init, LedgerExplainsBalances, BalancesNonNegative, Reconciled,
         NonNegative, NewUser, AddEntry, NoEntries, LedgerType
<1> QED
  BY <1>3, <1>4, <1>5 DEF IInv

LEMMA StepIInv == IInv /\ [Next]_vars => IInv'
<1> SUFFICES ASSUME IInv, [Next]_vars PROVE IInv'
  OBVIOUS
<1> USE DEF IInv
<1>1. ASSUME NEW c \in Calls, NEW type \in LedgerType, NEW u \in Users,
             NEW amount \in Amounts, Request(c, type, u, amount)
      PROVE  IInv'
  <2>1. amount \in Nat
    BY AmountsAssumption
  <2>2. TypeOK'
    BY <1>1, <2>1 DEF Request, TypeOK, Call, Running, Answered
  <2>3. SoleWriter' /\ SnapshotsCurrent'
    BY <1>1, <2>1 DEF Request, TypeOK, Call, SoleWriter, SnapshotsCurrent, Running, Answered
  <2>4. LedgerExplainsBalances' /\ BalancesNonNegative'
    BY <1>1 DEF Request, LedgerExplainsBalances, BalancesNonNegative
  <2> QED BY <2>2, <2>3, <2>4
<1>2. ASSUME NEW c \in Calls, Read(c) PROVE IInv'
  <2>1. TypeOK'
    BY <1>2 DEF Read, TypeOK, Call, Running, Answered
  <2>2. SoleWriter' /\ SnapshotsCurrent'
    BY <1>2 DEF Read, TypeOK, Call, SoleWriter, SnapshotsCurrent, Running, Answered
  <2>3. LedgerExplainsBalances' /\ BalancesNonNegative'
    BY <1>2 DEF Read, LedgerExplainsBalances, BalancesNonNegative
  <2> QED BY <2>1, <2>2, <2>3
<1>3. ASSUME NEW c \in Calls, Update(c) PROVE IInv'
  <2> DEFINE doc == Apply(call[c].type, call[c].doc, call[c].amount)
  <2>1. doc \in User
    BY <1>3, ApplyType DEF TypeOK, Call
  <2>2. call' = [call EXCEPT ![c] =
                   [@ EXCEPT !.doc = doc,
                             !.pc = IF NonNegative(doc) THEN "updated" ELSE "failed"]]
    BY <1>3 DEF Update
  <2>3. users' = users /\ ledger' = ledger /\ call[c].pc = "read" /\ ~ Conflict(c)
    BY <1>3 DEF Update
  <2>4. call[c].doc = users[call[c].user] /\ call[c].amount > 0
    BY <2>3 DEF Conflict, SnapshotsCurrent, Running, TypeOK, Call
  <2> HIDE DEF doc
  <2>5. TypeOK'
    BY <2>1, <2>2, <2>3 DEF TypeOK, Call, Running, Answered
  <2>6. SoleWriter'
    BY <2>2, <2>3 DEF Conflict, SoleWriter, TypeOK, Call
  <2>7. SnapshotsCurrent'
    <3> SUFFICES ASSUME NEW o \in Calls
                 PROVE  /\ call'[o].pc \in Running => call'[o].amount > 0
                        /\ call'[o].pc = "read" /\ ~ call'[o].stale
                             => call'[o].doc = users[call'[o].user]
                        /\ call'[o].pc = "updated"
                             => /\ call'[o].doc = Apply(call'[o].type,
                                                        users[call'[o].user], call'[o].amount)
                                /\ NonNegative(call'[o].doc)
      BY <2>3, Zenon DEF SnapshotsCurrent
    <3>1. CASE o # c
      BY <3>1, <2>2 DEF SnapshotsCurrent, TypeOK, Call
    <3>2. CASE o = c
      <4>1. /\ call'[c].doc = doc /\ call'[c].type = call[c].type
            /\ call'[c].user = call[c].user /\ call'[c].amount = call[c].amount
            /\ call'[c].pc = IF NonNegative(doc) THEN "updated" ELSE "failed"
        BY <2>2 DEF TypeOK, Call
      <4>2. doc = Apply(call[c].type, users[call[c].user], call[c].amount)
        BY <2>4 DEF doc
      <4> QED BY <3>2, <4>1, <4>2, <2>4
    <3> QED BY <3>1, <3>2
  <2>8. LedgerExplainsBalances' /\ BalancesNonNegative'
    BY <2>3 DEF LedgerExplainsBalances, BalancesNonNegative
  <2> QED BY <2>5, <2>6, <2>7, <2>8
<1>4. ASSUME NEW c \in Calls, RetryAfterConflict(c) PROVE IInv'
  <2>1. TypeOK'
    BY <1>4 DEF RetryAfterConflict, TypeOK, Call, Running, Answered
  <2>2. SoleWriter' /\ SnapshotsCurrent'
    BY <1>4 DEF RetryAfterConflict, TypeOK, Call, SoleWriter, SnapshotsCurrent, Running
  <2>3. LedgerExplainsBalances' /\ BalancesNonNegative'
    BY <1>4 DEF RetryAfterConflict, LedgerExplainsBalances, BalancesNonNegative
  <2> QED BY <2>1, <2>2, <2>3
<1>5. ASSUME NEW c \in Calls, Commit(c) PROVE IInv'
  <2> DEFINE u == call[c].user
             doc == call[c].doc
  <2>1. u \in Users /\ doc \in User /\ call[c].amount \in Nat /\ call[c].type \in LedgerType
    BY DEF TypeOK, Call
  <2>2. call[c].pc = "updated" /\ users' = [users EXCEPT ![u] = doc]
    BY <1>5 DEF Commit
  <2>3. ledger' = [ledger EXCEPT ![u] = AddEntry(@, call[c].type, call[c].amount)]
    BY <1>5 DEF Commit
  <2>4. /\ call' \in [Calls -> Call]
        /\ call'[c].pc = "done"
        /\ \A o \in Calls \ {c} :
              /\ call'[o].pc = call[o].pc /\ call'[o].type = call[o].type
              /\ call'[o].user = call[o].user /\ call'[o].amount = call[o].amount
              /\ call'[o].doc = call[o].doc
              /\ call'[o].stale = (call[o].stale \/ call[o].user = u)
    BY <1>5 DEF Commit, TypeOK, Call, Running, Answered
  <2>5. doc = Apply(call[c].type, users[u], call[c].amount) /\ NonNegative(doc)
    BY <2>2 DEF SnapshotsCurrent
  <2>6. Reconciled(doc, AddEntry(ledger[u], call[c].type, call[c].amount))
    BY <2>1, <2>5, ApplyReconciles DEF TypeOK, LedgerExplainsBalances
  <2>7. AddEntry(ledger[u], call[c].type, call[c].amount) \in Ledger
    BY <2>1, AddEntryType DEF TypeOK
  <2> HIDE DEF u, doc
  <2>8. TypeOK'
    BY <2>1, <2>2, <2>3, <2>4, <2>7 DEF TypeOK
  <2>9. SoleWriter'
    BY <2>4 DEF SoleWriter
  <2>10. SnapshotsCurrent'
    <3> SUFFICES ASSUME NEW o \in Calls \ {c}
                 PROVE  /\ call[o].pc \in Running => call[o].amount > 0
                        /\ call[o].pc = "read" /\ ~ call'[o].stale
                             => call[o].doc = users'[call[o].user]
                        /\ call[o].pc = "updated"
                             => /\ call[o].doc = Apply(call[o].type,
                                                       users'[call[o].user], call[o].amount)
                                /\ NonNegative(call[o].doc)
      <4>1. call'[c].pc \notin Running /\ call'[c].pc # "read" /\ call'[c].pc # "updated"
        BY <2>4 DEF Running
      <4> QED BY <2>4, <4>1 DEF SnapshotsCurrent
    <3>1. call[o].user # u => users'[call[o].user] = users[call[o].user]
      BY <2>2 DEF TypeOK, Call
    <3>2. call[o].user = u => call[o].pc # "updated"
      BY <2>2 DEF SoleWriter, u
    <3> QED BY <2>4, <3>1, <3>2 DEF SnapshotsCurrent
  <2>11. LedgerExplainsBalances' /\ BalancesNonNegative'
    BY <2>1, <2>2, <2>3, <2>5, <2>6 DEF LedgerExplainsBalances, BalancesNonNegative, TypeOK
  <2> QED BY <2>8, <2>9, <2>10, <2>11
<1>6. ASSUME NEW c \in Calls, Fail(c) PROVE IInv'
  <2>1. TypeOK'
    BY <1>6 DEF Fail, TypeOK, Call, Running, Answered
  <2>2. SoleWriter' /\ SnapshotsCurrent'
    BY <1>6 DEF Fail, TypeOK, Call, SoleWriter, SnapshotsCurrent, Running
  <2>3. LedgerExplainsBalances' /\ BalancesNonNegative'
    BY <1>6 DEF Fail, LedgerExplainsBalances, BalancesNonNegative
  <2> QED BY <2>1, <2>2, <2>3
<1>7. CASE UNCHANGED vars
  BY <1>7 DEF vars, TypeOK, SoleWriter, SnapshotsCurrent, LedgerExplainsBalances,
              BalancesNonNegative
<1> QED
  BY <1>1, <1>2, <1>3, <1>4, <1>5, <1>6, <1>7 DEF Next, Step, Quiescent

-----------------------------------------------------------------------------
(* In every reachable state the service's data has its type, the ledger    *)
(* explains the balances and no balance is negative, whatever the users,   *)
(* the calls, their amounts and their interleaving.                        *)
THEOREM BalancesSafe == Spec => [](TypeOK /\ LedgerExplainsBalances /\ BalancesNonNegative)
<1>1. IInv => TypeOK /\ LedgerExplainsBalances /\ BalancesNonNegative
  BY DEF IInv
<1> QED
  BY <1>1, InitIInv, StepIInv, PTL DEF Spec

(* The calls, their snapshots and the collections keep their shape, however *)
(* many calls conflict, are retried or fail (executeTransaction).          *)
THEOREM CallsTypeCorrect == Spec => []TypeOK
BY BalancesSafe, PTL

(* The entries written with each $inc add up to both balances of every user. *)
THEOREM LedgerExplains == Spec => []LedgerExplainsBalances
BY BalancesSafe, PTL

-----------------------------------------------------------------------------
(* BidUpdateThrottlerService.  What the room is sent and what the          *)
(* throttler compares with stay in step, for any number of overlapping     *)
(* flushes and forced flushes, any bids and any number of positions.       *)

(* A top is at most Positions long.                                        *)
LEMMA TopOfType ==
    ASSUME NEW amounts \in [Bids -> 0..MaxAmount]
    PROVE  TopOf(amounts) \in Top
<1>1. ASSUME NEW a \in Amount
      PROVE  Min({Positions, Cardinality({b \in Bids : amounts[b] >= a})}) \in 0..Positions
  <2> DEFINE n == Cardinality({b \in Bids : amounts[b] >= a})
  <2>1. n \in Nat
    BY FS_Subset, FS_CardinalityType, ThrottlerAssumption
  <2>2. \E x \in {Positions, n} : \A y \in {Positions, n} : x <= y
    <3>1. CASE n <= Positions
      BY <2>1, <3>1, ThrottlerAssumption
    <3>2. CASE ~(n <= Positions)
      BY <2>1, <3>2, ThrottlerAssumption
    <3> QED
      BY <3>1, <3>2
  <2>3. Min({Positions, n}) \in {Positions, n} /\ Min({Positions, n}) <= Positions
    BY <2>2 DEF Min
  <2> QED
    BY <2>1, <2>3, ThrottlerAssumption
<1> QED
  BY <1>1 DEF TopOf, Top

(* The empty values, and the states a job is set to.                       *)
LEMMA Empty ==
    /\ None \in Top
    /\ \A at \in {"idle", "checking", "checked", "reading", "read", "others"} :
          At(at) \in Job
    /\ Idle \in Job
<1>1. None \in Top
  BY ThrottlerAssumption DEF None, Top, Amount
<1>2. ASSUME NEW at \in {"idle", "checking", "checked", "reading", "read", "others"}
      PROVE  At(at) \in Job
  BY <1>1, ThrottlerAssumption DEF At, Job
<1> QED
  BY <1>1, <1>2 DEF Idle

LEMMA InitSafe == ThrottlerInit => ThrottlerTypeOK /\ BaselineIsShown
<1> SUFFICES ASSUME ThrottlerInit
             PROVE  ThrottlerTypeOK /\ BaselineIsShown
  OBVIOUS
<1>1. faults \in 0..MaxFaults
  BY ThrottlerAssumption DEF ThrottlerInit
<1>2. job \in [Jobs -> Job]
  BY Empty DEF ThrottlerInit
<1>3. bids \in [Bids -> 0..MaxAmount]
  BY ThrottlerAssumption DEF ThrottlerInit
<1> QED
  BY <1>1, <1>2, <1>3, Empty DEF ThrottlerInit, ThrottlerTypeOK, BaselineIsShown

(* Clearing a set of updates, deleting the map's entry.                    *)
LEMMA ClearType ==
    ASSUME ThrottlerTypeOK, NEW f \in Jobs, ClearUpdates(f)
    PROVE  pending' \subseteq Amount /\ (pending' # {} => present)
BY Empty DEF ThrottlerTypeOK, ClearUpdates

LEMMA DeleteType ==
    ASSUME NEW jobs \in [Jobs -> Job], DeleteEntry(jobs)
    PROVE  /\ present' = FALSE /\ pending' = {}
           /\ job' \in [Jobs -> Job]
<1>1. \A j \in Jobs : [jobs[j] EXCEPT !.attached = FALSE] \in Job
  BY DEF Job
<1> QED
  BY <1>1, Empty DEF DeleteEntry

LEMMA TypeStep == ThrottlerTypeOK /\ [ThrottlerNext]_throttler => ThrottlerTypeOK'
<1> SUFFICES ASSUME ThrottlerTypeOK, [ThrottlerNext]_throttler
             PROVE  ThrottlerTypeOK'
  OBVIOUS
<1> USE ThrottlerAssumption DEF ThrottlerTypeOK
<1>1. ASSUME NEW b \in Bids, PlaceBid(b)
      PROVE  ThrottlerTypeOK'
  BY <1>1 DEF PlaceBid, Amount
<1>2. ASSUME NEW b \in Bids, SettleBid(b)
      PROVE  ThrottlerTypeOK'
  BY <1>2 DEF SettleBid
<1>3. ASSUME NEW n \in notices, QueueBidUpdate(n)
      PROVE  ThrottlerTypeOK'
  BY <1>3 DEF QueueBidUpdate, Amount
<1>4. ASSUME NEW f \in Flushes, FlushPendingUpdates(f)
      PROVE  ThrottlerTypeOK'
  <2>1. [At("checking") EXCEPT !.attached = TRUE, !.batch = pending] \in Job
    BY Empty DEF Job
  <2> QED
    BY <1>4, <2>1, Empty DEF FlushPendingUpdates, Jobs
<1>5. ASSUME NEW r \in Forces, ForceFlush(r)
      PROVE  ThrottlerTypeOK'
  BY <1>5, Empty DEF ForceFlush, Jobs
<1>6. ASSUME NEW j \in Jobs, GetTopActiveBids(j)
      PROVE  ThrottlerTypeOK'
  <2>1. TopOf(bids) \in Top
    BY TopOfType
  <2>2. job[j] \in Job
    OBVIOUS
  <2>3. job' = [job EXCEPT ![j] =
                 [job[j] EXCEPT !.at = IF job[j].at = "checking" THEN "checked" ELSE "read",
                                !.top = TopOf(bids)]]
    BY <1>6 DEF GetTopActiveBids
  <2>4. job'[j] \in Job
    BY <2>1, <2>2, <2>3 DEF Job
  <2> QED
    BY <1>6, <2>3, <2>4 DEF GetTopActiveBids
<1>7. ASSUME NEW j \in Jobs, Proceed(j)
      PROVE  ThrottlerTypeOK'
  BY <1>7, Empty DEF Proceed, Job
<1>8. ASSUME NEW j \in Jobs, Skip(j)
      PROVE  ThrottlerTypeOK'
  BY <1>8, ClearType, Empty DEF Skip
<1>9. ASSUME NEW j \in Jobs, Emit(j)
      PROVE  ThrottlerTypeOK'
  <2>1. job[j].top \in Top
    BY DEF Job
  <2> QED
    BY <1>9, <2>1, ClearType, Empty DEF Emit, EmitTop
<1>10. ASSUME NEW j \in Jobs, FlushOthers(j)
       PROVE  ThrottlerTypeOK'
  BY <1>10, DeleteType, Empty DEF FlushOthers
<1>11. ASSUME NEW j \in Jobs, ForceEmit(j)
       PROVE  ThrottlerTypeOK'
  <2>1. job[j].top \in Top /\ [job EXCEPT ![j] = Idle] \in [Jobs -> Job]
    BY Empty DEF Job
  <2> QED
    BY <1>11, <2>1, DeleteType DEF ForceEmit, EmitTop
<1>12. ASSUME NEW j \in Jobs, QueryFails(j)
       PROVE  ThrottlerTypeOK'
  BY <1>12, ClearType, Empty DEF QueryFails
<1>13. CASE Restart
  <2>1. job' \in [Jobs -> Job] /\ faults' \in 0..MaxFaults
    BY <1>13, Empty DEF Restart
  <2> QED
    BY <1>13, <2>1, Empty DEF Restart
<1>14. CASE UNCHANGED throttler
  BY <1>14 DEF throttler
<1> QED
  BY <1>1, <1>2, <1>3, <1>4, <1>5, <1>6, <1>7, <1>8, <1>9, <1>10, <1>11, <1>12,
     <1>13, <1>14 DEF ThrottlerNext, Advance

(* Baseline and room change together, except at a restart.                 *)
LEMMA BaselineStep == ThrottlerTypeOK /\ BaselineIsShown /\ [ThrottlerNext]_throttler => BaselineIsShown'
<1> SUFFICES ASSUME ThrottlerTypeOK, BaselineIsShown, [ThrottlerNext]_throttler
             PROVE  BaselineIsShown'
  OBVIOUS
<1>1. CASE \E j \in Jobs : Emit(j) \/ ForceEmit(j)
  BY <1>1 DEF Emit, ForceEmit, EmitTop, BaselineIsShown
<1>2. CASE Restart
  BY <1>2 DEF Restart, BaselineIsShown
<1>3. CASE UNCHANGED <<lastTop, shown>>
  BY <1>3 DEF BaselineIsShown
<1>4. CASE ThrottlerNext /\ ~Restart /\ ~\E j \in Jobs : Emit(j) \/ ForceEmit(j)
  <2>1. UNCHANGED <<lastTop, shown>>
    BY <1>4 DEF ThrottlerNext, PlaceBid, SettleBid, QueueBidUpdate, FlushPendingUpdates,
                ForceFlush, Advance, GetTopActiveBids, Proceed, Skip, FlushOthers,
                QueryFails
  <2> QED
    BY <1>3, <2>1
<1> QED
  BY <1>1, <1>2, <1>3, <1>4 DEF throttler

(***************************************************************************)
(* flushPendingUpdates, forceFlush and checkSignificance: the baseline of  *)
(* the significance test is what the room was sent last.                   *)
(***************************************************************************)
THEOREM ThrottlerSafe == ThrottlerSpec => [](ThrottlerTypeOK /\ BaselineIsShown)
BY InitSafe, TypeStep, BaselineStep, PTL DEF ThrottlerSpec

(* The queue, the sets of updates the jobs hold and the tops they have read *)
(* keep their shape.                                                       *)
THEOREM ThrottlerTypeCorrect == ThrottlerSpec => []ThrottlerTypeOK
BY ThrottlerSafe, PTL
=============================================================================
