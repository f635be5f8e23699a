--------------------- MODULE AuctionTransactionsProofs ---------------------
(***************************************************************************)
(* Proofs about AuctionTransactions.  First the money: type correctness    *)
(* and the safety of the users' money from the inductive invariant IInv,   *)
(* the life of a bid and the refinement of Escrow from MInv.  Then the     *)
(* gifts: settled bids and the ledger agree (SettledSound), the committed  *)
(* transactions take the auction through RoundLifecycle (LifeSound), and   *)
(* the rounds award no more gifts than there are (WinnersSound).  Last,    *)
(* what follows: closed rounds stay as they are, and a user's bids account *)
(* for the user's money.                                                   *)
(***************************************************************************)
EXTENDS AuctionTransactions, SumTheorems, FiniteSetTheorems, TLAPS

-----------------------------------------------------------------------------
(* The operations on accounts and ledgers are typed.                       *)

LEMMA AccountTypes ==
    ASSUME NEW user \in User, NEW amount \in Nat
    PROVE  /\ LockFunds(user, amount) \in User
           /\ Payout(user, amount) \in User
           /\ Refund(user, amount) \in User
  BY DEF User, LockFunds, Payout, Refund

LEMMA LedgerTypes ==
    /\ NoEntries \in Ledger
    /\ \A totals \in Ledger, type \in LedgerType, amount \in Nat :
          AddEntry(totals, type, amount) \in Ledger
    /\ \A totals \in Ledger, entries \in Ledger : EntriesAdded(totals, entries) \in Ledger
  BY DEF NoEntries, Ledger, AddEntry, EntriesAdded

LEMMA NoEntriesAdded ==
    ASSUME NEW totals \in Ledger
    PROVE  EntriesAdded(totals, NoEntries) = totals
  <1>1. \A k \in LedgerType : totals[k] + NoEntries[k] = totals[k]
    BY DEF NoEntries, Ledger
  <1> QED
    BY <1>1 DEF EntriesAdded, Ledger

LEMMA NewUserType == NewUser(InitialDeposit) \in User
  BY ParametersAssumption DEF NewUser, User

-----------------------------------------------------------------------------
(* Collections.                                                            *)

LEMMA PartialTypes ==
    ASSUME NEW D, NEW R
    PROVE  /\ IsPartial(NoWrites, D, R)
           /\ \A k \in D, v \in R : IsPartial(Only(k, v), D, R)
           /\ \A f, g : IsPartial(f, D, R) /\ IsPartial(g, D, R)
                           => IsPartial(Overlay(f, g), D, R)
  BY DEF IsPartial, NoWrites, Only, Overlay

LEMMA TxnType ==
    ASSUME NEW a, NEW r, NEW b, NEW u, NEW e, NEW t,
           a \subseteq Auction, IsPartial(r, RoundIndex, Round),
           IsPartial(b, Requests, Bid), IsPartial(u, Users, User),
           IsPartial(e, Users, Ledger), IsPartial(t, Requests, Bid)
    PROVE  IsTransaction(Txn(a, r, b, u, e, t))
  BY DEF IsTransaction, Txn

LEMMA EndedTxnType == IsTransaction(NoTxn) /\ IsTransaction(DoomedTxn)
  BY DEF IsTransaction, NoTxn, DoomedTxn, IsPartial, NoWrites

-----------------------------------------------------------------------------
LEMMA InitTypeOK == Init => TypeOK
  <1> SUFFICES ASSUME Init PROVE TypeOK
    OBVIOUS
  <1>1. 0 \in RoundIndex
    BY ParametersAssumption DEF RoundIndex
  <1>2. auction \in Auction
    BY <1>1 DEF Init, Auction
  <1>3. IsPartial(rounds, RoundIndex, Round) /\ IsPartial(bids, Requests, Bid)
    BY PartialTypes DEF Init
  <1>4. users \in [Users -> User]
    BY NewUserType DEF Init
  <1>5. ledger \in [Users -> Ledger]
    BY LedgerTypes, ParametersAssumption DEF Init, LedgerType
  <1>6. DOMAIN txn = Sessions /\ \A p \in Sessions : IsTransaction(txn[p])
    BY EndedTxnType DEF Init
  <1>7. request \in [Requests -> BidRequest \cup {NewRequest, AnsweredRequest}]
    BY DEF Init
  <1>8. worker \in [Workers -> WorkerState]
    BY DEF Init, WorkerState
  <1> QED
    BY <1>2, <1>3, <1>4, <1>5, <1>6, <1>7, <1>8 DEF TypeOK

-----------------------------------------------------------------------------
(* Type correctness of each action.                                        *)

LEMMA TxnsType ==
    ASSUME TypeOK, NEW p \in Sessions, NEW t, IsTransaction(t),
           txn' = [txn EXCEPT ![p] = t]
    PROVE  DOMAIN txn' = Sessions /\ \A o \in Sessions : IsTransaction(txn'[o])
  BY DEF TypeOK

LEMMA BeginBidType ==
    ASSUME TypeOK, NEW q \in Requests, request[q] \in BidRequest,
           NEW b \in Requests, NEW bid \in Bid, NEW delta \in Nat,
           BeginBidTxn(q, bid, b, delta)
    PROVE  TypeOK'
  <1> DEFINE u == request[q].user
             t == Txn({}, NoWrites, Only(b, bid), Only(u, LockFunds(users[u], delta)),
                      Only(u, AddEntry(NoEntries, "LOCK", delta)), NoWrites)
  <1>1. u \in Users
    BY DEF BidRequest
  <1>2. users[u] \in User
    BY <1>1 DEF TypeOK
  <1>3. /\ LockFunds(users[u], delta) \in User
        /\ AddEntry(NoEntries, "LOCK", delta) \in Ledger
    BY <1>2, AccountTypes, LedgerTypes DEF LedgerType
  <1>4. IsTransaction(t)
    BY <1>1, <1>3, PartialTypes, TxnType
  <1>5. DOMAIN txn' = Sessions /\ \A o \in Sessions : IsTransaction(txn'[o])
    <2>1. q \in Sessions /\ txn' = [txn EXCEPT ![q] = t]
      BY DEF BeginBidTxn, Sessions
    <2> QED
      BY <2>1, <1>4, TxnsType
  <1>6. request' \in [Requests -> BidRequest \cup {NewRequest, AnsweredRequest}]
    BY DEF BeginBidTxn, TypeOK, BidRequest
  <1> QED
    BY <1>5, <1>6 DEF BeginBidTxn, TypeOK

LEMMA BidActionsType ==
    ASSUME TypeOK, NEW q \in Requests, PlaceBid(q)
    PROVE  TypeOK'
  <1> DEFINE r == request[q]
  <1>0. r.pc = "ready" => r \in BidRequest
    BY DEF TypeOK, NewRequest, AnsweredRequest
  <1>1. CASE \E u \in Users, amount \in Amounts : ReadAuction(q, u, amount)
    <2> PICK u \in Users, amount \in Amounts : ReadAuction(q, u, amount)
      BY <1>1
    <2>1. [pc |-> "ready", user |-> u, amount |-> amount, round |-> auction.currentRound]
             \in BidRequest
      BY AmountsAssumption DEF BidRequest, TypeOK, Auction
    <2> QED
      BY <2>1 DEF ReadAuction, TypeOK
  <1>2. CASE \E b \in DOMAIN bids : RaiseBid(q, b)
    <2> PICK b \in DOMAIN bids : RaiseBid(q, b)
      BY <1>2
    <2>1. r \in BidRequest /\ b \in Requests /\ bids[b] \in Bid
      BY <1>0 DEF RaiseBid, TypeOK, IsPartial
    <2>2. RaisedBid(r, b) \in Bid
      BY <2>1 DEF RaisedBid, Bid, BidRequest
    <2>3. r.amount - bids[b].amount \in Nat
      BY <2>1 DEF RaiseBid, MayRaise, Bid, BidRequest
    <2> QED
      BY <2>1, <2>2, <2>3, BeginBidType DEF RaiseBid
  <1>3. CASE CreateBid(q)
    <2> DEFINE bid == [user |-> r.user, amount |-> r.amount, status |-> "ACTIVE",
                       roundIndex |-> r.round, wonInRoundIndex |-> NotWon]
    <2>1. r \in BidRequest
      BY <1>0, <1>3 DEF CreateBid
    <2>2. bid \in Bid /\ r.amount \in Nat
      BY <2>1 DEF Bid, BidRequest
    <2>3. BeginBidTxn(q, bid, q, r.amount)
      BY <1>3 DEF CreateBid
    <2> QED
      BY <2>1, <2>2, <2>3, BeginBidType
  <1>4. CASE RejectBid(q)
    BY <1>4 DEF RejectBid, TypeOK
  <1> QED
    BY <1>1, <1>2, <1>3, <1>4 DEF PlaceBid

\* What the settlement of the bids W and R needs to be typed.
LEMMA SettlingTxnType ==
    ASSUME TypeOK, NEW a, NEW r, a \subseteq Auction, IsPartial(r, RoundIndex, Round),
           NEW W, NEW R, W \cup R \subseteq ActiveBids
    PROVE  IsTransaction(SettlingTxn(a, r, W, R))
  <1> DEFINE S == W \cup R
  <1>1. \A b \in S : b \in Requests /\ bids[b] \in Bid
    BY DEF ActiveBids, TypeOK, IsPartial
  <1>2. \A b \in S : Won(b) \in Bid /\ Refunded(b) \in Bid
    BY <1>1 DEF Won, Refunded, Bid, TypeOK, Auction
  <1>3. IsPartial([b \in S |-> bids[b]], Requests, Bid)
    BY <1>1 DEF IsPartial
  <1>4. IsPartial([b \in S |-> IF b \in W THEN Won(b) ELSE Refunded(b)], Requests, Bid)
    BY <1>1, <1>2 DEF IsPartial
  <1>5. Owners(S) \subseteq Users
    BY <1>1 DEF Owners, Bid
  <1>6. IsPartial([u \in Owners(S) |-> users[u]], Users, User)
    BY <1>5 DEF IsPartial, TypeOK
  <1>7. IsPartial([u \in Owners(S) |-> NoEntries], Users, Ledger)
    BY <1>5, LedgerTypes DEF IsPartial
  <1> QED
    BY <1>3, <1>4, <1>6, <1>7, TxnType DEF SettlingTxn

LEMMA ClosedWithType ==
    ASSUME TypeOK, NEW W, W \subseteq ActiveBids
    PROVE  IsPartial(ClosedWith(W), RoundIndex, Round)
  <1>1. IsFiniteSet(W)
    BY RequestsAssumption, FS_Subset DEF ActiveBids, TypeOK, IsPartial
  <1>2. Cardinality(W) \in Nat
    BY <1>1, FS_CardinalityType
  <1> QED
    BY <1>2, PartialTypes DEF ClosedWith, Round, TypeOK, Auction

\* The winners are active bids.
LEMMA WinnersAreActive ==
    ASSUME NEW limit, NEW W \in TopBids(limit)
    PROVE  W \subseteq ActiveBids
  BY DEF TopBids

LEMMA BeginWorkerType ==
    ASSUME TypeOK, NEW w \in Workers, NEW pc \in WorkerState, NEW t, IsTransaction(t),
           BeginWorkerTxn(w, pc, t)
    PROVE  TypeOK'
  <1>1. DOMAIN txn' = Sessions /\ \A o \in Sessions : IsTransaction(txn'[o])
    BY TxnsType DEF BeginWorkerTxn, Sessions
  <1> QED
    BY <1>1 DEF BeginWorkerTxn, TypeOK

LEMMA WorkActionsType ==
    ASSUME TypeOK, NEW w \in Workers, Work(w)
    PROVE  TypeOK'
  <1>1. CASE BeginStart(w)
    <2>1. 0 \in RoundIndex /\ OpenRound \in Round
      BY ParametersAssumption DEF RoundIndex, OpenRound, Round
    <2>2. {[status |-> "RUNNING", currentRound |-> 0]} \subseteq Auction
      BY <2>1 DEF Auction
    <2>3. IsTransaction(Txn({[status |-> "RUNNING", currentRound |-> 0]}, Only(0, OpenRound),
                            NoWrites, NoWrites, NoWrites, NoWrites))
      BY <2>1, <2>2, PartialTypes, TxnType
    <2> QED
      BY <1>1, <2>3, BeginWorkerType DEF BeginStart, WorkerState
  <1>2. CASE BeginClose(w)
    <2> PICK W \in SUBSET ActiveBids :
               BeginWorkerTxn(w, "closing", SettlingTxn({}, ClosedWith(W), W, {}))
      BY <1>2, WinnersAreActive DEF BeginClose
    <2>1. IsTransaction(SettlingTxn({}, ClosedWith(W), W, {}))
      BY SettlingTxnType, ClosedWithType
    <2> QED
      BY <2>1, BeginWorkerType DEF WorkerState
  <1>3. CASE BeginAdvance(w)
    <2> DEFINE next == auction.currentRound + 1
               carried == [b \in ActiveBids |-> [bids[b] EXCEPT !.roundIndex = next]]
    <2>1. next \in RoundIndex /\ OpenRound \in Round
      BY <1>3, ParametersAssumption DEF BeginAdvance, TypeOK, Auction, RoundIndex, OpenRound, Round
    <2>2. {[auction EXCEPT !.currentRound = next]} \subseteq Auction
      BY <2>1 DEF Auction, TypeOK
    <2>3. IsPartial(carried, Requests, Bid)
      BY <2>1 DEF IsPartial, ActiveBids, Bid, TypeOK
    <2>4. IsTransaction(Txn({[auction EXCEPT !.currentRound = next]}, Only(next, OpenRound),
                            carried, NoWrites, NoWrites, NoWrites))
      BY <2>1, <2>2, <2>3, PartialTypes, TxnType
    <2> QED
      BY <1>3, <2>4, BeginWorkerType DEF BeginAdvance, WorkerState
  <1>4. CASE BeginFinalize(w)
    <2> DEFINE settles == CurrentRoundOpen /\ IsLastRound
               Closed(W) == IF settles THEN ClosedWith(W) ELSE NoWrites
    <2> PICK W \in SUBSET ActiveBids :
               BeginWorkerTxn(w, FinalizingState(w),
                 SettlingTxn({[auction EXCEPT !.status = "COMPLETED"]}, Closed(W),
                             W, ActiveBids \ W))
      BY <1>4, WinnersAreActive DEF BeginFinalize
    <2>1. {[auction EXCEPT !.status = "COMPLETED"]} \subseteq Auction
      BY DEF Auction, TypeOK
    <2>2. IsPartial(Closed(W), RoundIndex, Round)
      BY ClosedWithType, PartialTypes
    <2>3. IsTransaction(SettlingTxn({[auction EXCEPT !.status = "COMPLETED"]}, Closed(W),
                                    W, ActiveBids \ W))
      BY <2>1, <2>2, SettlingTxnType
    <2> QED
      BY <2>3, BeginWorkerType DEF FinalizingState, WorkerState
  <1>5. CASE LeaveRound(w)
    BY <1>5 DEF LeaveRound, TypeOK, WorkerState
  <1> QED
    BY <1>1, <1>2, <1>3, <1>4, <1>5 DEF Work

LEMMA SettleType ==
    ASSUME TypeOK, NEW p \in Sessions, NEW b \in DOMAIN txn[p].todo, Settle(p, b)
    PROVE  TypeOK'
  <1> DEFINE t == txn[p]
             doc == t.todo[b]
             u == doc.user
             won == doc.status = "WON"
             newUser == IF won THEN Payout(t.users[u], doc.amount)
                               ELSE Refund(t.users[u], doc.amount)
             newEntries == AddEntry(t.entries[u], IF won THEN "PAYOUT" ELSE "REFUND", doc.amount)
             newBids == [t.bids EXCEPT ![b] = doc]
             newUsers == [t.users EXCEPT ![u] = newUser]
             newTotals == [t.entries EXCEPT ![u] = newEntries]
             newTodo == [c \in DOMAIN t.todo \ {b} |-> t.todo[c]]
  <1>1. IsTransaction(t)
    BY DEF TypeOK
  <1>2. doc \in Bid /\ doc.amount \in Nat /\ u \in Users
    BY <1>1 DEF IsTransaction, IsPartial, Bid
  <1>3. IsPartial(newBids, Requests, Bid) /\ IsPartial(newTodo, Requests, Bid)
    BY <1>1, <1>2 DEF IsTransaction, IsPartial
  <1>4. IsPartial(newUsers, Users, User)
    <2>1. u \in DOMAIN t.users => newUser \in User
      BY <1>1, <1>2, AccountTypes DEF IsTransaction, IsPartial
    <2> HIDE DEF newUser
    <2> QED
      BY <1>1, <2>1 DEF IsTransaction, IsPartial
  <1>5. IsPartial(newTotals, Users, Ledger)
    <2>1. u \in DOMAIN t.entries => newEntries \in Ledger
      BY <1>1, <1>2, LedgerTypes DEF IsTransaction, IsPartial, LedgerType
    <2> HIDE DEF newEntries
    <2> QED
      BY <1>1, <2>1 DEF IsTransaction, IsPartial
  <1>6. t.auction \subseteq Auction /\ IsPartial(t.rounds, RoundIndex, Round)
    BY <1>1 DEF IsTransaction
  <1>7. txn' = [txn EXCEPT ![p] = Txn(t.auction, t.rounds, newBids, newUsers, newTotals, newTodo)]
    BY DEF Settle
  <1> HIDE DEF newBids, newUsers, newTotals, newTodo
  <1>8. IsTransaction(Txn(t.auction, t.rounds, newBids, newUsers, newTotals, newTodo))
    BY <1>3, <1>4, <1>5, <1>6, TxnType
  <1>9. DOMAIN txn' = Sessions /\ \A o \in Sessions : IsTransaction(txn'[o])
    BY <1>7, <1>8, TxnsType
  <1> QED
    BY <1>9 DEF Settle, TypeOK

LEMMA CommitType ==
    ASSUME TypeOK, NEW p \in Sessions, Commit(p)
    PROVE  TypeOK'
  <1> DEFINE t == txn[p]
  <1>1. IsTransaction(t)
    BY DEF TypeOK
  <1>2. auction' \in Auction
    BY <1>1 DEF Commit, TypeOK, IsTransaction
  <1>3. IsPartial(rounds', RoundIndex, Round) /\ IsPartial(bids', Requests, Bid)
    BY <1>1, PartialTypes DEF Commit, TypeOK, IsTransaction
  <1>4. users' \in [Users -> User]
    BY <1>1 DEF Commit, TypeOK, IsTransaction, IsPartial, Overlay
  <1>5. ledger' \in [Users -> Ledger]
    BY <1>1, LedgerTypes DEF Commit, TypeOK, IsTransaction, IsPartial
  <1>6. DOMAIN txn' = Sessions /\ \A o \in Sessions : IsTransaction(txn'[o])
    BY EndedTxnType DEF Commit, TypeOK
  <1>7. request' \in [Requests -> BidRequest \cup {NewRequest, AnsweredRequest}]
    BY DEF Commit, AfterCommit, TypeOK
  <1>8. worker' \in [Workers -> WorkerState]
    BY DEF Commit, AfterCommit, TypeOK, WorkerState
  <1> QED
    BY <1>2, <1>3, <1>4, <1>5, <1>6, <1>7, <1>8 DEF TypeOK

LEMMA AbortType ==
    ASSUME TypeOK, NEW p \in Sessions, NEW retry \in BOOLEAN, Abort(p, retry),
           RequestsSound
    PROVE  TypeOK'
  <1>1. DOMAIN txn' = Sessions /\ \A o \in Sessions : IsTransaction(txn'[o])
    BY EndedTxnType, TxnsType DEF Abort
  <1>2. request' \in [Requests -> BidRequest \cup {NewRequest, AnsweredRequest}]
    BY DEF Abort, TypeOK, BidRequest, RequestsSound
  <1>3. worker' \in [Workers -> WorkerState]
    BY DEF Abort, TypeOK, WorkerState
  <1> QED
    BY <1>1, <1>2, <1>3 DEF Abort, db, TypeOK

\* RequestsSound is needed for Abort alone: the request of an open
\* transaction is one that has been read.
LEMMA StepTypeOK == TypeOK /\ RequestsSound /\ [Next]_vars => TypeOK'
  <1> SUFFICES ASSUME TypeOK, RequestsSound, [Next]_vars PROVE TypeOK'
    OBVIOUS
  <1>1. CASE \E q \in Requests : PlaceBid(q)
    BY <1>1, BidActionsType
  <1>2. CASE \E w \in Workers : Work(w)
    BY <1>2, WorkActionsType
  <1>3. CASE \E p \in Sessions : \E b \in DOMAIN txn[p].todo : Settle(p, b)
    BY <1>3, SettleType
  <1>4. CASE \E p \in Sessions : Commit(p)
    BY <1>4, CommitType
  <1>5. CASE \E p \in Sessions : \E retry \in BOOLEAN : Abort(p, retry)
    BY <1>5, AbortType
  <1>6. CASE UNCHANGED vars
    BY <1>6 DEF vars, TypeOK
  <1> QED
    BY <1>1, <1>2, <1>3, <1>4, <1>5, <1>6 DEF Next

-----------------------------------------------------------------------------
(* The users' documents agree with the bids.                               *)

\* UserSound looks at nothing but the amounts of the user's active bids.
LEMMA SoundCong ==
    ASSUME NEW B, NEW C, NEW user, NEW totals, NEW u,
           \A b : (b \in DOMAIN B /\ B[b].status = "ACTIVE" /\ B[b].user = u)
                    <=> (b \in DOMAIN C /\ C[b].status = "ACTIVE" /\ C[b].user = u),
           \A b \in DOMAIN B : B[b].status = "ACTIVE" /\ B[b].user = u
                                  => C[b].amount = B[b].amount,
           UserSound(B, user, totals, u)
    PROVE  UserSound(C, user, totals, u)
  BY DEF UserSound

LEMMA InitIInv == Init => IInv
  <1> SUFFICES ASSUME Init PROVE IInv
    OBVIOUS
  <1>1. CommittedSound
    BY ParametersAssumption DEF Init, CommittedSound, UserSound, NoWrites, NewUser, NoEntries,
       AddEntry, Reconciled, NonNegative, LedgerType
  <1>2. TransactionsSound
    BY DEF Init, TransactionsSound, NoTxn
  <1>3. RequestsSound
    BY DEF Init, RequestsSound, NoWrites, NoTxn, Sessions
  <1> QED
    BY <1>1, <1>2, <1>3, InitTypeOK DEF IInv

\* A step that leaves the database alone and changes only p's transaction.
LEMMA OnlyTxnChanges ==
    ASSUME IInv, NEW p \in Sessions, NEW t, txn' = [txn EXCEPT ![p] = t],
           bids' = bids, users' = users, ledger' = ledger,
           t.open /\ ~ t.doomed => TxnSound(t, p)
    PROVE  CommittedSound' /\ TransactionsSound'
  <1>1. CommittedSound'
    BY DEF IInv, CommittedSound
  <1>2. ASSUME NEW o \in Sessions, txn'[o].open, ~ txn'[o].doomed
        PROVE  TxnSound(txn[o], o)' 
    <2>1. CASE o = p
      <3>1. txn'[o] = t
        BY <2>1 DEF IInv, TypeOK
      <3>2. TxnSound(t, p)
        BY <1>2, <3>1
      <3> QED
        BY <2>1, <3>1, <3>2 DEF TxnSound, WritesBidsOfItsUsers
    <2>2. CASE o # p
      <3>1. txn'[o] = txn[o]
        BY <2>2 DEF IInv, TypeOK
      <3>2. TxnSound(txn[o], o)
        BY <1>2, <3>1 DEF IInv, TransactionsSound
      <3> QED
        BY <3>1, <3>2 DEF TxnSound, WritesBidsOfItsUsers
    <2> QED
      BY <2>1, <2>2
  <1> QED
    BY <1>1, <1>2 DEF TransactionsSound

LEMMA BidTxnSound ==
    ASSUME IInv, NEW q \in Requests, NEW u \in Users, NEW b \in Requests, NEW bid \in Bid,
           NEW delta \in Nat,
           bid.user = u, bid.status = "ACTIVE",
           bid.amount = users[u].lockedBalance + delta,
           CanLock(users[u], delta),
           b \in DOMAIN bids => bids[b].user = u,
           b \notin DOMAIN bids => b = q,
           \A c \in ActiveBidsOf(u) : c = b
    PROVE  TxnSound(Txn({}, NoWrites, Only(b, bid), Only(u, LockFunds(users[u], delta)),
                        Only(u, AddEntry(NoEntries, "LOCK", delta)), NoWrites), q)
  <1> DEFINE B == Overlay(Only(b, bid), bids)
             user == LockFunds(users[u], delta)
             entries == AddEntry(NoEntries, "LOCK", delta)
             totals == EntriesAdded(ledger[u], entries)
             own == {c \in DOMAIN B : B[c].status = "ACTIVE" /\ B[c].user = u}
  <1>0. users[u] \in User /\ ledger[u] \in Ledger /\ UserSound(bids, users[u], ledger[u], u)
    BY DEF IInv, TypeOK, CommittedSound
  <1>1. own = {b} /\ B[b] = bid
    BY DEF Overlay, Only, ActiveBidsOf, ActiveBids
  <1>2. user.lockedBalance = bid.amount
    BY <1>0 DEF LockFunds, User
  <1>3. Reconciled(user, totals)
    <2>1. /\ totals["LOCK"] = ledger[u]["LOCK"] + delta
          /\ \A k \in LedgerType \ {"LOCK"} : totals[k] = ledger[u][k]
      BY <1>0 DEF EntriesAdded, AddEntry, NoEntries, Ledger, LedgerType
    <2>2. Reconciled(users[u], ledger[u])
      BY <1>0 DEF UserSound
    <2>3. \A k \in LedgerType : ledger[u][k] \in Nat
      BY <1>0 DEF Ledger
    <2> HIDE DEF totals
    <2> QED
      BY <1>0, <2>1, <2>2, <2>3 DEF Reconciled, LockFunds, LedgerType, User
  <1>4. NonNegative(user)
    BY <1>0 DEF UserSound, NonNegative, LockFunds, User, CanLock
  <1>5. UserSound(B, user, totals, u)
    <2> HIDE DEF user, totals, B
    <2> QED
      BY <1>1, <1>2, <1>3, <1>4 DEF UserSound
  <1> DEFINE t == Txn({}, NoWrites, Only(b, bid), Only(u, user), Only(u, entries), NoWrites)
  <1>6. DOMAIN t.entries = DOMAIN t.users /\ DOMAIN t.users = {u} /\ DOMAIN t.bids = {b}
    BY DEF Txn, Only
  <1>7. /\ t.bids = Only(b, bid) /\ t.bids[b] = bid /\ t.users[u] = user
        /\ t.entries[u] = entries /\ DOMAIN t.todo = {}
    BY DEF Txn, Only, NoWrites
  <1> HIDE DEF t, user, entries
  <1>8. WritesBidsOfItsUsers(t)
    BY <1>6, <1>7 DEF WritesBidsOfItsUsers
  <1>9. TodoIsActive(t)
    BY <1>7 DEF TodoIsActive
  <1>10. TxnSound(t, q)
    BY <1>5, <1>6, <1>7, <1>8, <1>9 DEF TxnSound
  <1> QED
    BY <1>10 DEF t, user, entries

\* RequestsSound after a step of a bid request that commits nothing.
LEMMA RequestStep ==
    ASSUME IInv, NEW q \in Requests, NEW r \in BidRequest, NEW t,
           r.pc = "open", q \notin DOMAIN bids, bids' = bids,
           txn' = [txn EXCEPT ![q] = t], request' = [request EXCEPT ![q] = r]
    PROVE  RequestsSound'
  BY DEF IInv, TypeOK, RequestsSound, Sessions

LEMMA PlaceBidSound ==
    ASSUME IInv, NEW q \in Requests, PlaceBid(q)
    PROVE  CommittedSound' /\ TransactionsSound' /\ RequestsSound'
  <1> DEFINE r == request[q]
             u == r.user
             Opened == [r EXCEPT !.pc = "open"]
  <1>0. ASSUME r.pc = "ready"
        PROVE  /\ r \in BidRequest /\ u \in Users /\ r.amount \in Nat
               /\ q \notin DOMAIN bids /\ ~ txn[q].open
               /\ Opened \in BidRequest /\ Opened.pc = "open"
               /\ users[u] \in User
               /\ UserSound(bids, users[u], ledger[u], u)
    <2>1. r \in BidRequest
      BY <1>0 DEF IInv, TypeOK, NewRequest, AnsweredRequest
    <2>2. r # AnsweredRequest
      BY <2>1, <1>0 DEF AnsweredRequest
    <2>3. Opened \in BidRequest /\ Opened.pc = "open"
      BY <2>1 DEF BidRequest
    <2>4. u \in Users /\ r.amount \in Nat
      BY <2>1 DEF BidRequest
    <2>5. q \notin DOMAIN bids /\ ~ txn[q].open
      BY <1>0, <2>2 DEF IInv, RequestsSound
    <2> QED
      BY <2>1, <2>3, <2>4, <2>5 DEF IInv, TypeOK, CommittedSound
  <1>1. CASE \E v \in Users, amount \in Amounts : ReadAuction(q, v, amount)
    <2>1. CommittedSound' /\ TransactionsSound'
      BY <1>1 DEF ReadAuction, IInv, CommittedSound, TransactionsSound, TxnSound,
         WritesBidsOfItsUsers
    <2>2. r = NewRequest /\ NewRequest # AnsweredRequest
      BY <1>1 DEF ReadAuction, NewRequest, AnsweredRequest
    <2>3. ~ txn[q].open
      BY <2>2 DEF IInv, RequestsSound, BidRequest, NewRequest
    <2>4. q \notin DOMAIN bids
      BY <2>2 DEF IInv, RequestsSound
    <2> QED
      BY <1>1, <2>1, <2>3, <2>4 DEF ReadAuction, IInv, RequestsSound, TypeOK
  <1>2. CASE \E b \in DOMAIN bids : RaiseBid(q, b)
    <2> PICK b \in DOMAIN bids : RaiseBid(q, b)
      BY <1>2
    <2> DEFINE delta == r.amount - bids[b].amount
    <2>1. b \in ActiveBidsOf(u) /\ MayRaise(r, b) /\ r.pc = "ready"
      BY DEF RaiseBid
    <2>2. b \in Requests /\ bids[b] \in Bid
      BY DEF IInv, TypeOK, IsPartial
    <2>3. users[u].lockedBalance = bids[b].amount /\ \A c \in ActiveBidsOf(u) : c = b
      BY <1>0, <2>1 DEF UserSound, ActiveBidsOf, ActiveBids
    <2>4. delta \in Nat /\ RaisedBid(r, b) \in Bid
      BY <1>0, <2>1, <2>2 DEF MayRaise, Bid, BidRequest, RaisedBid
    <2>5. /\ RaisedBid(r, b).user = u /\ RaisedBid(r, b).status = "ACTIVE"
          /\ RaisedBid(r, b).amount = users[u].lockedBalance + delta
          /\ bids[b].user = u
      BY <1>0, <2>1, <2>2, <2>3 DEF RaisedBid, ActiveBidsOf, ActiveBids, Bid, BidRequest
    <2>6. CanLock(users[u], delta)
      BY <2>1 DEF MayRaise
    <2> DEFINE t == Txn({}, NoWrites, Only(b, RaisedBid(r, b)), Only(u, LockFunds(users[u], delta)),
                        Only(u, AddEntry(NoEntries, "LOCK", delta)), NoWrites)
    <2>7. TxnSound(t, q)
      <3> HIDE DEF delta
      <3> QED
        BY <1>0, <2>1, <2>2, <2>3, <2>4, <2>5, <2>6, BidTxnSound
    <2>8. BeginBidTxn(q, RaisedBid(r, b), b, delta)
      BY DEF RaiseBid
    <2>9. /\ txn' = [txn EXCEPT ![q] = t] /\ request' = [request EXCEPT ![q] = Opened]
          /\ bids' = bids /\ users' = users /\ ledger' = ledger /\ q \in Sessions
      BY <2>8 DEF BeginBidTxn, Sessions
    <2> HIDE DEF t, Opened
    <2> QED
      BY <1>0, <2>1, <2>7, <2>9, OnlyTxnChanges, RequestStep
  <1>3. CASE CreateBid(q)
    <2> DEFINE bid == [user |-> u, amount |-> r.amount, status |-> "ACTIVE",
                       roundIndex |-> r.round, wonInRoundIndex |-> NotWon]
               t == Txn({}, NoWrites, Only(q, bid), Only(u, LockFunds(users[u], r.amount)),
                        Only(u, AddEntry(NoEntries, "LOCK", r.amount)), NoWrites)
    <2>1. ActiveBidsOf(u) = {} /\ CanLock(users[u], r.amount) /\ r.pc = "ready"
      BY <1>3 DEF CreateBid
    <2>2. bid \in Bid
      BY <1>0, <2>1 DEF Bid, BidRequest
    <2>3. users[u].lockedBalance = 0
      BY <1>0, <2>1 DEF UserSound, ActiveBidsOf, ActiveBids
    <2>4. bid.user = u /\ bid.status = "ACTIVE" /\ bid.amount = users[u].lockedBalance + r.amount
      BY <1>0, <2>1, <2>3
    <2>5. BeginBidTxn(q, bid, q, r.amount)
      BY <1>3 DEF CreateBid
    <2>6. /\ txn' = [txn EXCEPT ![q] = t] /\ request' = [request EXCEPT ![q] = Opened]
          /\ bids' = bids /\ users' = users /\ ledger' = ledger /\ q \in Sessions
      BY <2>5 DEF BeginBidTxn, Sessions
    <2>7. TxnSound(t, q)
      <3> HIDE DEF bid
      <3> QED
        BY <1>0, <2>1, <2>2, <2>4, BidTxnSound
    <2> HIDE DEF t, Opened
    <2> QED
      BY <1>0, <2>1, <2>6, <2>7, OnlyTxnChanges, RequestStep
  <1>4. CASE RejectBid(q)
    <2>1. CommittedSound' /\ TransactionsSound'
      BY <1>4 DEF RejectBid, IInv, CommittedSound, TransactionsSound, TxnSound,
         WritesBidsOfItsUsers
    <2> QED
      BY <1>0, <1>4, <2>1 DEF RejectBid, IInv, RequestsSound, TypeOK
  <1> QED
    BY <1>1, <1>2, <1>3, <1>4 DEF PlaceBid

\* RequestsSound after a step that leaves bids, requests and their
\* transactions alone.
LEMMA WorkerStep ==
    ASSUME IInv, NEW w \in Workers, NEW t, bids' = bids, request' = request,
           txn' = [txn EXCEPT ![w] = t]
    PROVE  RequestsSound'
  BY SessionsAssumption DEF IInv, TypeOK, RequestsSound, Sessions

LEMMA SettlingTxnSound ==
    ASSUME IInv, NEW p \in Sessions, NEW a, NEW r, NEW W, NEW R, W \cup R \subseteq ActiveBids
    PROVE  TxnSound(SettlingTxn(a, r, W, R), p)
  <1> DEFINE S == W \cup R
             t == SettlingTxn(a, r, W, R)
             B == Overlay(t.bids, bids)
  <1>1. /\ t.bids = [b \in S |-> bids[b]]
        /\ t.users = [u \in Owners(S) |-> users[u]]
        /\ t.entries = [u \in Owners(S) |-> NoEntries]
        /\ t.todo = [b \in S |-> IF b \in W THEN Won(b) ELSE Refunded(b)]
    BY DEF SettlingTxn, Txn
  <1>2. \A b \in S : b \in DOMAIN bids /\ bids[b] \in Bid /\ bids[b].status = "ACTIVE"
    BY DEF ActiveBids, IInv, TypeOK, IsPartial
  <1>3. B = bids
    BY <1>1, <1>2 DEF Overlay, IInv, TypeOK, IsPartial
  <1>4. Owners(S) \subseteq Users /\ \A b \in S : bids[b].user \in Owners(S)
    BY <1>2 DEF Owners, Bid
  <1>5. \A u \in Owners(S) : EntriesAdded(ledger[u], NoEntries) = ledger[u]
    BY <1>4, NoEntriesAdded DEF IInv, TypeOK
  <1>6. \A u \in Owners(S) : UserSound(B, t.users[u], EntriesAdded(ledger[u], t.entries[u]), u)
    BY <1>1, <1>3, <1>4, <1>5 DEF IInv, CommittedSound
  <1>7. \A b \in S : /\ Won(b).user = bids[b].user /\ Won(b).amount = bids[b].amount
                     /\ Won(b).status # "ACTIVE"
    BY DEF Won
  <1>8. \A b \in S : /\ Refunded(b).user = bids[b].user /\ Refunded(b).amount = bids[b].amount
                     /\ Refunded(b).status # "ACTIVE"
    BY <1>2 DEF Refunded, Bid
  <1> HIDE DEF t
  <1>9. TodoIsActive(t)
    BY <1>1, <1>2, <1>4, <1>7, <1>8 DEF TodoIsActive
  <1>10. WritesBidsOfItsUsers(t)
    BY <1>1, <1>2 DEF WritesBidsOfItsUsers
  <1>11. DOMAIN t.entries = DOMAIN t.users /\ DOMAIN t.bids \subseteq DOMAIN bids \cup {p}
    BY <1>1, <1>2
  <1>12. TxnSound(t, p)
    BY <1>1, <1>6, <1>9, <1>10, <1>11 DEF TxnSound
  <1> QED
    BY <1>12 DEF t

LEMMA WorkSound ==
    ASSUME IInv, NEW w \in Workers, Work(w)
    PROVE  CommittedSound' /\ TransactionsSound' /\ RequestsSound'
  <1>0. w \in Sessions
    BY DEF Sessions
  <1>1. ASSUME NEW pc, NEW t, TxnSound(t, w), BeginWorkerTxn(w, pc, t)
        PROVE  CommittedSound' /\ TransactionsSound' /\ RequestsSound'
    BY <1>0, <1>1, OnlyTxnChanges, WorkerStep DEF BeginWorkerTxn
  <1>2. CASE BeginStart(w)
    <2>1. TxnSound(Txn({[status |-> "RUNNING", currentRound |-> 0]}, Only(0, OpenRound),
                       NoWrites, NoWrites, NoWrites, NoWrites), w)
      BY DEF TxnSound, WritesBidsOfItsUsers, TodoIsActive, Txn, NoWrites
    <2> QED
      BY <1>1, <1>2, <2>1 DEF BeginStart
  <1>3. CASE BeginClose(w)
    <2> PICK W \in SUBSET ActiveBids :
               BeginWorkerTxn(w, "closing", SettlingTxn({}, ClosedWith(W), W, {}))
      BY <1>3, WinnersAreActive DEF BeginClose
    <2>1. TxnSound(SettlingTxn({}, ClosedWith(W), W, {}), w)
      BY <1>0, SettlingTxnSound
    <2> QED
      BY <1>1, <2>1
  <1>4. CASE BeginAdvance(w)
    <2> DEFINE next == auction.currentRound + 1
               carried == [b \in ActiveBids |-> [bids[b] EXCEPT !.roundIndex = next]]
               t == Txn({[auction EXCEPT !.currentRound = next]}, Only(next, OpenRound),
                        carried, NoWrites, NoWrites, NoWrites)
    <2>1. \A b \in ActiveBids : b \in DOMAIN bids /\ bids[b] \in Bid
      BY DEF ActiveBids, IInv, TypeOK, IsPartial
    <2>2. \A b \in ActiveBids : /\ carried[b].user = bids[b].user
                                /\ carried[b].status = bids[b].status
                                /\ carried[b].amount = bids[b].amount
      BY <2>1 DEF Bid
    <2>3. t.bids = carried /\ DOMAIN carried = ActiveBids
      BY DEF Txn
    <2>4. t.users = NoWrites /\ t.entries = NoWrites /\ t.todo = NoWrites
      BY DEF Txn
    <2>5. BeginWorkerTxn(w, "advancing", t)
      BY <1>4 DEF BeginAdvance
    <2> HIDE DEF t, carried
    <2>6. TxnSound(t, w)
      BY <2>1, <2>2, <2>3, <2>4 DEF TxnSound, WritesBidsOfItsUsers, TodoIsActive, NoWrites
    <2> QED
      BY <1>1, <2>5, <2>6
  <1>5. CASE BeginFinalize(w)
    <2> DEFINE settles == CurrentRoundOpen /\ IsLastRound
               Closed(W) == IF settles THEN ClosedWith(W) ELSE NoWrites
    <2> PICK W \in SUBSET ActiveBids :
               BeginWorkerTxn(w, FinalizingState(w),
                 SettlingTxn({[auction EXCEPT !.status = "COMPLETED"]}, Closed(W),
                             W, ActiveBids \ W))
      BY <1>5, WinnersAreActive DEF BeginFinalize
    <2>1. TxnSound(SettlingTxn({[auction EXCEPT !.status = "COMPLETED"]}, Closed(W),
                               W, ActiveBids \ W), w)
      BY <1>0, SettlingTxnSound
    <2> QED
      BY <1>1, <2>1
  <1>6. CASE LeaveRound(w)
    BY <1>6 DEF LeaveRound, IInv, CommittedSound, TransactionsSound, TxnSound,
       WritesBidsOfItsUsers, RequestsSound
  <1> QED
    BY <1>2, <1>3, <1>4, <1>5, <1>6 DEF Work

LEMMA SettleSound ==
    ASSUME IInv, NEW p \in Sessions, NEW b \in DOMAIN txn[p].todo, Settle(p, b)
    PROVE  CommittedSound' /\ TransactionsSound' /\ RequestsSound'
  <1> DEFINE t == txn[p]
             doc == t.todo[b]
             u == doc.user
             won == doc.status = "WON"
             newUser == IF won THEN Payout(t.users[u], doc.amount)
                               ELSE Refund(t.users[u], doc.amount)
             newEntries == AddEntry(t.entries[u], IF won THEN "PAYOUT" ELSE "REFUND", doc.amount)
             s == Txn(t.auction, t.rounds, [t.bids EXCEPT ![b] = doc],
                      [t.users EXCEPT ![u] = newUser], [t.entries EXCEPT ![u] = newEntries],
                      [c \in DOMAIN t.todo \ {b} |-> t.todo[c]])
             B == Overlay(t.bids, bids)
             C == Overlay(s.bids, bids)
             old == EntriesAdded(ledger[u], t.entries[u])
             new == EntriesAdded(ledger[u], newEntries)
  <1>1. TxnSound(t, p) /\ IsTransaction(t)
    BY DEF Settle, IInv, TransactionsSound, TypeOK
  <1>2. doc \in Bid /\ doc.amount \in Nat /\ u \in Users /\ b \in Requests
    BY <1>1 DEF IsTransaction, IsPartial, Bid
  <1>3. /\ b \in DOMAIN t.bids /\ t.bids[b].status = "ACTIVE" /\ t.bids[b].user = u
        /\ t.bids[b].amount = doc.amount /\ doc.status # "ACTIVE"
        /\ u \in DOMAIN t.users /\ u \in DOMAIN t.entries
    BY <1>1 DEF TxnSound, TodoIsActive
  <1>4. t.users[u] \in User /\ t.entries[u] \in Ledger /\ ledger[u] \in Ledger
    BY <1>1, <1>2, <1>3 DEF IsTransaction, IsPartial, IInv, TypeOK
  <1>5. /\ s.bids = [t.bids EXCEPT ![b] = doc]
        /\ s.users = [t.users EXCEPT ![u] = newUser]
        /\ s.entries = [t.entries EXCEPT ![u] = newEntries]
        /\ s.todo = [c \in DOMAIN t.todo \ {b} |-> t.todo[c]]
    BY DEF Txn
  <1>6. txn' = [txn EXCEPT ![p] = s]
    BY DEF Settle
  <1>7. UserSound(B, t.users[u], old, u)
    BY <1>1, <1>3 DEF TxnSound
  <1>8. t.users[u].lockedBalance = doc.amount
    BY <1>3, <1>7 DEF UserSound, Overlay
  <1>9. newUser.lockedBalance = 0 /\ newUser \in User
    BY <1>2, <1>4, <1>8 DEF Payout, Refund, User
  <1>10. NonNegative(newUser)
    <2>1. t.users[u].balance >= 0
      BY <1>7 DEF UserSound, NonNegative
    <2>2. newUser.balance = IF won THEN t.users[u].balance
                                   ELSE t.users[u].balance + doc.amount
      BY <1>4 DEF Payout, Refund, User
    <2> HIDE DEF newUser, won
    <2> QED
      BY <1>2, <1>4, <1>9, <2>1, <2>2 DEF NonNegative, User
  <1>11. Reconciled(newUser, new)
    <2> DEFINE k == IF won THEN "PAYOUT" ELSE "REFUND"
    <2>1. \A x \in LedgerType : new[x] = IF x = k THEN old[x] + doc.amount ELSE old[x]
      BY <1>2, <1>4 DEF EntriesAdded, AddEntry, Ledger, LedgerType
    <2>2. \A x \in LedgerType : old[x] \in Nat
      BY <1>4 DEF EntriesAdded, Ledger
    <2>3. Reconciled(t.users[u], old)
      BY <1>7 DEF UserSound
    <2>4. /\ newUser.lockedBalance = t.users[u].lockedBalance - doc.amount
          /\ newUser.balance = IF won THEN t.users[u].balance
                                      ELSE t.users[u].balance + doc.amount
      BY <1>4 DEF Payout, Refund, User
    <2> HIDE DEF new, old, newUser, won
    <2> QED
      BY <1>2, <1>4, <2>1, <2>2, <2>3, <2>4 DEF Reconciled, LedgerType, User
  <1> HIDE DEF s, newUser, newEntries, old, new
  <1>12. \A c \in DOMAIN C : ~ (C[c].status = "ACTIVE" /\ C[c].user = u)
    <2>1. /\ DOMAIN C = DOMAIN B /\ C[b] = doc /\ b \in DOMAIN B /\ B[b] = t.bids[b]
          /\ \A c \in DOMAIN B : c # b => C[c] = B[c]
      BY <1>3, <1>5 DEF Overlay
    <2> HIDE DEF B, C, doc
    <2>2. \A c \in DOMAIN B : B[c].status = "ACTIVE" /\ B[c].user = u => c = b
      BY <1>3, <1>7, <2>1 DEF UserSound
    <2> QED
      BY <1>3, <2>1, <2>2
  <1>13. UserSound(C, newUser, new, u)
    BY <1>9, <1>10, <1>11, <1>12 DEF UserSound
  <1>14. ASSUME NEW v \in DOMAIN s.users
         PROVE  UserSound(C, s.users[v], EntriesAdded(ledger[v], s.entries[v]), v)
    <2>1. CASE v = u
      BY <1>3, <1>5, <1>13, <2>1 DEF new
    <2>2. CASE v # u
      <3>1. /\ v \in DOMAIN t.users /\ s.users[v] = t.users[v]
            /\ v \in DOMAIN t.entries /\ s.entries[v] = t.entries[v]
        BY <1>1, <1>5, <1>14, <2>2 DEF TxnSound
      <3>2. UserSound(B, t.users[v], EntriesAdded(ledger[v], t.entries[v]), v)
        BY <1>1, <3>1 DEF TxnSound
      <3>3. /\ DOMAIN C = DOMAIN B
            /\ \A c \in DOMAIN B : c # b => C[c] = B[c]
            /\ B[b].user = u /\ C[b].user = u /\ b \in DOMAIN B
        BY <1>3, <1>5 DEF Overlay
      <3> HIDE DEF B, C
      <3> QED
        BY <2>2, <3>1, <3>2, <3>3, SoundCong
    <2> QED
      BY <2>1, <2>2
  <1>15. WritesBidsOfItsUsers(s)
    BY <1>1, <1>3, <1>5 DEF TxnSound, WritesBidsOfItsUsers
  <1>16. TodoIsActive(s)
    BY <1>1, <1>5 DEF TxnSound, TodoIsActive
  <1>17. DOMAIN s.entries = DOMAIN s.users /\ DOMAIN s.bids \subseteq DOMAIN bids \cup {p}
    BY <1>1, <1>5 DEF TxnSound
  <1>18. TxnSound(s, p)
    BY <1>14, <1>15, <1>16, <1>17 DEF TxnSound
  <1>19. CommittedSound' /\ TransactionsSound'
    BY <1>6, <1>18, OnlyTxnChanges DEF Settle
  <1>20. RequestsSound'
    <2>1. t.open /\ s.open
      BY DEF Settle, s, Txn
    <2> QED
      BY <1>6, <2>1 DEF Settle, IInv, TypeOK, RequestsSound, Sessions
  <1> QED
    BY <1>19, <1>20

LEMMA CommitSound ==
    ASSUME IInv, NEW p \in Sessions, Commit(p)
    PROVE  CommittedSound' /\ TransactionsSound' /\ RequestsSound'
  <1> DEFINE t == txn[p]
  <1>1. TxnSound(t, p) /\ IsTransaction(t) /\ t.open
    BY DEF Commit, IInv, TransactionsSound, TypeOK
  <1>2. /\ bids' = Overlay(t.bids, bids) /\ users' = Overlay(t.users, users)
        /\ DOMAIN t.users \subseteq Users /\ DOMAIN t.entries = DOMAIN t.users
        /\ \A u \in Users : ledger'[u] = IF u \in DOMAIN t.users
                                         THEN EntriesAdded(ledger[u], t.entries[u])
                                         ELSE ledger[u]
    BY <1>1 DEF Commit, IsTransaction, IsPartial, TxnSound
  <1>3. /\ DOMAIN bids' = DOMAIN t.bids \cup DOMAIN bids
        /\ \A b \in DOMAIN bids' : bids'[b] = IF b \in DOMAIN t.bids THEN t.bids[b] ELSE bids[b]
        /\ \A u \in Users : users'[u] = IF u \in DOMAIN t.users THEN t.users[u] ELSE users[u]
    BY <1>2 DEF Overlay, IInv, TypeOK
  <1> HIDE DEF t
  (* The bids of a user whose balances t does not write keep what counts.   *)
  <1>4. ASSUME NEW u \in Users, u \notin DOMAIN t.users
        PROVE  /\ \A b : b \in DOMAIN bids' /\ bids'[b].user = u
                           <=> b \in DOMAIN bids /\ bids[b].user = u
               /\ \A b \in DOMAIN bids : bids[b].user = u =>
                     /\ bids'[b].status = bids[b].status
                     /\ bids'[b].amount = bids[b].amount
    <2>1. \A b \in DOMAIN t.bids : /\ b \in DOMAIN bids => t.bids[b].user = bids[b].user
                                   /\ t.bids[b].user = u => /\ b \in DOMAIN bids
                                                            /\ t.bids[b].status = bids[b].status
                                                            /\ t.bids[b].amount = bids[b].amount
      BY <1>1, <1>4 DEF TxnSound, WritesBidsOfItsUsers
    <2> QED
      BY <1>3, <2>1
  <1>5. CommittedSound'
    <2> SUFFICES ASSUME NEW u \in Users PROVE UserSound(bids', users'[u], ledger'[u], u)
      BY DEF CommittedSound
    <2>1. CASE u \in DOMAIN t.users
      BY <1>1, <1>2, <1>3, <2>1 DEF TxnSound
    <2>2. CASE u \notin DOMAIN t.users
      <3>1. UserSound(bids, users'[u], ledger'[u], u)
        BY <1>2, <1>3, <2>2 DEF IInv, CommittedSound
      <3> QED
        BY <1>4, <2>2, <3>1, SoundCong
    <2> QED
      BY <2>1, <2>2
  (* A transaction that survives the commit writes no document t has written. *)
  <1>6. ASSUME NEW o \in Sessions, txn'[o].open, ~ txn'[o].doomed
        PROVE  /\ o # p /\ txn'[o] = txn[o] /\ TxnSound(txn[o], o) /\ IsTransaction(txn[o])
               /\ DOMAIN t.bids \cap DOMAIN txn[o].bids = {}
               /\ DOMAIN t.users \cap DOMAIN txn[o].users = {}
    <2>1. txn'[o] = CASE o = p -> NoTxn
                      [] o # p /\ txn[o].open /\ Overlap(t, txn[o]) -> DoomedTxn
                      [] OTHER -> txn[o]
      BY DEF Commit, t
    <2>2. o # p /\ ~ (txn[o].open /\ Overlap(t, txn[o])) /\ txn'[o] = txn[o]
      BY <1>6, <2>1 DEF NoTxn, DoomedTxn
    <2>3. DOMAIN t.bids \cap DOMAIN txn[o].bids = {} /\ DOMAIN t.users \cap DOMAIN txn[o].users = {}
      BY <1>6, <2>2 DEF Overlap
    <2> QED
      BY <1>6, <2>2, <2>3 DEF IInv, TypeOK, TransactionsSound
  <1>7. ASSUME NEW o \in Sessions, txn'[o].open, ~ txn'[o].doomed
        PROVE  TxnSound(txn[o], o)'
    <2> DEFINE s == txn[o]
               B == Overlay(s.bids, bids)
               C == Overlay(s.bids, bids')
    <2>1. /\ txn'[o] = s /\ TxnSound(s, o) /\ IsTransaction(s) /\ o # p
          /\ DOMAIN t.bids \cap DOMAIN s.bids = {} /\ DOMAIN t.users \cap DOMAIN s.users = {}
      BY <1>6, <1>7
    <2> HIDE DEF s
    <2>2. DOMAIN s.users \subseteq Users
      BY <2>1 DEF IsTransaction, IsPartial
    <2>3. ASSUME NEW u \in DOMAIN s.users
          PROVE  UserSound(C, s.users[u], EntriesAdded(ledger'[u], s.entries[u]), u)
      <3>1. u \in Users /\ u \notin DOMAIN t.users
        BY <2>1, <2>2, <2>3
      <3>2. ledger'[u] = ledger[u]
        BY <1>2, <3>1
      <3>3. UserSound(B, s.users[u], EntriesAdded(ledger'[u], s.entries[u]), u)
        BY <2>1, <2>3, <3>2 DEF TxnSound
      <3>4. /\ \A b : b \in DOMAIN bids' /\ bids'[b].user = u
                           <=> b \in DOMAIN bids /\ bids[b].user = u
            /\ \A b \in DOMAIN bids : bids[b].user = u =>
                     /\ bids'[b].status = bids[b].status
                     /\ bids'[b].amount = bids[b].amount
        BY <1>4, <3>1
      <3>5. /\ DOMAIN B = DOMAIN s.bids \cup DOMAIN bids
            /\ DOMAIN C = DOMAIN s.bids \cup DOMAIN bids'
            /\ \A b \in DOMAIN B : B[b] = IF b \in DOMAIN s.bids THEN s.bids[b] ELSE bids[b]
            /\ \A b \in DOMAIN C : C[b] = IF b \in DOMAIN s.bids THEN s.bids[b] ELSE bids'[b]
        BY DEF Overlay
      <3> HIDE DEF B, C
      <3>6. \A b : (b \in DOMAIN B /\ B[b].status = "ACTIVE" /\ B[b].user = u)
                     <=> (b \in DOMAIN C /\ C[b].status = "ACTIVE" /\ C[b].user = u)
        BY <3>4, <3>5
      <3>7. \A b \in DOMAIN B : B[b].status = "ACTIVE" /\ B[b].user = u
                                   => C[b].amount = B[b].amount
        BY <3>4, <3>5
      <3> QED
        BY <3>3, <3>6, <3>7, SoundCong
    <2>4. DOMAIN s.entries = DOMAIN s.users /\ TodoIsActive(s)
          /\ DOMAIN s.bids \subseteq DOMAIN bids' \cup {o}
      BY <1>3, <2>1 DEF TxnSound
    <2>5. \A b \in DOMAIN s.bids :
             /\ b \in DOMAIN bids' => s.bids[b].user = bids'[b].user
             /\ s.bids[b].user \notin DOMAIN s.users =>
                   /\ b \in DOMAIN bids'
                   /\ s.bids[b].status = bids'[b].status
                   /\ s.bids[b].amount = bids'[b].amount
      BY <1>3, <2>1 DEF TxnSound, WritesBidsOfItsUsers
    <2>6. s' = s
      BY <2>1 DEF s
    <2> QED
      BY <2>1, <2>3, <2>4, <2>5 DEF TxnSound, WritesBidsOfItsUsers, TodoIsActive, s
  <1>8. TransactionsSound'
    BY <1>7 DEF TransactionsSound
  <1>9. RequestsSound'
    <2> SUFFICES ASSUME NEW q \in Requests
                 PROVE  /\ request'[q] # AnsweredRequest => q \notin DOMAIN bids'
                        /\ txn'[q].open => request'[q] \in BidRequest /\ request'[q].pc = "open"
      BY DEF RequestsSound
    <2>1. CASE q = p
      <3>1. request'[q] = AnsweredRequest /\ txn'[q] = NoTxn
        BY <2>1 DEF Commit, AfterCommit, IInv, TypeOK
      <3> QED
        BY <3>1 DEF NoTxn
    <2>2. CASE q # p
      <3>1. request'[q] = request[q]
        BY <2>2 DEF Commit, AfterCommit, IInv, TypeOK
      <3>2. txn'[q].open => txn[q].open
        BY <2>2 DEF Commit, DoomedTxn, Sessions
      <3>3. q \in DOMAIN bids' => q \in DOMAIN bids
        BY <1>1, <1>3, <2>2 DEF TxnSound
      <3> QED
        BY <3>1, <3>2, <3>3 DEF IInv, RequestsSound
    <2> QED
      BY <2>1, <2>2
  <1> QED
    BY <1>5, <1>8, <1>9

LEMMA AbortSound ==
    ASSUME IInv, NEW p \in Sessions, NEW retry \in BOOLEAN, Abort(p, retry)
    PROVE  CommittedSound' /\ TransactionsSound' /\ RequestsSound'
  <1>1. ~ NoTxn.open
    BY DEF NoTxn
  <1>2. CommittedSound' /\ TransactionsSound'
    BY <1>1, OnlyTxnChanges DEF Abort, db
  <1>3. RequestsSound'
    <2> SUFFICES ASSUME NEW q \in Requests
                 PROVE  /\ request'[q] # AnsweredRequest => q \notin DOMAIN bids'
                        /\ txn'[q].open => request'[q] \in BidRequest /\ request'[q].pc = "open"
      BY DEF RequestsSound
    <2>1. CASE q = p
      <3>1. txn[q].open /\ txn'[q] = NoTxn
        BY <2>1 DEF Abort, IInv, TypeOK
      <3>2. q \notin DOMAIN bids
        BY <3>1 DEF IInv, RequestsSound, BidRequest, AnsweredRequest
      <3> QED
        BY <1>1, <3>1, <3>2 DEF Abort, db
    <2>2. CASE q # p
      BY <2>2 DEF Abort, db, IInv, RequestsSound, TypeOK, Sessions
    <2> QED
      BY <2>1, <2>2
  <1> QED
    BY <1>2, <1>3

LEMMA StepIInv == IInv /\ [Next]_vars => IInv'
  <1> SUFFICES ASSUME IInv, [Next]_vars PROVE IInv'
    OBVIOUS
  <1>1. TypeOK'
    BY StepTypeOK DEF IInv
  <1>2. CommittedSound' /\ TransactionsSound' /\ RequestsSound'
    <2>1. CASE \E q \in Requests : PlaceBid(q)
      BY <2>1, PlaceBidSound
    <2>2. CASE \E w \in Workers : Work(w)
      BY <2>2, WorkSound
    <2>3. CASE \E p \in Sessions : \E b \in DOMAIN txn[p].todo : Settle(p, b)
      BY <2>3, SettleSound
    <2>4. CASE \E p \in Sessions : Commit(p)
      BY <2>4, CommitSound
    <2>5. CASE \E p \in Sessions : \E retry \in BOOLEAN : Abort(p, retry)
      BY <2>5, AbortSound
    <2>6. CASE UNCHANGED vars
      BY <2>6 DEF vars, IInv, CommittedSound, TransactionsSound, TxnSound,
         WritesBidsOfItsUsers, TodoIsActive, RequestsSound
    <2> QED
      BY <2>1, <2>2, <2>3, <2>4, <2>5, <2>6 DEF Next
  <1> QED
    BY <1>1, <1>2 DEF IInv

-----------------------------------------------------------------------------
\* What the inductive invariant says about the money.
LEMMA IInvImpliesSafety ==
    IInv => /\ OneActiveBid /\ LockedIsActiveBid /\ LedgerExplainsBalances
            /\ BalancesNonNegative /\ SettlementCovered
  <1> SUFFICES ASSUME IInv
               PROVE  /\ OneActiveBid /\ LockedIsActiveBid /\ LedgerExplainsBalances
                      /\ BalancesNonNegative /\ SettlementCovered
    OBVIOUS
  <1>1. \A b \in ActiveBids : bids[b].user \in Users
    BY DEF ActiveBids, IInv, TypeOK, IsPartial, Bid
  <1>2. OneActiveBid
    BY <1>1 DEF IInv, CommittedSound, UserSound, OneActiveBid, ActiveBids
  <1>3. LockedIsActiveBid
    BY DEF IInv, CommittedSound, UserSound, LockedIsActiveBid, ActiveBids, ActiveBidsOf
  <1>4. LedgerExplainsBalances /\ BalancesNonNegative
    BY DEF IInv, CommittedSound, UserSound, LedgerExplainsBalances, BalancesNonNegative
  <1>5. SettlementCovered
    <2> SUFFICES ASSUME NEW p \in Sessions, txn[p].open, ~ txn[p].doomed,
                        NEW b \in DOMAIN txn[p].todo
                 PROVE  CanTakeLocked(txn[p].users[txn[p].todo[b].user], txn[p].todo[b].amount)
      BY DEF SettlementCovered
    <2> DEFINE t == txn[p]
               u == t.todo[b].user
    <2>1. TxnSound(t, p) /\ IsTransaction(t)
      BY DEF IInv, TransactionsSound, TypeOK
    <2>2. /\ b \in DOMAIN t.bids /\ t.bids[b].status = "ACTIVE" /\ t.bids[b].user = u
          /\ t.bids[b].amount = t.todo[b].amount /\ u \in DOMAIN t.users
      BY <2>1 DEF TxnSound, TodoIsActive
    <2>3. UserSound(Overlay(t.bids, bids), t.users[u],
                    EntriesAdded(ledger[u], t.entries[u]), u)
      BY <2>1, <2>2 DEF TxnSound
    <2>4. t.users[u].lockedBalance = t.todo[b].amount
      BY <2>2, <2>3 DEF UserSound, Overlay
    <2>5. t.todo[b].amount \in Int
      BY <2>1 DEF IsTransaction, IsPartial, Bid
    <2> QED
      BY <2>4, <2>5 DEF CanTakeLocked
  <1> QED
    BY <1>2, <1>3, <1>4, <1>5

(* The users' money is safe whatever the number of users, requests and     *)
(* workers and however their transactions interleave: one active bid per   *)
(* user, its amount locked, both balances explained by the ledger, nothing *)
(* overdrawn, and no settlement refused for lack of locked funds           *)
(* (placeBid, closeCurrentRound, advanceRound, finalizeAuction).           *)
THEOREM MoneySafe ==
    Spec => [](/\ TypeOK /\ OneActiveBid /\ LockedIsActiveBid /\ LedgerExplainsBalances
               /\ BalancesNonNegative /\ SettlementCovered)
  <1>1. Spec => []IInv
    BY InitIInv, StepIInv, PTL DEF Spec
  <1>2. IInv => /\ TypeOK /\ OneActiveBid /\ LockedIsActiveBid /\ LedgerExplainsBalances
                /\ BalancesNonNegative /\ SettlementCovered
    BY IInvImpliesSafety DEF IInv
  <1> QED
    BY <1>1, <1>2, PTL

(* Documents, snapshots and the private writes of open transactions keep   *)
(* their shape, whatever commits and aborts beside them.                   *)
THEOREM TransactionsTypeCorrect == Spec => []TypeOK
BY MoneySafe, PTL

(* What is locked of a user's money is its one ACTIVE bid, in every committed *)
(* state, between any requests and any settlement (placeBid, payout, refund). *)
THEOREM LockedIsTheBid == Spec => []LockedIsActiveBid
BY MoneySafe, PTL

(* A closing or a finalizing that can still commit finds the money of every *)
(* bid it has still to settle locked (closeCurrentRound, finalizeAuction). *)
THEOREM SettlementsCovered == Spec => []SettlementCovered
BY MoneySafe, PTL
-----------------------------------------------------------------------------
(* How the transactions move bids and money.                               *)

\* Of the bids in the database, a transaction writes only active ones.  It
\* never lowers an amount, and changes none of a bid it settles.
BidsFollow(t) ==
    \A b \in DOMAIN t.bids \cap DOMAIN bids :
        /\ bids[b].status = "ACTIVE"
        /\ t.bids[b].amount >= bids[b].amount
        /\ t.bids[b].status # "ACTIVE" \/ b \in DOMAIN t.todo
              => t.bids[b].amount = bids[b].amount

Purse(user, spent) ==
    [free |-> user.balance, stake |-> user.lockedBalance, spent |-> spent]

\* A transaction has moved the money of each of its users at most once, and
\* not at all while a bid of the user is still to be settled.
MoneyMoves(t) ==
    /\ \A u \in DOMAIN t.users :
          E!Move(Purse(users[u], ledger[u]["PAYOUT"]),
                 Purse(t.users[u], ledger[u]["PAYOUT"] + t.entries[u]["PAYOUT"]))
    /\ \A b \in DOMAIN t.todo :
          /\ t.users[t.todo[b].user] = users[t.todo[b].user]
          /\ t.entries[t.todo[b].user] = NoEntries

MovesSound ==
    \A p \in Sessions :
        txn[p].open /\ ~ txn[p].doomed => BidsFollow(txn[p]) /\ MoneyMoves(txn[p])

MInv == IInv /\ MovesSound

\* The purse of a user before and after transaction t, if it writes the user.
Before(u) == Purse(users[u], ledger[u]["PAYOUT"])

After(t, u) == Purse(t.users[u], ledger[u]["PAYOUT"] + t.entries[u]["PAYOUT"])

LEMMA InitMovesSound == Init => MovesSound
  BY DEF Init, MovesSound, NoTxn

LEMMA OnlyTxnMoves ==
    ASSUME IInv, MovesSound, NEW p \in Sessions, NEW t, txn' = [txn EXCEPT ![p] = t],
           bids' = bids, users' = users, ledger' = ledger,
           t.open /\ ~ t.doomed => BidsFollow(t) /\ MoneyMoves(t)
    PROVE  MovesSound'
  <1> SUFFICES ASSUME NEW o \in Sessions, txn'[o].open, ~ txn'[o].doomed
               PROVE  (BidsFollow(txn[o]) /\ MoneyMoves(txn[o]))'
    BY DEF MovesSound
  <1>1. PICK s : s = txn'[o] /\ BidsFollow(s) /\ MoneyMoves(s)
    BY DEF IInv, TypeOK, MovesSound
  <1> QED
    BY <1>1 DEF BidsFollow, MoneyMoves

\* A bid request locks a positive amount, and raises an active bid or none.
LEMMA BidTxnMoves ==
    ASSUME IInv, NEW u \in Users, NEW b, NEW bid, NEW delta \in Nat \ {0},
           CanLock(users[u], delta), bid.status = "ACTIVE",
           b \in DOMAIN bids => bids[b].status = "ACTIVE" /\ bid.amount >= bids[b].amount
    PROVE  LET t == Txn({}, NoWrites, Only(b, bid), Only(u, LockFunds(users[u], delta)),
                        Only(u, AddEntry(NoEntries, "LOCK", delta)), NoWrites)
           IN  BidsFollow(t) /\ MoneyMoves(t)
  <1> DEFINE t == Txn({}, NoWrites, Only(b, bid), Only(u, LockFunds(users[u], delta)),
                      Only(u, AddEntry(NoEntries, "LOCK", delta)), NoWrites)
  <1>1. /\ DOMAIN t.bids = {b} /\ t.bids[b] = bid /\ DOMAIN t.todo = {}
        /\ DOMAIN t.users = {u} /\ t.users[u] = LockFunds(users[u], delta)
        /\ t.entries[u] = AddEntry(NoEntries, "LOCK", delta)
    BY DEF Txn, Only, NoWrites
  <1>2. t.entries[u]["PAYOUT"] = 0
    BY <1>1 DEF AddEntry, NoEntries, LedgerType
  <1>3. users[u] \in User /\ ledger[u]["PAYOUT"] \in Nat
    BY DEF IInv, TypeOK, Ledger, LedgerType
  <1> HIDE DEF t
  <1>4. E!Raise(Before(u), After(t, u))
    BY <1>1, <1>2, <1>3 DEF E!Raise, Before, After, Purse, LockFunds, User, CanLock
  <1>5. BidsFollow(t)
    BY <1>1 DEF BidsFollow
  <1>6. MoneyMoves(t)
    BY <1>1, <1>4 DEF MoneyMoves, E!Move, Before, After
  <1> QED
    BY <1>5, <1>6 DEF t

LEMMA PlaceBidMoves ==
    ASSUME IInv, MovesSound, NEW q \in Requests, PlaceBid(q)
    PROVE  MovesSound'
  <1> DEFINE r == request[q]
             u == r.user
  <1>0. q \in Sessions
    BY DEF Sessions
  <1>1. ASSUME r.pc = "ready"
        PROVE  u \in Users /\ r.amount \in Nat /\ q \notin DOMAIN bids
    BY <1>1 DEF IInv, TypeOK, RequestsSound, BidRequest, NewRequest, AnsweredRequest
  <1>2. CASE \E v \in Users, amount \in Amounts : ReadAuction(q, v, amount)
    BY <1>2 DEF ReadAuction, MovesSound, BidsFollow, MoneyMoves
  <1>3. CASE \E b \in DOMAIN bids : RaiseBid(q, b)
    <2> PICK b \in DOMAIN bids : RaiseBid(q, b)
      BY <1>3
    <2> DEFINE delta == r.amount - bids[b].amount
               t == Txn({}, NoWrites, Only(b, RaisedBid(r, b)),
                        Only(u, LockFunds(users[u], delta)),
                        Only(u, AddEntry(NoEntries, "LOCK", delta)), NoWrites)
    <2>1. /\ u \in Users /\ bids[b].status = "ACTIVE" /\ bids[b].amount \in Nat
          /\ r.amount \in Nat /\ MayRaise(r, b)
      BY <1>1 DEF RaiseBid, ActiveBidsOf, ActiveBids, IInv, TypeOK, IsPartial, Bid
    <2>2. /\ delta \in Nat \ {0} /\ CanLock(users[u], delta)
          /\ RaisedBid(r, b).status = "ACTIVE" /\ RaisedBid(r, b).amount >= bids[b].amount
      BY <2>1 DEF MayRaise, RaisedBid
    <2>3. txn' = [txn EXCEPT ![q] = t] /\ UNCHANGED <<bids, users, ledger>>
      BY DEF RaiseBid, BeginBidTxn
    <2> HIDE DEF delta
    <2>4. BidsFollow(t) /\ MoneyMoves(t)
      BY <2>1, <2>2, BidTxnMoves
    <2> HIDE DEF t
    <2> QED
      BY <1>0, <2>3, <2>4, OnlyTxnMoves
  <1>4. CASE CreateBid(q)
    <2> DEFINE bid == [user |-> u, amount |-> r.amount, status |-> "ACTIVE",
                       roundIndex |-> r.round, wonInRoundIndex |-> NotWon]
               t == Txn({}, NoWrites, Only(q, bid), Only(u, LockFunds(users[u], r.amount)),
                        Only(u, AddEntry(NoEntries, "LOCK", r.amount)), NoWrites)
    <2>1. u \in Users /\ r.amount \in Nat \ {0} /\ q \notin DOMAIN bids /\ CanLock(users[u], r.amount)
      BY <1>1, <1>4, ParametersAssumption DEF CreateBid, BidAccepted
    <2>2. txn' = [txn EXCEPT ![q] = t] /\ UNCHANGED <<bids, users, ledger>>
      BY <1>4 DEF CreateBid, BeginBidTxn
    <2>3. bid.status = "ACTIVE"
      OBVIOUS
    <2> HIDE DEF bid
    <2>4. BidsFollow(t) /\ MoneyMoves(t)
      BY <2>1, <2>3, BidTxnMoves
    <2> HIDE DEF t
    <2> QED
      BY <1>0, <2>2, <2>4, OnlyTxnMoves
  <1>5. CASE RejectBid(q)
    BY <1>5 DEF RejectBid, MovesSound, BidsFollow, MoneyMoves
  <1> QED
    BY <1>2, <1>3, <1>4, <1>5 DEF PlaceBid

LEMMA SettlingTxnMoves ==
    ASSUME IInv, NEW a, NEW r, NEW W, NEW R, W \cup R \subseteq ActiveBids
    PROVE  BidsFollow(SettlingTxn(a, r, W, R)) /\ MoneyMoves(SettlingTxn(a, r, W, R))
  <1> DEFINE S == W \cup R
             t == SettlingTxn(a, r, W, R)
  <1>1. /\ t.bids = [b \in S |-> bids[b]]
        /\ t.users = [u \in Owners(S) |-> users[u]]
        /\ t.entries = [u \in Owners(S) |-> NoEntries]
        /\ t.todo = [b \in S |-> IF b \in W THEN Won(b) ELSE Refunded(b)]
    BY DEF SettlingTxn, Txn
  <1>2. \A b \in S : bids[b] \in Bid /\ bids[b].status = "ACTIVE"
    BY DEF ActiveBids, IInv, TypeOK, IsPartial
  <1>3. \A b \in S : t.todo[b].user = bids[b].user /\ bids[b].user \in Owners(S)
    BY <1>1, <1>2 DEF Won, Refunded, Bid, Owners
  <1>4. \A u \in Owners(S) : ledger[u]["PAYOUT"] \in Nat /\ NoEntries["PAYOUT"] = 0
    BY <1>2 DEF Owners, Bid, IInv, TypeOK, Ledger, LedgerType, NoEntries
  <1> HIDE DEF t
  <1>5. BidsFollow(t)
    BY <1>1, <1>2 DEF BidsFollow, Bid
  <1>6. \A u \in DOMAIN t.users : Before(u) = After(t, u)
    BY <1>1, <1>4 DEF Before, After
  <1>7. \A b \in DOMAIN t.todo : LET u == t.todo[b].user
                               IN  t.users[u] = users[u] /\ t.entries[u] = NoEntries
    BY <1>1, <1>3
  <1>8. MoneyMoves(t)
    BY <1>6, <1>7 DEF MoneyMoves, E!Move, Before, After
  <1> QED
    BY <1>5, <1>8 DEF t

LEMMA WorkMoves ==
    ASSUME IInv, MovesSound, NEW w \in Workers, Work(w)
    PROVE  MovesSound'
  <1>0. w \in Sessions
    BY DEF Sessions
  <1>1. ASSUME NEW pc, NEW t, BidsFollow(t), MoneyMoves(t), BeginWorkerTxn(w, pc, t)
        PROVE  MovesSound'
    BY <1>0, <1>1, OnlyTxnMoves DEF BeginWorkerTxn
  <1>2. CASE BeginStart(w)
    <2>1. \A a, r : LET t == Txn(a, r, NoWrites, NoWrites, NoWrites, NoWrites)
                    IN  BidsFollow(t) /\ MoneyMoves(t)
      BY DEF BidsFollow, MoneyMoves, Txn, NoWrites
    <2> QED
      BY <1>1, <1>2, <2>1 DEF BeginStart
  <1>3. CASE BeginClose(w)
    <2> PICK W \in SUBSET ActiveBids :
               BeginWorkerTxn(w, "closing", SettlingTxn({}, ClosedWith(W), W, {}))
      BY <1>3, WinnersAreActive DEF BeginClose
    <2> QED
      BY <1>1, SettlingTxnMoves
  <1>4. CASE BeginAdvance(w)
    <2> DEFINE next == auction.currentRound + 1
               carried == [b \in ActiveBids |-> [bids[b] EXCEPT !.roundIndex = next]]
               t == Txn({[auction EXCEPT !.currentRound = next]}, Only(next, OpenRound),
                        carried, NoWrites, NoWrites, NoWrites)
    <2>1. \A b \in ActiveBids : /\ bids[b].status = "ACTIVE" /\ bids[b].amount \in Nat
                                /\ carried[b].status = bids[b].status
                                /\ carried[b].amount = bids[b].amount
      BY DEF ActiveBids, IInv, TypeOK, IsPartial, Bid
    <2>2. /\ t.bids = carried /\ DOMAIN carried = ActiveBids
          /\ t.users = NoWrites /\ t.todo = NoWrites
      BY DEF Txn
    <2>3. BeginWorkerTxn(w, "advancing", t)
      BY <1>4 DEF BeginAdvance
    <2> HIDE DEF t, carried
    <2>4. BidsFollow(t) /\ MoneyMoves(t)
      BY <2>1, <2>2 DEF BidsFollow, MoneyMoves, NoWrites
    <2> QED
      BY <1>1, <2>3, <2>4
  <1>5. CASE BeginFinalize(w)
    <2> DEFINE settles == CurrentRoundOpen /\ IsLastRound
               Closed(W) == IF settles THEN ClosedWith(W) ELSE NoWrites
    <2> PICK W \in SUBSET ActiveBids :
               BeginWorkerTxn(w, FinalizingState(w),
                 SettlingTxn({[auction EXCEPT !.status = "COMPLETED"]}, Closed(W),
                             W, ActiveBids \ W))
      BY <1>5, WinnersAreActive DEF BeginFinalize
    <2>1. W \cup (ActiveBids \ W) \subseteq ActiveBids
      OBVIOUS
    <2> HIDE DEF Closed
    <2> QED
      BY <1>1, <2>1, SettlingTxnMoves
  <1>6. CASE LeaveRound(w)
    BY <1>6 DEF LeaveRound, MovesSound, BidsFollow, MoneyMoves
  <1> QED
    BY <1>2, <1>3, <1>4, <1>5, <1>6 DEF Work

LEMMA SettleMoves ==
    ASSUME IInv, MovesSound, NEW p \in Sessions, NEW b \in DOMAIN txn[p].todo, Settle(p, b)
    PROVE  MovesSound'
  <1> DEFINE t == txn[p]
             doc == t.todo[b]
             u == doc.user
             won == doc.status = "WON"
             newUser == IF won THEN Payout(t.users[u], doc.amount)
                               ELSE Refund(t.users[u], doc.amount)
             newEntries == AddEntry(t.entries[u], IF won THEN "PAYOUT" ELSE "REFUND", doc.amount)
             s == Txn(t.auction, t.rounds, [t.bids EXCEPT ![b] = doc],
                      [t.users EXCEPT ![u] = newUser], [t.entries EXCEPT ![u] = newEntries],
                      [c \in DOMAIN t.todo \ {b} |-> t.todo[c]])
  <1>1. /\ TxnSound(t, p) /\ IsTransaction(t) /\ BidsFollow(t) /\ MoneyMoves(t)
        /\ txn' = [txn EXCEPT ![p] = s] /\ UNCHANGED <<bids, users, ledger>>
    BY DEF Settle, IInv, TransactionsSound, TypeOK, MovesSound
  <1>2. /\ b \in DOMAIN t.todo /\ b \in DOMAIN t.bids /\ t.bids[b].status = "ACTIVE" /\ t.bids[b].user = u
        /\ t.bids[b].amount = doc.amount /\ u \in DOMAIN t.users /\ DOMAIN t.entries = DOMAIN t.users
        /\ \A c \in DOMAIN t.todo : /\ c \in DOMAIN t.bids /\ t.bids[c].status = "ACTIVE"
                                    /\ t.bids[c].user = t.todo[c].user
    BY <1>1 DEF TxnSound, TodoIsActive
  <1>3. doc.amount \in Nat /\ u \in Users /\ users[u] \in User /\ ledger[u]["PAYOUT"] \in Nat
    BY <1>1 DEF IsTransaction, IsPartial, Bid, IInv, TypeOK, Ledger, LedgerType
  <1>4. t.users[u] = users[u] /\ t.entries[u] = NoEntries
    BY <1>1 DEF MoneyMoves
  <1>5. UserSound(Overlay(t.bids, bids), t.users[u], EntriesAdded(ledger[u], t.entries[u]), u)
    BY <1>1, <1>2 DEF TxnSound
  <1>6. users[u].lockedBalance = doc.amount
    BY <1>2, <1>4, <1>5 DEF UserSound, Overlay
  (* No other bid of u is still to be settled. *)
  <1>7. \A c \in DOMAIN t.todo \ {b} : t.todo[c].user # u
    BY <1>2, <1>5 DEF UserSound, Overlay
  <1>8. /\ s.bids = [t.bids EXCEPT ![b] = doc]
        /\ s.users = [t.users EXCEPT ![u] = newUser]
        /\ s.entries = [t.entries EXCEPT ![u] = newEntries]
        /\ s.todo = [c \in DOMAIN t.todo \ {b} |-> t.todo[c]]
    BY DEF Txn
  <1>9. E!Move(Before(u), Purse(newUser, ledger[u]["PAYOUT"] + newEntries["PAYOUT"]))
    <2>1. CASE won
      <3>1. newEntries["PAYOUT"] = doc.amount /\ newUser = Payout(users[u], doc.amount)
        BY <1>3, <1>4, <2>1 DEF AddEntry, NoEntries, LedgerType
      <3> HIDE DEF newUser, newEntries
      <3>2. E!Win(Before(u), Purse(newUser, ledger[u]["PAYOUT"] + newEntries["PAYOUT"]))
        BY <1>3, <1>6, <3>1 DEF E!Win, Before, Purse, Payout, User
      <3> QED
        BY <3>2 DEF E!Move
    <2>2. CASE ~ won
      <3>1. newEntries["PAYOUT"] = 0 /\ newUser = Refund(users[u], doc.amount)
        BY <1>3, <1>4, <2>2 DEF AddEntry, NoEntries, LedgerType
      <3> HIDE DEF newUser, newEntries
      <3>2. E!Return(Before(u), Purse(newUser, ledger[u]["PAYOUT"] + newEntries["PAYOUT"]))
        BY <1>3, <1>6, <3>1 DEF E!Return, Before, Purse, Refund, User
      <3> QED
        BY <3>2 DEF E!Move
    <2> QED
      BY <2>1, <2>2
  <1> HIDE DEF s, newUser, newEntries, t
  <1>10. BidsFollow(s)
    <2> HIDE DEF doc
    <2> SUFFICES ASSUME NEW c \in DOMAIN s.bids \cap DOMAIN bids
                 PROVE  /\ bids[c].status = "ACTIVE"
                        /\ s.bids[c].amount >= bids[c].amount
                        /\ s.bids[c].status # "ACTIVE" \/ c \in DOMAIN s.todo
                              => s.bids[c].amount = bids[c].amount
      BY DEF BidsFollow
    <2>1. CASE c = b
      <3>1. s.bids[c] = doc /\ bids[c].amount = doc.amount /\ bids[c].status = "ACTIVE"
        BY <1>1, <1>2, <1>8, <2>1 DEF BidsFollow
      <3> QED
        BY <1>3, <3>1
    <2>2. CASE c # b
      <3>1. s.bids[c] = t.bids[c] /\ c \in DOMAIN t.bids /\ (c \in DOMAIN s.todo => c \in DOMAIN t.todo)
        BY <1>8, <2>2
      <3> QED
        BY <1>1, <3>1 DEF BidsFollow
    <2> QED
      BY <2>1, <2>2
  <1>11. \A v \in DOMAIN s.users : E!Move(Before(v), After(s, v))
    <2> TAKE v \in DOMAIN s.users
    <2>1. CASE v = u
      BY <1>2, <1>8, <1>9, <2>1 DEF After
    <2>2. CASE v # u
      <3>1. After(s, v) = After(t, v) /\ v \in DOMAIN t.users
        BY <1>8, <2>2 DEF After
      <3> QED
        BY <1>1, <3>1 DEF MoneyMoves, Before, After
    <2> QED
      BY <2>1, <2>2
  <1>12. \A c \in DOMAIN s.todo : /\ s.users[s.todo[c].user] = users[s.todo[c].user]
                                  /\ s.entries[s.todo[c].user] = NoEntries
    BY <1>1, <1>7, <1>8 DEF MoneyMoves
  <1>13. MoneyMoves(s)
    BY <1>11, <1>12 DEF MoneyMoves, Before, After
  <1> QED
    BY <1>1, <1>10, <1>13, OnlyTxnMoves

\* What survives a commit writes no document the commit has written.
LEMMA CommitMoves ==
    ASSUME IInv, MovesSound, NEW p \in Sessions, Commit(p)
    PROVE  MovesSound'
  <1> SUFFICES ASSUME NEW o \in Sessions, txn'[o].open, ~ txn'[o].doomed
               PROVE  (BidsFollow(txn[o]) /\ MoneyMoves(txn[o]))'
    BY DEF MovesSound
  <1> DEFINE t == txn[p]
             s == txn[o]
  <1>1. txn'[o] = CASE o = p -> NoTxn
                    [] o # p /\ s.open /\ Overlap(t, s) -> DoomedTxn
                    [] OTHER -> s
    BY DEF Commit
  <1>2. o # p /\ ~ (s.open /\ Overlap(t, s)) /\ txn'[o] = s
    BY <1>1 DEF NoTxn, DoomedTxn
  <1>3. DOMAIN t.bids \cap DOMAIN s.bids = {} /\ DOMAIN t.users \cap DOMAIN s.users = {}
    BY <1>2 DEF Overlap
  <1>4. /\ BidsFollow(s) /\ MoneyMoves(s) /\ TxnSound(s, o) /\ TxnSound(t, p)
        /\ IsTransaction(s) /\ IsTransaction(t)
    BY <1>2 DEF IInv, TypeOK, TransactionsSound, MovesSound, Commit
  <1>5. \A b \in DOMAIN s.bids \cap DOMAIN bids' : b \in DOMAIN bids /\ bids'[b] = bids[b]
    BY <1>3 DEF Commit, Overlay
  <1>6. \A u \in DOMAIN s.users : users'[u] = users[u] /\ ledger'[u] = ledger[u]
    BY <1>3, <1>4 DEF Commit, Overlay, IsTransaction, IsPartial, IInv, TypeOK, TxnSound
  <1>7. \A b \in DOMAIN s.todo : s.todo[b].user \in DOMAIN s.users
    BY <1>4 DEF TxnSound, TodoIsActive
  <1> HIDE DEF s, t
  <1> QED
    BY <1>2, <1>4, <1>5, <1>6, <1>7 DEF BidsFollow, MoneyMoves

LEMMA AbortMoves ==
    ASSUME IInv, MovesSound, NEW p \in Sessions, NEW retry \in BOOLEAN, Abort(p, retry)
    PROVE  MovesSound'
  <1>1. ~ NoTxn.open
    BY DEF NoTxn
  <1> QED
    BY <1>1, OnlyTxnMoves DEF Abort, db

LEMMA StepMInv == MInv /\ [Next]_vars => MInv'
  <1> SUFFICES ASSUME MInv, [Next]_vars PROVE MInv'
    OBVIOUS
  <1>1. IInv /\ MovesSound
    BY DEF MInv
  <1>2. IInv'
    BY <1>1, StepIInv
  <1>3. MovesSound'
    <2>1. CASE \E q \in Requests : PlaceBid(q)
      BY <1>1, <2>1, PlaceBidMoves
    <2>2. CASE \E w \in Workers : Work(w)
      BY <1>1, <2>2, WorkMoves
    <2>3. CASE \E p \in Sessions : \E b \in DOMAIN txn[p].todo : Settle(p, b)
      BY <1>1, <2>3, SettleMoves
    <2>4. CASE \E p \in Sessions : Commit(p)
      BY <1>1, <2>4, CommitMoves
    <2>5. CASE \E p \in Sessions : \E retry \in BOOLEAN : Abort(p, retry)
      BY <1>1, <2>5, AbortMoves
    <2>6. CASE UNCHANGED vars
      BY <1>1, <2>6 DEF vars, MovesSound, BidsFollow, MoneyMoves
    <2> QED
      BY <2>1, <2>2, <2>3, <2>4, <2>5, <2>6 DEF Next
  <1> QED
    BY <1>2, <1>3 DEF MInv

LEMMA AlwaysMInv == Spec => []MInv
  <1>1. Init => MInv
    BY InitIInv, InitMovesSound DEF MInv
  <1> QED
    BY <1>1, StepMInv, PTL DEF Spec

-----------------------------------------------------------------------------
\* Only a commit changes the database.
LEMMA DatabaseSteps ==
    ASSUME [Next]_vars
    PROVE  (\E p \in Sessions : Commit(p)) \/ UNCHANGED db
  BY DEF Next, vars, db, PlaceBid, ReadAuction, RaiseBid, CreateBid, BeginBidTxn, RejectBid,
     Work, BeginStart, BeginClose, BeginAdvance, BeginFinalize, BeginWorkerTxn, LeaveRound,
     Settle, Abort

(* No bid disappears, changes hands or loses amount, and a bid once won or *)
(* refunded is final, whatever the transactions that write it side by side *)
(* (placeBid, closeCurrentRound, advanceRound, finalizeAuction).           *)
THEOREM BidsLiveOnce == Spec => BidLifecycle
  <1> DEFINE Lives(b) ==
               /\ b \in DOMAIN bids'
               /\ bids'[b].user = bids[b].user
               /\ bids'[b].amount >= bids[b].amount
               /\ bids[b].status # "ACTIVE" => bids'[b] = bids[b]
               /\ bids'[b].status # "ACTIVE" => bids'[b].amount = bids[b].amount
  <1>1. MInv /\ [Next]_vars => [\A b \in DOMAIN bids : Lives(b)]_vars
    <2> SUFFICES ASSUME MInv, [Next]_vars, NEW b \in DOMAIN bids PROVE Lives(b)
      OBVIOUS
    <2>1. bids[b].amount \in Nat
      BY DEF MInv, IInv, TypeOK, IsPartial, Bid
    <2>2. CASE UNCHANGED db
      BY <2>1, <2>2 DEF db
    <2>3. CASE \E p \in Sessions : Commit(p)
      <3> PICK p \in Sessions : Commit(p)
        BY <2>3
      <3> DEFINE t == txn[p]
      <3>1. /\ BidsFollow(t) /\ WritesBidsOfItsUsers(t)
            /\ bids' = Overlay(t.bids, bids) /\ DOMAIN t.todo = {}
        BY DEF MInv, IInv, TransactionsSound, TxnSound, MovesSound, Commit
      <3> HIDE DEF t
      <3> QED
        BY <2>1, <3>1 DEF Overlay, BidsFollow, WritesBidsOfItsUsers
    <2> QED
      BY <2>2, <2>3, DatabaseSteps
  <1> QED
    BY <1>1, AlwaysMInv, PTL DEF Spec, BidLifecycle

\* The stake of a user, the amount of its active bid, is what is locked.
LEMMA StakeIsLocked ==
    ASSUME LockedIsActiveBid, NEW u \in Users
    PROVE  Stake(u) = users[u].lockedBalance
  BY DEF LockedIsActiveBid, Stake

(* The committed transactions move the money of the bidders as Escrow      *)
(* allows, for any number of users, requests and workers: a stake is       *)
(* raised from free money, taken whole or given back whole, once           *)
(* (BidService, AuctionService and BalanceService together).               *)
THEOREM ImplementsEscrow == Spec => RefinesEscrow
  <1> DEFINE wallet == [u \in Users |-> [free |-> users[u].balance, stake |-> Stake(u),
                                         spent |-> ledger[u]["PAYOUT"]]]
             purses == [u \in Users |-> Before(u)]
  <1>1. MInv => wallet = purses
    BY IInvImpliesSafety, StakeIsLocked DEF MInv, Before, Purse
  <1>2. MInv' => (wallet = purses)'
    BY <1>1, PTL
  <1>3. Init => E!Init
    BY ParametersAssumption
       DEF Init, E!Init, Stake, ActiveBidsOf, ActiveBids, NoWrites, NewUser, AddEntry,
           NoEntries, LedgerType
  <1>4. MInv /\ MInv' /\ [Next]_vars => [E!Next]_wallet
    <2> SUFFICES ASSUME MInv, MInv', [Next]_vars PROVE [E!Next]_wallet
      OBVIOUS
    <2>1. wallet = purses /\ wallet' = purses'
      BY <1>1, <1>2
    <2>2. CASE UNCHANGED db
      BY <2>1, <2>2 DEF db, Before
    <2>3. CASE \E p \in Sessions : Commit(p)
      <3> PICK p \in Sessions : Commit(p)
        BY <2>3
      <3> DEFINE t == txn[p]
      <3>1. MoneyMoves(t) /\ DOMAIN t.entries = DOMAIN t.users
        BY DEF MInv, IInv, TransactionsSound, TxnSound, MovesSound, Commit
      <3>2. \A u \in Users :
               /\ users'[u] = IF u \in DOMAIN t.users THEN t.users[u] ELSE users[u]
               /\ ledger'[u] = IF u \in DOMAIN t.users THEN EntriesAdded(ledger[u], t.entries[u])
                                                       ELSE ledger[u]
        BY <3>1 DEF Commit, Overlay, MInv, IInv, TypeOK
      <3> HIDE DEF t
      <3>3. ASSUME NEW u \in Users PROVE E!Move(Before(u), Before(u)')
        <4>1. CASE u \in DOMAIN t.users
          <5>1. Before(u)' = After(t, u)
            BY <3>2, <4>1 DEF Before, After, EntriesAdded, LedgerType
          <5> QED
            BY <3>1, <4>1, <5>1 DEF MoneyMoves, Before, After
        <4>2. CASE u \notin DOMAIN t.users
          BY <3>2, <4>2 DEF Before, E!Move
        <4> QED
          BY <4>1, <4>2
      <3>4. \A u \in Users : Before(u)' \in E!Wallet
        BY DEF MInv, IInv, TypeOK, Before, Purse, E!Wallet, User, Ledger, LedgerType
      <3> HIDE DEF wallet
      <3> QED
        BY <2>1, <3>3, <3>4 DEF E!Next, wallet
    <2> QED
      BY <2>2, <2>3, DatabaseSteps
  <1> QED
    BY <1>3, <1>4, AlwaysMInv, PTL DEF Spec, RefinesEscrow, E!Spec

-----------------------------------------------------------------------------
(* The life of the auction.  A transaction that is open and in no conflict *)
(* commits what it has found and written; the others never do.             *)

Live(p) == txn[p].open /\ ~ txn[p].doomed

LEMMA LiveTxn ==
    ASSUME MInv, NEW p \in Sessions, Live(p)
    PROVE  /\ IsTransaction(txn[p]) /\ TxnSound(txn[p], p) /\ BidsFollow(txn[p])
           /\ DOMAIN txn[p].bids \subseteq Requests /\ DOMAIN txn[p].users \subseteq Users
BY DEF Live, MInv, IInv, MovesSound, TransactionsSound, TypeOK, IsTransaction, IsPartial

\* What survives a commit writes no document the commit has written.
LEMMA Survivors ==
    ASSUME MInv, NEW p \in Sessions, Commit(p), NEW o \in Sessions, Live(o)'
    PROVE  /\ o # p /\ txn'[o] = txn[o] /\ Live(o) /\ Live(p)
           /\ ~ Overlap(txn[p], txn[o])
<1>1. txn'[o] = CASE o = p -> NoTxn
                  [] o # p /\ txn[o].open /\ Overlap(txn[p], txn[o]) -> DoomedTxn
                  [] OTHER -> txn[o]
  BY DEF Commit
<1>2. o # p /\ ~ (txn[o].open /\ Overlap(txn[p], txn[o])) /\ txn'[o] = txn[o]
  BY <1>1 DEF NoTxn, DoomedTxn, Live
<1> QED
  BY <1>2 DEF Live, Commit

-----------------------------------------------------------------------------
(* What the settled bids of a user amount to.                              *)

LEMMA FiniteCollections ==
    ASSUME NEW B, NEW C, IsPartial(B, Requests, Bid), IsPartial(C, Requests, Bid)
    PROVE  /\ IsFiniteSet(DOMAIN B) /\ IsFiniteSet(DOMAIN Overlay(B, C))
           /\ \A b \in DOMAIN B : B[b] \in Bid
           /\ IsPartial(Overlay(B, C), Requests, Bid)
<1>1. IsPartial(Overlay(B, C), Requests, Bid)
  BY PartialTypes
<1>2. DOMAIN B \in SUBSET Requests /\ DOMAIN Overlay(B, C) \in SUBSET Requests
  BY <1>1 DEF IsPartial
<1> QED
  BY <1>1, <1>2, RequestsAssumption, FS_Subset DEF IsPartial

LEMMA AmountSame ==
    ASSUME NEW B, NEW C, NEW u, NEW status, IsPartial(B, Requests, Bid),
           \A b : (b \in DOMAIN B /\ B[b].user = u /\ B[b].status = status)
                    <=> (b \in DOMAIN C /\ C[b].user = u /\ C[b].status = status),
           \A b \in DOMAIN B : B[b].user = u /\ B[b].status = status
                                  => C[b].amount = B[b].amount
    PROVE  AmountOf(status, u, C) = AmountOf(status, u, B)
<1> DEFINE S == {b \in DOMAIN B : B[b].user = u /\ B[b].status = status}
           f == [b \in DOMAIN B |-> B[b].amount]
           g == [b \in DOMAIN C |-> C[b].amount]
<1>1. S = {b \in DOMAIN C : C[b].user = u /\ C[b].status = status}
  OBVIOUS
<1>2. IsFiniteSet(S)
  BY FiniteCollections, FS_Subset
<1>3. \A b \in S : f[b] = g[b]
  OBVIOUS
<1>4. SumFunctionOnSet(f, S) = SumFunctionOnSet(g, S)
  <2> HIDE DEF f, g, S
  <2> QED BY <1>2, <1>3, SumSame
<1> QED
  BY <1>1, <1>4 DEF AmountOf

\* Settled looks at nothing but the settled bids of the user.
LEMMA SettledSame ==
    ASSUME NEW B, NEW C, NEW u, NEW totals, IsPartial(B, Requests, Bid),
           \A b : (b \in DOMAIN B /\ B[b].user = u /\ B[b].status # "ACTIVE")
                    <=> (b \in DOMAIN C /\ C[b].user = u /\ C[b].status # "ACTIVE"),
           \A b \in DOMAIN B : B[b].user = u /\ B[b].status # "ACTIVE"
              => C[b].status = B[b].status /\ C[b].amount = B[b].amount,
           Settled(B, totals, u)
    PROVE  Settled(C, totals, u)
<1>1. AmountOf("WON", u, C) = AmountOf("WON", u, B)
  BY AmountSame
<1>2. AmountOf("REFUNDED", u, C) = AmountOf("REFUNDED", u, B)
  BY AmountSame
<1> QED
  BY <1>1, <1>2 DEF Settled

\* An active bid is settled: its amount is added to what it has become.
LEMMA AmountAdds ==
    ASSUME NEW B, NEW b \in DOMAIN B, IsPartial(B, Requests, Bid), NEW doc \in Bid,
           B[b].status = "ACTIVE", doc.status # "ACTIVE", NEW status, status # "ACTIVE"
    PROVE  /\ AmountOf(status, doc.user, [B EXCEPT ![b] = doc]) =
                 AmountOf(status, doc.user, B) + IF doc.status = status THEN doc.amount ELSE 0
           /\ AmountOf(status, doc.user, B) \in Nat
<1> DEFINE C == [B EXCEPT ![b] = doc]
           u == doc.user
           S == {c \in DOMAIN B : B[c].user = u /\ B[c].status = status}
           T == {c \in DOMAIN C : C[c].user = u /\ C[c].status = status}
           f == [c \in DOMAIN B |-> B[c].amount]
           g == [c \in DOMAIN C |-> C[c].amount]
<1>1. IsFiniteSet(S) /\ b \notin S /\ T = IF doc.status = status THEN S \cup {b} ELSE S
  BY FiniteCollections, FS_Subset
<1>2. \A c \in S : f[c] = g[c] /\ f[c] \in Nat
  BY FiniteCollections DEF Bid
<1>3. g[b] = doc.amount /\ g[b] \in Nat
  BY DEF Bid
<1>4. AmountOf(status, u, B) = SumFunctionOnSet(f, S) /\ AmountOf(status, u, C) = SumFunctionOnSet(g, T)
  BY DEF AmountOf
<1> HIDE DEF f, g, S, T, C, u
<1>5. SumFunctionOnSet(f, S) = SumFunctionOnSet(g, S) /\ SumFunctionOnSet(f, S) \in Nat
  BY <1>1, <1>2, SumSame, SumType
<1>6. SumFunctionOnSet(g, S \cup {b}) = g[b] + SumFunctionOnSet(g, S)
  BY <1>1, <1>2, <1>3, SumAdd
<1>7. CASE doc.status = status
  BY <1>1, <1>3, <1>4, <1>5, <1>6, <1>7 DEF u, C
<1>8. CASE doc.status # status
  BY <1>1, <1>4, <1>5, <1>8 DEF u, C
<1> QED
  BY <1>7, <1>8

-----------------------------------------------------------------------------
(* The ledger and the settled bids.                                        *)

\* In what t sees of the database with its own writes, the ledger of every
\* user it writes accounts for the user's settled bids.
TxnSettled(t) ==
    \A u \in DOMAIN t.users :
        Settled(Overlay(t.bids, bids), EntriesAdded(ledger[u], t.entries[u]), u)

SettledSound == SettledOnce /\ \A p \in Sessions : Live(p) => TxnSettled(txn[p])

\* A step that leaves the database alone and changes only p's transaction.
LEMMA OnlyTxnSettles ==
    ASSUME MInv, SettledSound, NEW p \in Sessions, NEW t, txn' = [txn EXCEPT ![p] = t],
           bids' = bids, users' = users, ledger' = ledger,
           t.open /\ ~ t.doomed => TxnSettled(t)
    PROVE  SettledSound'
<1>1. SettledOnce'
  BY DEF SettledSound, SettledOnce
<1>2. ASSUME NEW o \in Sessions, Live(o)'
      PROVE  TxnSettled(txn[o])'
  <2>1. PICK s : s = txn'[o] /\ TxnSettled(s)
    BY <1>2 DEF MInv, IInv, TypeOK, SettledSound, Live
  <2> QED
    BY <2>1 DEF TxnSettled
<1> QED
  BY <1>1, <1>2 DEF SettledSound

\* A bid request settles nothing.
LEMMA BidTxnSettles ==
    ASSUME MInv, SettledOnce, NEW u \in Users, NEW b \in Requests, NEW bid \in Bid,
           NEW delta \in Nat, bid.status = "ACTIVE",
           b \in DOMAIN bids => bids[b].status = "ACTIVE"
    PROVE  TxnSettled(Txn({}, NoWrites, Only(b, bid), Only(u, LockFunds(users[u], delta)),
                          Only(u, AddEntry(NoEntries, "LOCK", delta)), NoWrites))
<1> DEFINE t == Txn({}, NoWrites, Only(b, bid), Only(u, LockFunds(users[u], delta)),
                    Only(u, AddEntry(NoEntries, "LOCK", delta)), NoWrites)
           B == Overlay(Only(b, bid), bids)
           totals == EntriesAdded(ledger[u], AddEntry(NoEntries, "LOCK", delta))
<1>1. ledger[u] \in Ledger /\ IsPartial(bids, Requests, Bid) /\ Settled(bids, ledger[u], u)
  BY DEF MInv, IInv, TypeOK, SettledOnce
<1>2. totals["PAYOUT"] = ledger[u]["PAYOUT"] /\ totals["REFUND"] = ledger[u]["REFUND"]
  BY <1>1 DEF EntriesAdded, AddEntry, NoEntries, Ledger, LedgerType
<1> HIDE DEF totals
<1>3. Settled(bids, totals, u)
  BY <1>1, <1>2 DEF Settled
<1>4. DOMAIN B = DOMAIN bids \cup {b} /\ B[b] = bid /\ \A c \in DOMAIN bids : c # b => B[c] = bids[c]
  BY DEF Overlay, Only
<1> HIDE DEF B
<1>5. \A c : (c \in DOMAIN bids /\ bids[c].user = u /\ bids[c].status # "ACTIVE")
               <=> (c \in DOMAIN B /\ B[c].user = u /\ B[c].status # "ACTIVE")
  BY <1>4
<1>6. \A c \in DOMAIN bids : bids[c].user = u /\ bids[c].status # "ACTIVE"
        => B[c].status = bids[c].status /\ B[c].amount = bids[c].amount
  BY <1>4
<1>7. Settled(B, totals, u)
  BY <1>1, <1>3, <1>5, <1>6, SettledSame
<1>8. /\ DOMAIN t.users = {u} /\ t.bids = Only(b, bid)
      /\ t.entries[u] = AddEntry(NoEntries, "LOCK", delta)
  BY DEF Txn, Only
<1> HIDE DEF t
<1>9. TxnSettled(t)
  BY <1>7, <1>8 DEF TxnSettled, B, totals
<1> QED
  BY <1>9 DEF t

LEMMA PlaceBidSettles ==
    ASSUME MInv, SettledSound, NEW q \in Requests, PlaceBid(q)
    PROVE  SettledSound'
<1> DEFINE r == request[q]
           u == r.user
<1>0. q \in Sessions
  BY DEF Sessions
<1>1. ASSUME r.pc = "ready"
      PROVE  r \in BidRequest /\ u \in Users /\ r.amount \in Nat /\ q \notin DOMAIN bids
  BY <1>1 DEF MInv, IInv, TypeOK, RequestsSound, BidRequest, NewRequest, AnsweredRequest
<1>2. CASE \E v \in Users, amount \in Amounts : ReadAuction(q, v, amount)
  BY <1>2 DEF ReadAuction, SettledSound, SettledOnce, TxnSettled, Live
<1>3. CASE \E b \in DOMAIN bids : RaiseBid(q, b)
  <2> PICK b \in DOMAIN bids : RaiseBid(q, b)
    BY <1>3
  <2> DEFINE delta == r.amount - bids[b].amount
             t == Txn({}, NoWrites, Only(b, RaisedBid(r, b)),
                      Only(u, LockFunds(users[u], delta)),
                      Only(u, AddEntry(NoEntries, "LOCK", delta)), NoWrites)
  <2>1. /\ r \in BidRequest /\ bids[b].status = "ACTIVE" /\ bids[b] \in Bid
        /\ b \in Requests /\ MayRaise(r, b)
    BY <1>1 DEF RaiseBid, ActiveBidsOf, ActiveBids, MInv, IInv, TypeOK, IsPartial
  <2>2. delta \in Nat /\ RaisedBid(r, b) \in Bid /\ RaisedBid(r, b).status = "ACTIVE"
    BY <2>1 DEF MayRaise, RaisedBid, Bid, BidRequest
  <2>3. txn' = [txn EXCEPT ![q] = t] /\ UNCHANGED <<bids, users, ledger>>
    BY DEF RaiseBid, BeginBidTxn
  <2>4. u \in Users
    BY <2>1 DEF BidRequest
  <2> HIDE DEF delta
  <2>5. TxnSettled(t)
    BY <2>1, <2>2, <2>4, BidTxnSettles DEF SettledSound
  <2> HIDE DEF t
  <2> QED
    BY <1>0, <2>3, <2>5, OnlyTxnSettles
<1>4. CASE CreateBid(q)
  <2> DEFINE bid == [user |-> u, amount |-> r.amount, status |-> "ACTIVE",
                     roundIndex |-> r.round, wonInRoundIndex |-> NotWon]
             t == Txn({}, NoWrites, Only(q, bid), Only(u, LockFunds(users[u], r.amount)),
                      Only(u, AddEntry(NoEntries, "LOCK", r.amount)), NoWrites)
  <2>1. r \in BidRequest /\ u \in Users /\ r.amount \in Nat /\ q \notin DOMAIN bids
    BY <1>1, <1>4 DEF CreateBid
  <2>2. txn' = [txn EXCEPT ![q] = t] /\ UNCHANGED <<bids, users, ledger>>
    BY <1>4 DEF CreateBid, BeginBidTxn
  <2>3. bid \in Bid /\ bid.status = "ACTIVE"
    BY <2>1 DEF Bid, BidRequest
  <2> HIDE DEF bid
  <2>4. TxnSettled(t)
    BY <2>1, <2>3, BidTxnSettles DEF SettledSound
  <2> HIDE DEF t
  <2> QED
    BY <1>0, <2>2, <2>4, OnlyTxnSettles
<1>5. CASE RejectBid(q)
  BY <1>5 DEF RejectBid, SettledSound, SettledOnce, TxnSettled, Live
<1> QED
  BY <1>2, <1>3, <1>4, <1>5 DEF PlaceBid

\* A settlement that begins has settled nothing yet.
LEMMA SettlingTxnSettles ==
    ASSUME MInv, SettledOnce, NEW a, NEW r, NEW W, NEW R, W \cup R \subseteq ActiveBids
    PROVE  TxnSettled(SettlingTxn(a, r, W, R))
<1> DEFINE S == W \cup R
           t == SettlingTxn(a, r, W, R)
<1>1. /\ t.bids = [b \in S |-> bids[b]]
      /\ t.users = [u \in Owners(S) |-> users[u]]
      /\ t.entries = [u \in Owners(S) |-> NoEntries]
  BY DEF SettlingTxn, Txn
<1>2. \A b \in S : b \in DOMAIN bids /\ bids[b] \in Bid
  BY DEF ActiveBids, MInv, IInv, TypeOK, IsPartial
<1>3. Overlay(t.bids, bids) = bids
  BY <1>1, <1>2 DEF Overlay, MInv, IInv, TypeOK, IsPartial
<1>4. Owners(S) \subseteq Users
  BY <1>2 DEF Owners, Bid
<1>5. \A u \in Owners(S) : EntriesAdded(ledger[u], NoEntries) = ledger[u]
  BY <1>4, NoEntriesAdded DEF MInv, IInv, TypeOK
<1> HIDE DEF t
<1>6. TxnSettled(t)
  BY <1>1, <1>3, <1>4, <1>5 DEF TxnSettled, SettledOnce
<1> QED
  BY <1>6 DEF t

LEMMA WorkSettles ==
    ASSUME MInv, SettledSound, NEW w \in Workers, Work(w)
    PROVE  SettledSound'
<1>0. w \in Sessions /\ SettledOnce
  BY DEF Sessions, SettledSound
<1>1. ASSUME NEW pc, NEW t, TxnSettled(t), BeginWorkerTxn(w, pc, t)
      PROVE  SettledSound'
  BY <1>0, <1>1, OnlyTxnSettles DEF BeginWorkerTxn
<1>2. \A a, r, b : TxnSettled(Txn(a, r, b, NoWrites, NoWrites, NoWrites))
  BY DEF TxnSettled, Txn, NoWrites
<1>3. CASE BeginStart(w)
  BY <1>1, <1>2, <1>3 DEF BeginStart
<1>4. CASE BeginClose(w)
  <2> PICK W \in SUBSET ActiveBids :
             BeginWorkerTxn(w, "closing", SettlingTxn({}, ClosedWith(W), W, {}))
    BY <1>4, WinnersAreActive DEF BeginClose
  <2> QED
    BY <1>0, <1>1, SettlingTxnSettles
<1>5. CASE BeginAdvance(w)
  BY <1>1, <1>2, <1>5 DEF BeginAdvance
<1>6. CASE BeginFinalize(w)
  <2> DEFINE settles == CurrentRoundOpen /\ IsLastRound
             Closed(W) == IF settles THEN ClosedWith(W) ELSE NoWrites
  <2> PICK W \in SUBSET ActiveBids :
             BeginWorkerTxn(w, FinalizingState(w),
               SettlingTxn({[auction EXCEPT !.status = "COMPLETED"]}, Closed(W),
                           W, ActiveBids \ W))
    BY <1>6, WinnersAreActive DEF BeginFinalize
  <2>1. W \cup (ActiveBids \ W) \subseteq ActiveBids
    OBVIOUS
  <2> HIDE DEF Closed
  <2> QED
    BY <1>0, <1>1, <2>1, SettlingTxnSettles
<1>7. CASE LeaveRound(w)
  BY <1>7 DEF LeaveRound, SettledSound, SettledOnce, TxnSettled, Live
<1> QED
  BY <1>3, <1>4, <1>5, <1>6, <1>7 DEF Work

\* The bid gets the status, and the ledger the entry, of one settlement.
LEMMA SettleSettles ==
    ASSUME MInv, SettledSound, NEW p \in Sessions, NEW b \in DOMAIN txn[p].todo, Settle(p, b)
    PROVE  SettledSound'
<1> DEFINE t == txn[p]
           doc == t.todo[b]
           u == doc.user
           won == doc.status = "WON"
           entry == IF won THEN "PAYOUT" ELSE "REFUND"
           newUser == IF won THEN Payout(t.users[u], doc.amount)
                             ELSE Refund(t.users[u], doc.amount)
           newEntries == AddEntry(t.entries[u], entry, doc.amount)
           s == Txn(t.auction, t.rounds, [t.bids EXCEPT ![b] = doc],
                    [t.users EXCEPT ![u] = newUser], [t.entries EXCEPT ![u] = newEntries],
                    [c \in DOMAIN t.todo \ {b} |-> t.todo[c]])
           B == Overlay(t.bids, bids)
           C == Overlay(s.bids, bids)
<1>1. /\ Live(p) /\ TxnSettled(t) /\ TxnSound(t, p) /\ IsTransaction(t)
      /\ txn' = [txn EXCEPT ![p] = s] /\ UNCHANGED <<bids, users, ledger>>
      /\ IsPartial(bids, Requests, Bid)
  BY LiveTxn DEF Settle, Live, SettledSound, MInv, IInv, TypeOK
<1>2. /\ b \in DOMAIN t.bids /\ t.bids[b].status = "ACTIVE" /\ t.bids[b].user = u
      /\ u \in DOMAIN t.users /\ DOMAIN t.entries = DOMAIN t.users
      /\ doc.status # "ACTIVE"
  BY <1>1 DEF TxnSound, TodoIsActive
<1>3. /\ doc \in Bid /\ doc.amount \in Nat /\ u \in Users /\ ledger[u] \in Ledger
      /\ t.entries[u] \in Ledger /\ IsPartial(t.bids, Requests, Bid)
  BY <1>1, <1>2 DEF IsTransaction, IsPartial, Bid, MInv, IInv, TypeOK
<1>4. /\ s.bids = [t.bids EXCEPT ![b] = doc]
      /\ DOMAIN s.users = DOMAIN t.users
      /\ s.entries = [t.entries EXCEPT ![u] = newEntries]
  BY DEF Txn
<1>5. /\ b \in DOMAIN B /\ B[b] = t.bids[b] /\ C = [B EXCEPT ![b] = doc]
      /\ IsPartial(B, Requests, Bid)
  <2>1. IsPartial(B, Requests, Bid)
    BY <1>1, <1>3, FiniteCollections
  <2> HIDE DEF t, doc, s
  <2> QED
    BY <1>2, <1>4, <2>1 DEF Overlay
<1> DEFINE old == EntriesAdded(ledger[u], t.entries[u])
           new == EntriesAdded(ledger[u], newEntries)
<1>6. Settled(C, new, u)
  <2>1. Settled(B, old, u)
    BY <1>1, <1>2 DEF TxnSettled
  <2>2. /\ new["PAYOUT"] = old["PAYOUT"] + IF won THEN doc.amount ELSE 0
        /\ new["REFUND"] = old["REFUND"] + IF won THEN 0 ELSE doc.amount
    BY <1>3 DEF EntriesAdded, AddEntry, Ledger, LedgerType
  <2>3. doc.status \in {"WON", "REFUNDED"}
    BY <1>2, <1>3 DEF Bid
  <2> HIDE DEF t, doc, B, C, new, old
  <2>4. /\ AmountOf("WON", u, C) = AmountOf("WON", u, B) + IF won THEN doc.amount ELSE 0
        /\ AmountOf("WON", u, B) \in Nat
    BY <1>2, <1>3, <1>5, AmountAdds
  <2>5. /\ AmountOf("REFUNDED", u, C) =
             AmountOf("REFUNDED", u, B) + IF doc.status = "REFUNDED" THEN doc.amount ELSE 0
        /\ AmountOf("REFUNDED", u, B) \in Nat
    BY <1>2, <1>3, <1>5, AmountAdds
  <2> QED
    BY <1>3, <2>1, <2>2, <2>3, <2>4, <2>5 DEF Settled
<1>7. ASSUME NEW v \in DOMAIN s.users
      PROVE  Settled(C, EntriesAdded(ledger[v], s.entries[v]), v)
  <2>1. CASE v = u
    BY <1>2, <1>4, <1>6, <2>1
  <2>2. CASE v # u
    <3>1. v \in DOMAIN t.users /\ s.entries[v] = t.entries[v]
      BY <1>2, <1>4, <1>7, <2>2
    <3>2. Settled(B, EntriesAdded(ledger[v], s.entries[v]), v)
      BY <1>1, <3>1 DEF TxnSettled
    <3>3. /\ DOMAIN C = DOMAIN B /\ B[b].user = u /\ C[b].user = u
          /\ \A c \in DOMAIN B : c # b => C[c] = B[c]
      BY <1>2, <1>5
    <3> HIDE DEF B, C, s
    <3>4. \A c : (c \in DOMAIN B /\ B[c].user = v /\ B[c].status # "ACTIVE")
                   <=> (c \in DOMAIN C /\ C[c].user = v /\ C[c].status # "ACTIVE")
      BY <2>2, <3>3
    <3>5. \A c \in DOMAIN B : B[c].user = v /\ B[c].status # "ACTIVE"
            => C[c].status = B[c].status /\ C[c].amount = B[c].amount
      BY <2>2, <3>3
    <3> QED
      BY <1>5, <3>2, <3>4, <3>5, SettledSame
  <2> QED
    BY <2>1, <2>2
<1>8. TxnSettled(s)
  BY <1>7 DEF TxnSettled
<1> QED
  <2> HIDE DEF s
  <2> QED BY <1>1, <1>8, OnlyTxnSettles

\* The bids of a user whose balances a commit leaves alone keep what counts.
LEMMA CommitKeeps ==
    ASSUME MInv, NEW p \in Sessions, Commit(p), NEW u \in Users, u \notin DOMAIN txn[p].users
    PROVE  /\ \A b : (b \in DOMAIN bids /\ bids[b].user = u)
                       <=> (b \in DOMAIN bids' /\ bids'[b].user = u)
           /\ \A b \in DOMAIN bids : bids[b].user = u =>
                 bids'[b].status = bids[b].status /\ bids'[b].amount = bids[b].amount
           /\ ledger'[u] = ledger[u]
<1> DEFINE t == txn[p]
<1>1. TxnSound(t, p)
  BY LiveTxn DEF Commit, Live
<1>2. \A b \in DOMAIN t.bids : /\ b \in DOMAIN bids => t.bids[b].user = bids[b].user
                               /\ t.bids[b].user = u => /\ b \in DOMAIN bids
                                                        /\ t.bids[b].status = bids[b].status
                                                        /\ t.bids[b].amount = bids[b].amount
  BY <1>1 DEF TxnSound, WritesBidsOfItsUsers
<1>3. /\ DOMAIN bids' = DOMAIN t.bids \cup DOMAIN bids
      /\ \A b \in DOMAIN bids' : bids'[b] = IF b \in DOMAIN t.bids THEN t.bids[b] ELSE bids[b]
  BY DEF Commit, Overlay
<1>4. ledger'[u] = ledger[u]
  BY <1>1 DEF Commit, TxnSound
<1> HIDE DEF t
<1> QED
  BY <1>2, <1>3, <1>4

LEMMA CommitSettles ==
    ASSUME MInv, SettledSound, NEW p \in Sessions, Commit(p)
    PROVE  SettledSound'
<1> DEFINE t == txn[p]
<1>0. Live(p) /\ IsPartial(bids, Requests, Bid)
  BY DEF Commit, Live, MInv, IInv, TypeOK
<1>1. TxnSettled(t) /\ TxnSound(t, p)
  BY <1>0, LiveTxn DEF SettledSound
<1>2. ASSUME NEW u \in Users PROVE Settled(bids', ledger'[u], u)
  <2>1. CASE u \in DOMAIN t.users
    <3>1. bids' = Overlay(t.bids, bids) /\ ledger'[u] = EntriesAdded(ledger[u], t.entries[u])
      BY <1>1, <2>1 DEF Commit, TxnSound
    <3> QED
      BY <1>1, <2>1, <3>1 DEF TxnSettled
  <2>2. CASE u \notin DOMAIN t.users
    <3>1. Settled(bids, ledger'[u], u)
      BY <2>2, CommitKeeps DEF SettledSound, SettledOnce
    <3>2. /\ \A b : (b \in DOMAIN bids /\ bids[b].user = u /\ bids[b].status # "ACTIVE")
                      <=> (b \in DOMAIN bids' /\ bids'[b].user = u /\ bids'[b].status # "ACTIVE")
          /\ \A b \in DOMAIN bids : bids[b].user = u /\ bids[b].status # "ACTIVE"
                => bids'[b].status = bids[b].status /\ bids'[b].amount = bids[b].amount
      <4> HIDE DEF t
      <4> QED BY <2>2, CommitKeeps DEF t
    <3> QED
      BY <1>0, <3>1, <3>2, SettledSame
  <2> QED
    BY <2>1, <2>2
<1>3. ASSUME NEW o \in Sessions, Live(o)'
      PROVE  TxnSettled(txn[o])'
  <2> DEFINE s == txn[o]
             B == Overlay(s.bids, bids)
             C == Overlay(s.bids, bids')
  <2>1. txn'[o] = s /\ Live(o) /\ ~ Overlap(t, s)
    BY <1>3, Survivors
  <2>2. /\ TxnSettled(s) /\ DOMAIN s.users \subseteq Users /\ TxnSound(s, o)
        /\ IsPartial(s.bids, Requests, Bid)
    BY <2>1, LiveTxn DEF SettledSound, IsTransaction
  <2>3. DOMAIN t.users \cap DOMAIN s.users = {}
    BY <2>1 DEF Overlap
  <2> HIDE DEF s, t
  <2>4. ASSUME NEW u \in DOMAIN s.users
        PROVE  Settled(C, EntriesAdded(ledger'[u], s.entries[u]), u)
    <3>1. u \in Users /\ u \notin DOMAIN t.users
      BY <2>2, <2>3, <2>4
    <3>2. /\ \A b : (b \in DOMAIN bids /\ bids[b].user = u)
                      <=> (b \in DOMAIN bids' /\ bids'[b].user = u)
          /\ \A b \in DOMAIN bids : bids[b].user = u =>
                bids'[b].status = bids[b].status /\ bids'[b].amount = bids[b].amount
          /\ ledger'[u] = ledger[u]
      BY <3>1, CommitKeeps DEF t
    <3>3. Settled(B, EntriesAdded(ledger'[u], s.entries[u]), u)
      BY <2>2, <2>4, <3>2 DEF TxnSettled
    <3>4. /\ DOMAIN B = DOMAIN s.bids \cup DOMAIN bids
          /\ DOMAIN C = DOMAIN s.bids \cup DOMAIN bids'
          /\ \A b \in DOMAIN B : B[b] = IF b \in DOMAIN s.bids THEN s.bids[b] ELSE bids[b]
          /\ \A b \in DOMAIN C : C[b] = IF b \in DOMAIN s.bids THEN s.bids[b] ELSE bids'[b]
      BY DEF Overlay
    <3>5. IsPartial(B, Requests, Bid)
      BY <1>0, <2>2, FiniteCollections
    <3> HIDE DEF B, C
    <3>6. \A b : (b \in DOMAIN B /\ B[b].user = u /\ B[b].status # "ACTIVE")
                   <=> (b \in DOMAIN C /\ C[b].user = u /\ C[b].status # "ACTIVE")
      BY <3>2, <3>4
    <3>7. \A b \in DOMAIN B : B[b].user = u /\ B[b].status # "ACTIVE"
             => C[b].status = B[b].status /\ C[b].amount = B[b].amount
      BY <3>2, <3>4
    <3> QED
      BY <3>3, <3>5, <3>6, <3>7, SettledSame
  <2> QED
    BY <2>1, <2>4 DEF TxnSettled, s
<1> QED
  BY <1>2, <1>3 DEF SettledSound, SettledOnce

LEMMA StepSettled == MInv /\ SettledSound /\ [Next]_vars => SettledSound'
<1> SUFFICES ASSUME MInv, SettledSound, [Next]_vars PROVE SettledSound'
  OBVIOUS
<1>1. CASE \E q \in Requests : PlaceBid(q)
  BY <1>1, PlaceBidSettles
<1>2. CASE \E w \in Workers : Work(w)
  BY <1>2, WorkSettles
<1>3. CASE \E p \in Sessions : \E b \in DOMAIN txn[p].todo : Settle(p, b)
  BY <1>3, SettleSettles
<1>4. CASE \E p \in Sessions : Commit(p)
  BY <1>4, CommitSettles
<1>5. CASE \E p \in Sessions : \E retry \in BOOLEAN : Abort(p, retry)
  <2>1. ~ NoTxn.open
    BY DEF NoTxn
  <2> QED
    BY <1>5, <2>1, OnlyTxnSettles DEF Abort, db
<1>6. CASE UNCHANGED vars
  BY <1>6 DEF vars, SettledSound, SettledOnce, TxnSettled, Live
<1> QED
  BY <1>1, <1>2, <1>3, <1>4, <1>5, <1>6 DEF Next

LEMMA InitSettled == Init => SettledSound
<1> SUFFICES ASSUME Init PROVE SettledSound
  OBVIOUS
<1>1. \A u, status : AmountOf(status, u, bids) = 0
  <2> SUFFICES ASSUME NEW u, NEW status PROVE AmountOf(status, u, bids) = 0
    OBVIOUS
  <2>1. {b \in DOMAIN bids : bids[b].user = u /\ bids[b].status = status} = {}
    BY DEF Init, NoWrites
  <2> QED
    BY <2>1, SumEmpty DEF AmountOf
<1>2. \A u \in Users : ledger[u]["PAYOUT"] = 0 /\ ledger[u]["REFUND"] = 0
  BY DEF Init, AddEntry, NoEntries, LedgerType
<1>3. \A p \in Sessions : ~ Live(p)
  BY DEF Init, Live, NoTxn
<1> QED
  BY <1>1, <1>2, <1>3 DEF SettledSound, SettledOnce, Settled

(* Every won bid has been paid out once and every refunded bid refunded    *)
(* once, at its last amount, for any number of users, requests and workers *)
(* and whatever their transactions conflict over (closeCurrentRound,       *)
(* finalizeAuction, placeBid, payout, refund).                             *)
THEOREM BidsSettledOnce == Spec => []SettledOnce
<1>1. SettledSound => SettledOnce
  BY DEF SettledSound
<1> QED
  BY <1>1, InitSettled, StepSettled, AlwaysMInv, PTL DEF Spec

-----------------------------------------------------------------------------
(* The rounds, and who is allowed to change them.                          *)

Cur == auction.currentRound

CurrentRoundClosed == Cur \in DOMAIN rounds /\ rounds[Cur].closed

\* The workers the closed current round belongs to: there is at most one.
Holders == {w \in Workers : worker[w] \in {"closed", "advancing", "finalizing"}}

InTransaction == {"starting", "closing", "advancing", "finalizing", "directFinalizing"}

\* Rounds are created in order, and all but the current one are closed.
RoundsInOrder ==
    /\ auction.status = "CREATED" =>
          /\ Cur = 0 /\ DOMAIN rounds = {}
          /\ \A w \in Workers : worker[w] \in {"idle", "starting"}
    /\ auction.status # "CREATED" =>
          /\ DOMAIN rounds = 0 .. Cur
          /\ \A i \in DOMAIN rounds : i # Cur => rounds[i].closed
    /\ auction.status = "COMPLETED" => CurrentRoundClosed
    /\ Running => \A v, w \in Holders : v = w /\ CurrentRoundClosed

\* An open round has gifts to give.
GiftsLeft ==
    /\ Awarded(DOMAIN rounds) <= TotalGifts
    /\ Running /\ CurrentRoundOpen => ~ AllGiftsAwarded

\* t closes the current round, within the gifts that are left.
ClosingSound(t) ==
    /\ CurrentRoundOpen
    /\ DOMAIN t.rounds = {Cur}
    /\ t.rounds[Cur].closed
    /\ Awarded(DOMAIN rounds) + t.rounds[Cur].winnersCount <= TotalGifts

(* What the snapshot of a transaction of each kind still says of the       *)
(* database, and what it writes.                                           *)
StartSound(t) ==
    /\ auction.status = "CREATED"
    /\ t.auction = {[status |-> "RUNNING", currentRound |-> 0]}
    /\ t.rounds = Only(0, OpenRound)

CloseSound(t) == Running /\ t.auction = {} /\ ClosingSound(t)

AdvanceSound(t) ==
    /\ Running
    /\ ~ AllGiftsAwarded
    /\ Cur + 1 < TotalRounds
    /\ t.auction = {[status |-> "RUNNING", currentRound |-> Cur + 1]}
    /\ t.rounds = Only(Cur + 1, OpenRound)

FinalizeSound(t) ==
    /\ Running
    /\ IsLastRound \/ AllGiftsAwarded
    /\ t.auction = {[status |-> "COMPLETED", currentRound |-> Cur]}
    /\ t.rounds = NoWrites

DirectSound(t) ==
    /\ Running
    /\ IsLastRound
    /\ t.auction = {[status |-> "COMPLETED", currentRound |-> Cur]}
    /\ ClosingSound(t) \/ (CurrentRoundClosed /\ t.rounds = NoWrites)

KindSound(pc, t) ==
    /\ pc = "starting" => StartSound(t)
    /\ pc = "closing" => CloseSound(t)
    /\ pc = "advancing" => AdvanceSound(t)
    /\ pc = "finalizing" => FinalizeSound(t)
    /\ pc = "directFinalizing" => DirectSound(t)

WorkersSound ==
    \A w \in Workers :
        /\ txn[w].open <=> worker[w] \in InTransaction
        /\ Live(w) => KindSound(worker[w], txn[w])

WritesNoRound(t) == t.auction = {} /\ t.rounds = NoWrites

LifeSound ==
    /\ RoundsInOrder
    /\ GiftsLeft
    /\ WorkersSound
    /\ \A q \in Requests : txn[q].open => WritesNoRound(txn[q])

Given(collection) ==
    SumFunctionOnSet([i \in DOMAIN collection |-> collection[i].winnersCount],
                     {i \in DOMAIN collection : collection[i].closed})

LEMMA AwardedIsGiven ==
    /\ Awarded(DOMAIN rounds) = Given(rounds)
    /\ Awarded(DOMAIN rounds)' = Given(rounds')
BY DEF Awarded, Given

\* What the types say of rounds.
LEMMA RoundTypes ==
    ASSUME MInv
    PROVE  /\ Cur \in Nat /\ Cur \in RoundIndex /\ Cur < TotalRounds
           /\ TotalRounds \in Nat /\ TotalGifts \in Nat \ {0}
           /\ auction = [status |-> auction.status, currentRound |-> Cur]
           /\ auction.status \in {"CREATED", "RUNNING", "COMPLETED"}
           /\ DOMAIN rounds \subseteq RoundIndex /\ IsFiniteSet(DOMAIN rounds)
           /\ \A i \in DOMAIN rounds : /\ rounds[i].winnersCount \in Nat
                                       /\ rounds[i].closed \in BOOLEAN
           /\ IsPartial(rounds, RoundIndex, Round)
<1>1. auction \in Auction /\ IsPartial(rounds, RoundIndex, Round)
  BY DEF MInv, IInv, TypeOK
<1>2. IsFiniteSet(RoundIndex) /\ RoundIndex \subseteq Nat
  BY ParametersAssumption, FS_Interval DEF RoundIndex
<1>3. IsFiniteSet(DOMAIN rounds)
  BY <1>1, <1>2, FS_Subset DEF IsPartial
<1> QED
  BY <1>1, <1>2, <1>3, ParametersAssumption DEF Auction, Cur, IsPartial, Round, RoundIndex

LEMMA AwardedType == ASSUME MInv PROVE Awarded(DOMAIN rounds) \in Nat
<1> DEFINE f == [i \in DOMAIN rounds |-> rounds[i].winnersCount]
           S == {i \in DOMAIN rounds : rounds[i].closed}
<1>1. IsFiniteSet(S) /\ \A i \in S : f[i] \in Nat
  BY RoundTypes, FS_Subset
<1> HIDE DEF f, S
<1>2. SumFunctionOnSet(f, S) \in Nat
  BY <1>1, SumType
<1> QED
  BY <1>2 DEF Awarded, f, S

\* A round is written that has not given anything before.
LEMMA GivenAdds ==
    ASSUME NEW R, IsFiniteSet(DOMAIN R), \A j \in DOMAIN R : R[j].winnersCount \in Nat,
           NEW i, NEW round, round.winnersCount \in Nat, i \in DOMAIN R => ~ R[i].closed
    PROVE  Given(Overlay(Only(i, round), R)) =
              Given(R) + IF round.closed THEN round.winnersCount ELSE 0
<1> DEFINE C == Overlay(Only(i, round), R)
           f == [j \in DOMAIN R |-> R[j].winnersCount]
           g == [j \in DOMAIN C |-> C[j].winnersCount]
           S == {j \in DOMAIN R : R[j].closed}
           T == {j \in DOMAIN C : C[j].closed}
<1>1. /\ DOMAIN C = DOMAIN R \cup {i} /\ C[i] = round
      /\ \A j \in DOMAIN R : j # i => C[j] = R[j]
  BY DEF Overlay, Only
<1> HIDE DEF C
<1>2. IsFiniteSet(S) /\ i \notin S /\ T = IF round.closed THEN S \cup {i} ELSE S
  BY <1>1, FS_Subset
<1>3. \A j \in S : f[j] = g[j] /\ f[j] \in Nat
  BY <1>1
<1>4. g[i] = round.winnersCount /\ g[i] \in Nat
  BY <1>1
<1>5. Given(R) = SumFunctionOnSet(f, S) /\ Given(C) = SumFunctionOnSet(g, T)
  BY DEF Given
<1> HIDE DEF f, g, S, T
<1>6. SumFunctionOnSet(f, S) = SumFunctionOnSet(g, S) /\ SumFunctionOnSet(f, S) \in Nat
  BY <1>2, <1>3, SumSame, SumType
<1>7. SumFunctionOnSet(g, S \cup {i}) = g[i] + SumFunctionOnSet(g, S)
  BY <1>2, <1>3, <1>4, SumAdd
<1>8. CASE round.closed
  BY <1>2, <1>4, <1>5, <1>6, <1>7, <1>8 DEF C
<1>9. CASE ~ round.closed
  BY <1>2, <1>5, <1>6, <1>9 DEF C
<1> QED
  BY <1>8, <1>9

-----------------------------------------------------------------------------
(* Steps that leave the database alone.                                    *)

\* What a snapshot says of the rounds stays true while they stay the same.
LEMMA KindStays ==
    ASSUME UNCHANGED <<auction, rounds>>, NEW k, NEW t, KindSound(k, t)
    PROVE  KindSound(k, t)'
BY DEF KindSound, StartSound, CloseSound, AdvanceSound, FinalizeSound, DirectSound,
   ClosingSound, CurrentRoundClosed, CurrentRoundOpen, Running, AllGiftsAwarded, Awarded,
   IsLastRound, Cur

\* Nothing but the auction and the rounds it writes counts.
LEMMA KindSame ==
    ASSUME NEW k, NEW s, NEW t, s.auction = t.auction, s.rounds = t.rounds, KindSound(k, t)
    PROVE  KindSound(k, s)
BY DEF KindSound, StartSound, CloseSound, AdvanceSound, FinalizeSound, DirectSound,
   ClosingSound

LEMMA WorkersStay ==
    ASSUME UNCHANGED <<auction, rounds>>,
           \A w \in Workers : /\ txn'[w].open <=> worker'[w] \in InTransaction
                              /\ Live(w)' => KindSound(worker'[w], txn'[w])
    PROVE  WorkersSound'
<1> SUFFICES ASSUME NEW w \in Workers, Live(w)'
             PROVE  KindSound(worker[w], txn[w])'
  BY DEF WorkersSound
<1>1. PICK k, t : k = worker'[w] /\ t = txn'[w]
  OBVIOUS
<1>2. KindSound(k, t)'
  BY <1>1, KindStays
<1> QED
  BY <1>1, <1>2 DEF KindSound, StartSound, CloseSound, AdvanceSound, FinalizeSound,
     DirectSound, ClosingSound

\* A worker's step that leaves the database alone.
LEMMA WorkerLives ==
    ASSUME MInv, LifeSound, NEW w \in Workers, NEW pc \in WorkerState, NEW t,
           worker' = [worker EXCEPT ![w] = pc],
           txn' = [txn EXCEPT ![w] = t] \/ (txn' = txn /\ t = txn[w]),
           UNCHANGED <<auction, rounds>>,
           t.open <=> pc \in InTransaction,
           t.open /\ ~ t.doomed => KindSound(pc, t),
           pc \in {"closed", "advancing", "finalizing"} => w \in Holders,
           auction.status = "CREATED" => pc \in {"idle", "starting"}
    PROVE  LifeSound'
<1>1. /\ worker'[w] = pc /\ \A v \in Workers : v # w => worker'[v] = worker[v]
      /\ txn'[w] = t /\ \A p \in Sessions : p # w => txn'[p] = txn[p]
  BY DEF MInv, IInv, TypeOK, Sessions
<1>2. Holders' \subseteq Holders
  BY <1>1 DEF Holders
<1>3. RoundsInOrder'
  BY <1>1, <1>2 DEF LifeSound, RoundsInOrder, CurrentRoundClosed, Running, Cur
<1>4. GiftsLeft'
  BY DEF LifeSound, GiftsLeft, Awarded, Running, CurrentRoundOpen, AllGiftsAwarded
<1>7. WorkersSound'
  BY <1>1, WorkersStay DEF LifeSound, WorkersSound, Sessions, Live
<1>8. ASSUME NEW q \in Requests PROVE (txn[q].open => WritesNoRound(txn[q]))'
  BY <1>1, SessionsAssumption DEF LifeSound, Sessions, WritesNoRound
<1> QED
  BY <1>3, <1>4, <1>7, <1>8 DEF LifeSound

\* A bid request's step that leaves the database alone.
LEMMA RequestLives ==
    ASSUME MInv, LifeSound, NEW q \in Requests, NEW t, txn' = [txn EXCEPT ![q] = t],
           UNCHANGED <<auction, rounds, worker>>, t.open => WritesNoRound(t)
    PROVE  LifeSound'
<1>1. /\ txn'[q] = t /\ \A p \in Sessions : p # q => txn'[p] = txn[p]
      /\ q \notin Workers
  BY SessionsAssumption DEF MInv, IInv, TypeOK, Sessions
<1>2. \A w \in Workers : txn'[w] = txn[w]
  BY <1>1 DEF Sessions
<1>3. RoundsInOrder'
  BY DEF LifeSound, RoundsInOrder, CurrentRoundClosed, Running, Cur, Holders
<1>4. GiftsLeft'
  BY DEF LifeSound, GiftsLeft, Awarded, Running, CurrentRoundOpen, AllGiftsAwarded
<1>5. WorkersSound'
  BY <1>2, WorkersStay DEF LifeSound, WorkersSound, Live
<1>6. ASSUME NEW o \in Requests PROVE (txn[o].open => WritesNoRound(txn[o]))'
  BY <1>1 DEF LifeSound, Sessions, WritesNoRound
<1> QED
  BY <1>3, <1>4, <1>5, <1>6 DEF LifeSound

\* No transaction at all changes.
LEMMA NothingLives ==
    ASSUME LifeSound, UNCHANGED <<auction, rounds, txn, worker>>
    PROVE  LifeSound'
<1>1. WorkersSound'
  BY WorkersStay DEF LifeSound, WorkersSound, Live
<1> QED
  BY <1>1 DEF LifeSound, RoundsInOrder, GiftsLeft, CurrentRoundClosed, CurrentRoundOpen,
     Running, AllGiftsAwarded, Awarded, Cur, Holders, WritesNoRound

LEMMA PlaceBidLives ==
    ASSUME MInv, LifeSound, NEW q \in Requests, PlaceBid(q)
    PROVE  LifeSound'
<1>1. ASSUME NEW bid, NEW b, NEW delta, BeginBidTxn(q, bid, b, delta)
      PROVE  LifeSound'
  <2> DEFINE u == request[q].user
             t == Txn({}, NoWrites, Only(b, bid), Only(u, LockFunds(users[u], delta)),
                      Only(u, AddEntry(NoEntries, "LOCK", delta)), NoWrites)
  <2>1. txn' = [txn EXCEPT ![q] = t] /\ UNCHANGED <<auction, rounds, worker>>
    BY <1>1 DEF BeginBidTxn
  <2>2. WritesNoRound(t)
    BY DEF Txn, WritesNoRound
  <2> HIDE DEF t
  <2> QED
    BY <2>1, <2>2, RequestLives
<1>2. CASE \E u \in Users, amount \in Amounts : ReadAuction(q, u, amount)
  BY <1>2, NothingLives DEF ReadAuction
<1>3. CASE \E b \in DOMAIN bids : RaiseBid(q, b)
  BY <1>1, <1>3 DEF RaiseBid
<1>4. CASE CreateBid(q)
  BY <1>1, <1>4 DEF CreateBid
<1>5. CASE RejectBid(q)
  BY <1>5, NothingLives DEF RejectBid
<1> QED
  BY <1>2, <1>3, <1>4, <1>5 DEF PlaceBid

\* The winners of an open round are no more than the gifts left.
LEMMA WinnersFit ==
    ASSUME MInv, LifeSound, Running, CurrentRoundOpen, NEW W,
           \/ GiftsPerRound = 0 /\ W = {}
           \/ (GiftsPerRound # 0 \/ IsLastRound) /\ W \in TopBids(GiftsPerRound)
    PROVE  Cardinality(W) \in Nat /\ Awarded(DOMAIN rounds) + Cardinality(W) <= TotalGifts
<1> DEFINE total == Awarded(DOMAIN rounds)
           remaining == TotalGifts - total
<1>1. total \in Nat /\ total < TotalGifts /\ TotalGifts \in Nat
  BY AwardedType, RoundTypes DEF LifeSound, GiftsLeft, AllGiftsAwarded
<1>2. AlreadyAwarded = total
  <2> DEFINE R == {i \in DOMAIN rounds : i < Cur}
             f == [i \in DOMAIN rounds |-> rounds[i].winnersCount]
             g == [i \in R |-> rounds[i].winnersCount]
             S == {i \in DOMAIN rounds : rounds[i].closed}
  <2>1. DOMAIN rounds = 0 .. Cur /\ Cur \in Nat /\ Cur \notin S
    BY RoundTypes DEF LifeSound, RoundsInOrder, Running, CurrentRoundOpen, Cur
  <2>2. {i \in R : rounds[i].closed} = S
    BY <2>1
  <2>3. IsFiniteSet(S) /\ \A i \in S : f[i] = g[i]
    BY <2>2, RoundTypes, FS_Subset
  <2>4. total = SumFunctionOnSet(f, S)
    BY DEF Awarded
  <2>5. AlreadyAwarded = SumFunctionOnSet(g, S)
    BY <2>2 DEF AlreadyAwarded, Awarded, Cur
  <2> HIDE DEF f, g, S
  <2> QED
    BY <2>3, <2>4, <2>5, SumSame
<1> HIDE DEF total
<1>3. Max({0, TotalGifts - AlreadyAwarded}) = remaining
  BY <1>1, <1>2 DEF Max
<1>4. GiftsPerRound \in Int /\ GiftsPerRound <= remaining /\ (IsLastRound => GiftsPerRound # 0)
  <2>1. CASE IsLastRound
    BY <1>1, <1>3, <2>1 DEF GiftsPerRound
  <2>2. CASE ~ IsLastRound
    <3>1. CeilDiv(TotalGifts, TotalRounds) \in Int
      BY ParametersAssumption DEF CeilDiv
    <3>2. GiftsPerRound = Min({CeilDiv(TotalGifts, TotalRounds), remaining})
      BY <1>3, <2>2 DEF GiftsPerRound
    <3> QED
      BY <1>1, <2>2, <3>1, <3>2 DEF Min
  <2> QED
    BY <2>1, <2>2
<1>5. CASE W = {}
  BY <1>1, <1>5, FS_EmptySet DEF total
<1>6. CASE GiftsPerRound # 0 /\ W \in TopBids(GiftsPerRound)
  <2>1. W \subseteq ActiveBids /\ Cardinality(W) = Limited(Cardinality(ActiveBids), GiftsPerRound)
    BY <1>6 DEF TopBids
  <2>2. IsFiniteSet(ActiveBids) /\ IsFiniteSet(W)
    BY <2>1, RequestsAssumption, FS_Subset DEF ActiveBids, MInv, IInv, TypeOK, IsPartial
  <2>3. Cardinality(ActiveBids) \in Nat /\ Cardinality(W) \in Nat
    BY <2>2, FS_CardinalityType
  <2>4. Cardinality(W) <= GiftsPerRound
    BY <1>4, <1>6, <2>1, <2>3 DEF Limited, Min
  <2> QED
    BY <1>1, <1>4, <2>3, <2>4 DEF total
<1> QED
  BY <1>4, <1>5, <1>6

\* A worker that begins a transaction of kind pc.
LEMMA BeginLives ==
    ASSUME MInv, LifeSound, NEW w \in Workers, NEW pc \in InTransaction, NEW t,
           BeginWorkerTxn(w, pc, t), t.open, KindSound(pc, t),
           pc \in {"advancing", "finalizing"} => w \in Holders,
           auction.status = "CREATED" => pc = "starting"
    PROVE  LifeSound'
<1>1. pc \in WorkerState /\ pc # "closed" /\ pc # "idle"
  BY DEF InTransaction, WorkerState
<1> QED
  BY <1>1, WorkerLives DEF BeginWorkerTxn

LEMMA WorkLives ==
    ASSUME MInv, LifeSound, NEW w \in Workers, Work(w)
    PROVE  LifeSound'
<1>1. \A a, r, b, u, e, d : LET t == Txn(a, r, b, u, e, d)
                            IN  t.open /\ t.auction = a /\ t.rounds = r
  BY DEF Txn
<1>2. \A a, r, W, R : LET t == SettlingTxn(a, r, W, R)
                      IN  t.open /\ t.auction = a /\ t.rounds = r
  BY <1>1 DEF SettlingTxn
<1>3. \A W : /\ DOMAIN ClosedWith(W) = {Cur} /\ ClosedWith(W)[Cur].closed
             /\ ClosedWith(W)[Cur].winnersCount = Cardinality(W)
  BY DEF ClosedWith, Only, Cur
<1>4. CASE BeginStart(w)
  <2> DEFINE t == Txn({[status |-> "RUNNING", currentRound |-> 0]}, Only(0, OpenRound),
                      NoWrites, NoWrites, NoWrites, NoWrites)
  <2>1. t.open /\ KindSound("starting", t) /\ BeginWorkerTxn(w, "starting", t)
    BY <1>1, <1>4 DEF BeginStart, KindSound, StartSound
  <2> HIDE DEF t
  <2> QED
    BY <2>1, BeginLives DEF InTransaction
<1>5. CASE BeginClose(w)
  <2> PICK W \in IF GiftsPerRound = 0 THEN {{}} ELSE TopBids(GiftsPerRound) :
             BeginWorkerTxn(w, "closing", SettlingTxn({}, ClosedWith(W), W, {}))
    BY <1>5 DEF BeginClose
  <2> DEFINE t == SettlingTxn({}, ClosedWith(W), W, {})
  <2>1. Running /\ CurrentRoundOpen
    BY <1>5 DEF BeginClose
  <2>2. Awarded(DOMAIN rounds) + Cardinality(W) <= TotalGifts
    BY <2>1, WinnersFit
  <2>3. t.open /\ t.auction = {} /\ t.rounds = ClosedWith(W)
    BY <1>2
  <2> HIDE DEF t
  <2>4. KindSound("closing", t)
    BY <1>3, <2>1, <2>2, <2>3 DEF KindSound, CloseSound, ClosingSound
  <2> QED
    BY <2>1, <2>3, <2>4, BeginLives DEF InTransaction, Running, t
<1>6. CASE BeginAdvance(w)
  <2> DEFINE next == auction.currentRound + 1
             t == Txn({[auction EXCEPT !.currentRound = next]}, Only(next, OpenRound),
                      [b \in ActiveBids |-> [bids[b] EXCEPT !.roundIndex = next]],
                      NoWrites, NoWrites, NoWrites)
  <2>1. /\ worker[w] = "closed" /\ Running /\ ~ AllGiftsAwarded /\ next < TotalRounds
        /\ BeginWorkerTxn(w, "advancing", t)
    BY <1>6 DEF BeginAdvance
  <2>2. [auction EXCEPT !.currentRound = next] = [status |-> "RUNNING", currentRound |-> Cur + 1]
    BY <2>1, RoundTypes DEF Running, Cur
  <2>3. t.open /\ t.auction = {[auction EXCEPT !.currentRound = next]} /\ t.rounds = Only(next, OpenRound)
    BY <1>1
  <2> HIDE DEF t
  <2>4. KindSound("advancing", t)
    BY <2>1, <2>2, <2>3 DEF KindSound, AdvanceSound, Cur
  <2> QED
    BY <2>1, <2>3, <2>4, BeginLives DEF InTransaction, Running, Holders
<1>7. CASE BeginFinalize(w)
  <2> DEFINE settles == CurrentRoundOpen /\ IsLastRound
             Closed(W) == IF settles THEN ClosedWith(W) ELSE NoWrites
             completed == [auction EXCEPT !.status = "COMPLETED"]
  <2> PICK W \in IF settles THEN TopBids(GiftsPerRound) ELSE {{}} :
             BeginWorkerTxn(w, FinalizingState(w),
               SettlingTxn({completed}, Closed(W), W, ActiveBids \ W))
    BY <1>7 DEF BeginFinalize
  <2> DEFINE t == SettlingTxn({completed}, Closed(W), W, ActiveBids \ W)
  <2>1. Running /\ FinalizeCalled(w)
    BY <1>7 DEF BeginFinalize
  <2>2. completed = [status |-> "COMPLETED", currentRound |-> Cur]
    BY RoundTypes DEF Cur
  <2>3. t.open /\ t.auction = {completed} /\ t.rounds = Closed(W)
    BY <1>2
  <2>4. CASE worker[w] = "closed"
    <3>1. /\ FinalizingState(w) = "finalizing" /\ w \in Holders
          /\ IsLastRound \/ AllGiftsAwarded
      BY <2>1, <2>4 DEF FinalizingState, FinalizeCalled, Holders
    <3>2. CurrentRoundClosed /\ ~ settles
      BY <2>1, <3>1 DEF LifeSound, RoundsInOrder, CurrentRoundClosed, CurrentRoundOpen, Cur
    <3> HIDE DEF t
    <3>3. KindSound("finalizing", t)
      BY <2>1, <2>2, <2>3, <3>1, <3>2 DEF KindSound, FinalizeSound
    <3> QED
      BY <2>1, <2>3, <3>1, <3>3, BeginLives DEF InTransaction, Running, t
  <2>5. CASE worker[w] # "closed"
    <3>1. FinalizingState(w) = "directFinalizing" /\ IsLastRound
      BY <2>1, <2>5 DEF FinalizingState, FinalizeCalled
    <3>2. CASE CurrentRoundOpen
      <4>1. Awarded(DOMAIN rounds) + Cardinality(W) <= TotalGifts
        BY <2>1, <3>1, <3>2, WinnersFit
      <4>2. Closed(W) = ClosedWith(W)
        BY <3>1, <3>2
      <4> HIDE DEF t, completed, Closed
      <4>3. ClosingSound(t)
        BY <1>3, <2>3, <3>2, <4>1, <4>2 DEF ClosingSound
      <4>4. KindSound("directFinalizing", t)
        BY <2>1, <2>2, <2>3, <3>1, <4>3 DEF KindSound, DirectSound
      <4> QED
        BY <2>1, <2>3, <3>1, <4>4, BeginLives DEF InTransaction, Running, t, completed, Closed
    <3>3. CASE ~ CurrentRoundOpen
      <4>1. Closed(W) = NoWrites
        BY <3>3
      <4>2. CurrentRoundClosed
        BY <2>1, <3>3, RoundTypes
           DEF LifeSound, RoundsInOrder, Running, CurrentRoundOpen, CurrentRoundClosed, Cur
      <4> HIDE DEF t
      <4>3. KindSound("directFinalizing", t)
        BY <2>1, <2>2, <2>3, <3>1, <4>1, <4>2 DEF KindSound, DirectSound
      <4> QED
        BY <2>1, <2>3, <3>1, <4>3, BeginLives DEF InTransaction, Running, t
    <3> QED
      BY <3>2, <3>3
  <2> QED
    BY <2>4, <2>5
<1>8. CASE LeaveRound(w)
  <2>1. /\ worker' = [worker EXCEPT ![w] = "idle"] /\ worker[w] = "closed"
        /\ UNCHANGED <<auction, rounds, txn>>
    BY <1>8 DEF LeaveRound
  <2>2. ~ txn[w].open
    BY <2>1 DEF LifeSound, WorkersSound, InTransaction
  <2> QED
    BY <2>1, <2>2, WorkerLives DEF InTransaction, WorkerState
<1> QED
  BY <1>4, <1>5, <1>6, <1>7, <1>8 DEF Work

LEMMA SettleLives ==
    ASSUME MInv, LifeSound, NEW p \in Sessions, NEW b \in DOMAIN txn[p].todo, Settle(p, b)
    PROVE  LifeSound'
<1>1. PICK s : /\ txn' = [txn EXCEPT ![p] = s] /\ s.open
               /\ s.auction = txn[p].auction /\ s.rounds = txn[p].rounds
  <2> DEFINE t == txn[p]
             doc == t.todo[b]
             u == doc.user
             won == doc.status = "WON"
             newUser == IF won THEN Payout(t.users[u], doc.amount)
                               ELSE Refund(t.users[u], doc.amount)
             newEntries == AddEntry(t.entries[u], IF won THEN "PAYOUT" ELSE "REFUND", doc.amount)
             s == Txn(t.auction, t.rounds, [t.bids EXCEPT ![b] = doc],
                      [t.users EXCEPT ![u] = newUser], [t.entries EXCEPT ![u] = newEntries],
                      [c \in DOMAIN t.todo \ {b} |-> t.todo[c]])
  <2>1. txn' = [txn EXCEPT ![p] = s]
    BY DEF Settle
  <2>2. s.open /\ s.auction = t.auction /\ s.rounds = t.rounds
    BY DEF Txn
  <2> HIDE DEF s
  <2> QED
    BY <2>1, <2>2
<1>2. Live(p) /\ UNCHANGED <<auction, rounds, worker>>
  BY DEF Settle, Live
<1>3. CASE p \in Requests
  BY <1>1, <1>2, <1>3, RequestLives DEF LifeSound, WritesNoRound, Live
<1>4. CASE p \in Workers
  <2> DEFINE pc == worker[p]
  <2>1. pc \in InTransaction /\ pc \in WorkerState /\ KindSound(pc, txn[p])
    BY <1>2, <1>4 DEF LifeSound, WorkersSound, Live, MInv, IInv, TypeOK
  <2>2. worker' = [worker EXCEPT ![p] = pc]
    BY <1>2, <1>4 DEF MInv, IInv, TypeOK
  <2>3. pc \in {"closed", "advancing", "finalizing"} => p \in Holders
    BY <1>4 DEF Holders
  <2>4. auction.status = "CREATED" => pc \in {"idle", "starting"}
    BY <1>4 DEF LifeSound, RoundsInOrder
  <2> HIDE DEF pc
  <2>5. KindSound(pc, s)
    BY <1>1, <2>1, KindSame
  <2> QED
    BY <1>1, <1>2, <1>4, <2>1, <2>2, <2>3, <2>4, <2>5, WorkerLives
<1> QED
  BY <1>3, <1>4 DEF Sessions

LEMMA AbortLives ==
    ASSUME MInv, LifeSound, NEW p \in Sessions, NEW retry \in BOOLEAN, Abort(p, retry)
    PROVE  LifeSound'
<1>1. ~ NoTxn.open /\ UNCHANGED <<auction, rounds>> /\ txn' = [txn EXCEPT ![p] = NoTxn]
  BY DEF NoTxn, Abort, db
<1>2. CASE p \in Requests
  BY <1>1, <1>2, SessionsAssumption, RequestLives DEF Abort
<1>3. CASE p \in Workers
  <2> DEFINE pc == IF retry /\ worker[p] \in {"advancing", "finalizing"} THEN "closed" ELSE "idle"
  <2>1. worker' = [worker EXCEPT ![p] = pc]
    BY <1>3 DEF Abort
  <2>2. /\ pc \in WorkerState /\ pc \notin InTransaction
        /\ pc \in {"closed", "advancing", "finalizing"} => p \in Holders
        /\ auction.status = "CREATED" => pc \in {"idle", "starting"}
    BY <1>3 DEF WorkerState, InTransaction, Holders, LifeSound, RoundsInOrder
  <2> HIDE DEF pc
  <2> QED
    BY <1>1, <1>3, <2>1, <2>2, WorkerLives
<1> QED
  BY <1>2, <1>3 DEF Sessions

-----------------------------------------------------------------------------
(* Commits.                                                                *)

\* Of two live transactions of workers, only one can commit: both write the
\* auction document or both close the current round.
LEMMA WorkersOverlap ==
    ASSUME MInv, LifeSound, NEW v \in Workers, NEW w \in Workers, v # w, Live(v), Live(w)
    PROVE  Overlap(txn[v], txn[w])
<1>1. /\ worker[v] \in InTransaction /\ KindSound(worker[v], txn[v])
      /\ worker[w] \in InTransaction /\ KindSound(worker[w], txn[w])
  BY DEF LifeSound, WorkersSound, Live
<1>2. ASSUME NEW u \in Workers, worker[u] \in InTransaction, KindSound(worker[u], txn[u])
      PROVE  /\ worker[u] = "closing" => txn[u].auction = {} /\ ClosingSound(txn[u])
             /\ worker[u] # "closing" => txn[u].auction # {}
             /\ worker[u] = "starting" => auction.status = "CREATED"
             /\ worker[u] # "starting" => Running
             /\ worker[u] \in {"advancing", "finalizing"} => CurrentRoundClosed
             /\ worker[u] = "directFinalizing" => ClosingSound(txn[u]) \/ CurrentRoundClosed
  <2>1. worker[u] \in {"advancing", "finalizing"} => u \in Holders /\ Running
    BY <1>2 DEF Holders, KindSound, AdvanceSound, FinalizeSound
  <2>2. worker[u] \in {"advancing", "finalizing"} => CurrentRoundClosed
    BY <2>1 DEF LifeSound, RoundsInOrder
  <2> QED
    BY <1>2, <2>2 DEF InTransaction, KindSound, StartSound, CloseSound, AdvanceSound,
       FinalizeSound, DirectSound
<1>3. CASE worker[v] # "closing" /\ worker[w] # "closing"
  BY <1>1, <1>2, <1>3 DEF Overlap
<1>4. CASE worker[v] = "closing" \/ worker[w] = "closing"
  <2>1. ClosingSound(txn[v]) /\ ClosingSound(txn[w])
    BY <1>1, <1>2, <1>4
       DEF InTransaction, ClosingSound, CurrentRoundOpen, CurrentRoundClosed, Cur, Running
  <2> QED
    BY <2>1 DEF ClosingSound, Overlap
<1> QED
  BY <1>3, <1>4

\* After a worker's commit no worker has a live transaction.
LEMMA WorkerCommits ==
    ASSUME MInv, LifeSound, NEW p \in Workers, Commit(p)
    PROVE  /\ worker[p] \in InTransaction /\ KindSound(worker[p], txn[p])
           /\ worker'[p] = IF worker[p] = "closing" THEN "closed" ELSE "idle"
           /\ \A w \in Workers : w # p => worker'[w] = worker[w]
           /\ WorkersSound'
           /\ \A q \in Requests : (txn[q].open => WritesNoRound(txn[q]))'
<1>1. p \in Sessions /\ Live(p)
  BY DEF Sessions, Commit, Live
<1>2. worker[p] \in InTransaction /\ KindSound(worker[p], txn[p])
  BY <1>1 DEF LifeSound, WorkersSound, Live
<1>3. /\ worker'[p] = IF worker[p] = "closing" THEN "closed" ELSE "idle"
      /\ \A w \in Workers : w # p => worker'[w] = worker[w]
  BY DEF Commit, AfterCommit, MInv, IInv, TypeOK
<1>4. \A o \in Sessions : txn'[o] = CASE o = p -> NoTxn
                             [] o # p /\ txn[o].open /\ Overlap(txn[p], txn[o]) -> DoomedTxn
                             [] OTHER -> txn[o]
  BY DEF Commit
<1>5. \A o \in Sessions : txn'[o].open <=> o # p /\ txn[o].open
  BY <1>4 DEF NoTxn, DoomedTxn
<1>6. ASSUME NEW w \in Workers PROVE ~ Live(w)'
  <2> SUFFICES ASSUME Live(w)' PROVE FALSE
    OBVIOUS
  <2>1. w # p /\ Live(w) /\ ~ Overlap(txn[p], txn[w])
    BY <1>1, Survivors DEF Sessions
  <2> QED
    BY <1>1, <2>1, WorkersOverlap
<1>7. WorkersSound'
  BY <1>3, <1>5, <1>6 DEF LifeSound, WorkersSound, Sessions, InTransaction
<1>8. ASSUME NEW q \in Requests PROVE (txn[q].open => WritesNoRound(txn[q]))'
  BY <1>4 DEF LifeSound, WritesNoRound, Sessions, DoomedTxn, NoTxn
<1> QED
  BY <1>2, <1>3, <1>7, <1>8

LEMMA RequestCommits ==
    ASSUME MInv, LifeSound, NEW p \in Requests, Commit(p)
    PROVE  LifeSound' /\ UNCHANGED <<auction, rounds>>
<1>1. WritesNoRound(txn[p]) /\ p \notin Workers /\ p \in Sessions
  BY SessionsAssumption DEF Commit, LifeSound, Sessions
<1>2. UNCHANGED <<auction, rounds, worker>>
  BY <1>1 DEF Commit, AfterCommit, WritesNoRound, Overlay, NoWrites, MInv, IInv, TypeOK, IsPartial
<1>3. \A o \in Sessions : txn'[o] = CASE o = p -> NoTxn
                             [] o # p /\ txn[o].open /\ Overlap(txn[p], txn[o]) -> DoomedTxn
                             [] OTHER -> txn[o]
  BY DEF Commit
<1>4. \A w \in Workers : /\ txn'[w].open <=> txn[w].open
                         /\ Live(w)' => Live(w) /\ txn'[w] = txn[w]
  BY <1>1, <1>3 DEF DoomedTxn, Live, Sessions
<1>5. WorkersSound'
  BY <1>2, <1>4, WorkersStay DEF LifeSound, WorkersSound
<1>6. ASSUME NEW q \in Requests PROVE (txn[q].open => WritesNoRound(txn[q]))'
  BY <1>3 DEF LifeSound, WritesNoRound, Sessions, DoomedTxn, NoTxn
<1>7. RoundsInOrder' /\ GiftsLeft'
  BY <1>2 DEF LifeSound, RoundsInOrder, GiftsLeft, CurrentRoundClosed, CurrentRoundOpen,
     Running, AllGiftsAwarded, Awarded, Cur, Holders
<1> QED
  BY <1>2, <1>5, <1>6, <1>7 DEF LifeSound

\* The commit of a transaction that closes the current round.
LEMMA ClosingCommits ==
    ASSUME MInv, LifeSound, NEW p \in Sessions, Commit(p), ClosingSound(txn[p])
    PROVE  /\ DOMAIN rounds' = DOMAIN rounds /\ rounds'[Cur].closed
           /\ \A i \in DOMAIN rounds : i # Cur => rounds'[i] = rounds[i]
           /\ Awarded(DOMAIN rounds)' \in Awarded(DOMAIN rounds) .. TotalGifts
<1> DEFINE t == txn[p]
           round == t.rounds[Cur]
<1>1. Cur \in DOMAIN t.rounds /\ Cur \in DOMAIN rounds /\ ~ rounds[Cur].closed
  BY DEF ClosingSound, CurrentRoundOpen, Cur
<1>2. round \in Round /\ t.rounds = Only(Cur, round) /\ round.closed
  BY <1>1 DEF MInv, IInv, TypeOK, IsTransaction, IsPartial, ClosingSound, Only
<1>3. rounds' = Overlay(Only(Cur, round), rounds)
  BY <1>2 DEF Commit
<1>4. round.winnersCount \in Nat /\ Awarded(DOMAIN rounds) + round.winnersCount <= TotalGifts
  BY <1>2 DEF Round, ClosingSound
<1> HIDE DEF round
<1>5. Given(rounds') = Given(rounds) + round.winnersCount
  BY <1>1, <1>2, <1>3, <1>4, RoundTypes, GivenAdds
<1>6. DOMAIN rounds' = DOMAIN rounds /\ rounds'[Cur].closed
  BY <1>1, <1>2, <1>3 DEF Overlay, Only
<1>7. \A i \in DOMAIN rounds : i # Cur => rounds'[i] = rounds[i]
  BY <1>3 DEF Overlay, Only
<1>8. Awarded(DOMAIN rounds)' \in Awarded(DOMAIN rounds) .. TotalGifts
  BY <1>4, <1>5, AwardedIsGiven, AwardedType, RoundTypes
<1> QED
  BY <1>6, <1>7, <1>8

\* The commit of a transaction that opens round i.
LEMMA OpeningCommits ==
    ASSUME MInv, NEW p \in Sessions, Commit(p), NEW i, txn[p].rounds = Only(i, OpenRound),
           i \notin DOMAIN rounds
    PROVE  /\ DOMAIN rounds' = DOMAIN rounds \cup {i} /\ ~ rounds'[i].closed
           /\ \A j \in DOMAIN rounds : rounds'[j] = rounds[j]
           /\ Awarded(DOMAIN rounds)' = Awarded(DOMAIN rounds)
<1>1. rounds' = Overlay(Only(i, OpenRound), rounds)
  BY DEF Commit
<1>2. /\ DOMAIN rounds' = DOMAIN rounds \cup {i} /\ ~ rounds'[i].closed
      /\ \A j \in DOMAIN rounds : rounds'[j] = rounds[j]
  BY <1>1 DEF Overlay, Only, OpenRound
<1>3. OpenRound.winnersCount \in Nat /\ ~ OpenRound.closed
  BY DEF OpenRound
<1>4. Given(rounds') = Given(rounds) + IF OpenRound.closed THEN OpenRound.winnersCount ELSE 0
  BY <1>1, <1>3, RoundTypes, GivenAdds
<1>5. Given(rounds') = Given(rounds)
  BY <1>3, <1>4, AwardedIsGiven, AwardedType
<1> QED
  BY <1>2, <1>5, AwardedIsGiven

\* A worker's commit takes the auction one step through its rounds.
CommitFollows == RoundsInOrder' /\ GiftsLeft' /\ L!Next

LEMMA StartCommits ==
    ASSUME MInv, LifeSound, NEW p \in Workers, Commit(p), worker[p] = "starting"
    PROVE  CommitFollows
<1>1. StartSound(txn[p]) /\ p \in Sessions
  BY WorkerCommits DEF KindSound, Sessions
<1>2. auction.status = "CREATED" /\ Cur = 0 /\ DOMAIN rounds = {}
  BY <1>1 DEF StartSound, LifeSound, RoundsInOrder
<1>3. auction' = [status |-> "RUNNING", currentRound |-> 0]
  BY <1>1 DEF Commit, StartSound
<1>4. /\ DOMAIN rounds' = {0} /\ ~ rounds'[0].closed
      /\ Awarded(DOMAIN rounds)' = Awarded(DOMAIN rounds)
  BY <1>1, <1>2, OpeningCommits DEF StartSound
<1>5. Awarded(DOMAIN rounds) = 0
  <2>1. {i \in DOMAIN rounds : rounds[i].closed} = {}
    BY <1>2
  <2> QED
    BY <2>1, SumEmpty DEF Awarded
<1>6. Holders' = {}
  BY <1>2, WorkerCommits DEF Holders, LifeSound, RoundsInOrder
<1>7. RoundsInOrder'
  <2>1. DOMAIN rounds' = 0 .. 0
    BY <1>4
  <2> QED
    BY <1>3, <1>6, <2>1 DEF RoundsInOrder, Cur, Running
<1>8. GiftsLeft'
  BY <1>4, <1>5, RoundTypes DEF GiftsLeft, AllGiftsAwarded
<1>9. L!Start
  BY <1>2, <1>3, <1>4 DEF L!Start, CurrentRoundOpen, Cur
<1> QED
  BY <1>7, <1>8, <1>9 DEF CommitFollows, L!Next

LEMMA CloseCommits ==
    ASSUME MInv, LifeSound, NEW p \in Workers, Commit(p), worker[p] = "closing"
    PROVE  CommitFollows
<1>1. CloseSound(txn[p]) /\ p \in Sessions
  BY WorkerCommits DEF KindSound, Sessions
<1>2. /\ Running /\ CurrentRoundOpen /\ ClosingSound(txn[p]) /\ auction' = auction
      /\ Cur' = Cur /\ Running' /\ Cur \in DOMAIN rounds
  BY <1>1 DEF CloseSound, ClosingSound, Commit, Cur, Running, CurrentRoundOpen
<1>3. /\ DOMAIN rounds' = DOMAIN rounds /\ rounds'[Cur].closed
      /\ \A i \in DOMAIN rounds : i # Cur => rounds'[i] = rounds[i]
      /\ Awarded(DOMAIN rounds)' \in Awarded(DOMAIN rounds) .. TotalGifts
  BY <1>1, <1>2, ClosingCommits
<1>4. CurrentRoundClosed' /\ ~ CurrentRoundOpen'
  BY <1>2, <1>3 DEF CurrentRoundClosed, CurrentRoundOpen, Cur
<1>5. Holders = {}
  BY <1>2 DEF LifeSound, RoundsInOrder, CurrentRoundClosed, CurrentRoundOpen, Cur
<1>6. \A v \in Holders' : v = p
  BY <1>5, WorkerCommits DEF Holders
<1>7. RoundsInOrder'
  BY <1>2, <1>3, <1>4, <1>6 DEF LifeSound, RoundsInOrder, Running
<1>8. GiftsLeft'
  BY <1>3, <1>4, AwardedType, RoundTypes DEF GiftsLeft
<1>9. L!CloseRound
  BY <1>2, <1>3, <1>4 DEF L!CloseRound, Running, CurrentRoundClosed, CurrentRoundOpen, Cur
<1> QED
  BY <1>7, <1>8, <1>9 DEF CommitFollows, L!Next

LEMMA AdvanceCommits ==
    ASSUME MInv, LifeSound, NEW p \in Workers, Commit(p), worker[p] = "advancing"
    PROVE  CommitFollows
<1>1. AdvanceSound(txn[p]) /\ p \in Sessions /\ p \in Holders
  BY WorkerCommits DEF KindSound, Sessions, Holders
<1>2. Running /\ ~ AllGiftsAwarded /\ Cur + 1 < TotalRounds
  BY <1>1 DEF AdvanceSound
<1>3. CurrentRoundClosed /\ \A v \in Holders : v = p
  BY <1>1, <1>2 DEF LifeSound, RoundsInOrder
<1>4. auction' = [status |-> "RUNNING", currentRound |-> Cur + 1]
  BY <1>1 DEF Commit, AdvanceSound
<1>5. DOMAIN rounds = 0 .. Cur /\ \A i \in DOMAIN rounds : rounds[i].closed
  BY <1>2, <1>3 DEF LifeSound, RoundsInOrder, Running, CurrentRoundClosed
<1>6. Cur \in Nat /\ Cur + 1 \notin DOMAIN rounds
  BY <1>5, RoundTypes
<1>7. /\ DOMAIN rounds' = DOMAIN rounds \cup {Cur + 1} /\ ~ rounds'[Cur + 1].closed
      /\ \A j \in DOMAIN rounds : rounds'[j] = rounds[j]
      /\ Awarded(DOMAIN rounds)' = Awarded(DOMAIN rounds)
  BY <1>1, <1>6, OpeningCommits DEF AdvanceSound
<1>8. Holders' = {}
  BY <1>3, WorkerCommits DEF Holders
<1>9. RoundsInOrder'
  <2>1. DOMAIN rounds' = 0 .. Cur + 1
    BY <1>5, <1>6, <1>7
  <2>2. Cur' = Cur + 1
    BY <1>4 DEF Cur
  <2>3. \A i \in DOMAIN rounds' : i # Cur' => rounds'[i].closed
    BY <1>5, <1>7, <2>2
  <2> QED
    BY <1>4, <1>8, <2>1, <2>2, <2>3 DEF RoundsInOrder
<1>10. GiftsLeft'
  BY <1>2, <1>7, AwardedType, RoundTypes DEF GiftsLeft, AllGiftsAwarded
<1>11. L!OpenNextRound
  <2>1. Awarded(DOMAIN rounds) < TotalGifts
    BY <1>2, AwardedType, RoundTypes DEF AllGiftsAwarded
  <2>2. auction.currentRound \in DOMAIN rounds /\ ~ CurrentRoundOpen
    BY <1>3 DEF CurrentRoundClosed, CurrentRoundOpen, Cur
  <2>3. CurrentRoundOpen'
    BY <1>4, <1>7 DEF CurrentRoundOpen
  <2> QED
    BY <1>2, <1>4, <1>7, <2>1, <2>2, <2>3 DEF L!OpenNextRound, Running, Cur
<1> QED
  BY <1>9, <1>10, <1>11 DEF CommitFollows, L!Next

\* The auction is completed, with its current round closed before or now.
LEMMA CompletingCommits ==
    ASSUME MInv, LifeSound, NEW p \in Workers, Commit(p), Running,
           txn[p].auction = {[status |-> "COMPLETED", currentRound |-> Cur]},
           \/ ClosingSound(txn[p]) /\ IsLastRound
           \/ CurrentRoundClosed /\ txn[p].rounds = NoWrites /\ (IsLastRound \/ AllGiftsAwarded)
    PROVE  CommitFollows
<1>0. p \in Sessions
  BY DEF Sessions
<1>1. auction' = [status |-> "COMPLETED", currentRound |-> Cur]
  BY DEF Commit
<1>2. Cur' = Cur /\ auction'.status = "COMPLETED" /\ ~ Running'
  BY <1>1 DEF Cur, Running
<1>3. IsLastRound => Cur + 1 = TotalRounds
  BY RoundTypes DEF IsLastRound, Cur
<1>4. /\ DOMAIN rounds = 0 .. Cur /\ Cur \in DOMAIN rounds
      /\ \A i \in DOMAIN rounds : i # Cur => rounds[i].closed
      /\ Awarded(DOMAIN rounds) \in Nat /\ Awarded(DOMAIN rounds) <= TotalGifts
  BY RoundTypes, AwardedType DEF LifeSound, RoundsInOrder, GiftsLeft, Running
<1>5. CASE ClosingSound(txn[p]) /\ IsLastRound
  <2>1. /\ DOMAIN rounds' = DOMAIN rounds /\ rounds'[Cur].closed
        /\ \A i \in DOMAIN rounds : i # Cur => rounds'[i] = rounds[i]
        /\ Awarded(DOMAIN rounds)' \in Awarded(DOMAIN rounds) .. TotalGifts
    BY <1>0, <1>5, ClosingCommits
  <2>2. CurrentRoundClosed' /\ ~ CurrentRoundOpen' /\ CurrentRoundOpen
    BY <1>2, <1>4, <1>5, <2>1 DEF CurrentRoundClosed, CurrentRoundOpen, Cur, ClosingSound
  <2>3. RoundsInOrder'
    BY <1>2, <1>4, <2>1, <2>2 DEF RoundsInOrder
  <2>4. GiftsLeft'
    BY <1>2, <1>4, <2>1, RoundTypes DEF GiftsLeft
  <2>5. L!CloseAndComplete
    BY <1>1, <1>3, <1>4, <1>5, <2>1, <2>2 DEF L!CloseAndComplete, Running, Cur
  <2> QED
    BY <2>3, <2>4, <2>5 DEF CommitFollows, L!Next
<1>6. CASE CurrentRoundClosed /\ txn[p].rounds = NoWrites /\ (IsLastRound \/ AllGiftsAwarded)
  <2>1. rounds' = rounds
    BY <1>6, RoundTypes DEF Commit, Overlay, NoWrites, IsPartial
  <2>2. CurrentRoundClosed' /\ ~ CurrentRoundOpen' /\ ~ CurrentRoundOpen
    BY <1>2, <1>6, <2>1 DEF CurrentRoundClosed, CurrentRoundOpen, Cur
  <2>3. RoundsInOrder'
    BY <1>2, <1>4, <2>1, <2>2 DEF RoundsInOrder
  <2>4. Awarded(DOMAIN rounds)' = Awarded(DOMAIN rounds)
    BY <2>1 DEF Awarded
  <2>5. GiftsLeft'
    BY <1>2, <1>4, <2>4 DEF GiftsLeft
  <2>6. Cur + 1 = TotalRounds \/ Awarded(DOMAIN rounds) = TotalGifts
    BY <1>3, <1>4, <1>6, RoundTypes DEF AllGiftsAwarded
  <2>7. L!Complete
    BY <1>1, <1>4, <2>1, <2>2, <2>4, <2>6 DEF L!Complete, Running, Cur
  <2> QED
    BY <2>3, <2>5, <2>7 DEF CommitFollows, L!Next
<1> QED
  BY <1>5, <1>6

LEMMA WorkerCommitFollows ==
    ASSUME MInv, LifeSound, NEW p \in Workers, Commit(p)
    PROVE  CommitFollows
<1>1. worker[p] \in InTransaction /\ KindSound(worker[p], txn[p])
  BY WorkerCommits
<1>2. CASE worker[p] = "finalizing"
  <2>1. FinalizeSound(txn[p]) /\ p \in Holders
    BY <1>1, <1>2 DEF KindSound, Holders
  <2>2. CurrentRoundClosed
    BY <2>1 DEF FinalizeSound, LifeSound, RoundsInOrder
  <2> QED
    BY <2>1, <2>2, CompletingCommits DEF FinalizeSound
<1>3. CASE worker[p] = "directFinalizing"
  <2>1. DirectSound(txn[p])
    BY <1>1, <1>3 DEF KindSound
  <2> QED
    BY <2>1, CompletingCommits DEF DirectSound
<1> QED
  BY <1>1, <1>2, <1>3, StartCommits, CloseCommits, AdvanceCommits DEF InTransaction

LEMMA StepLifeSound == MInv /\ LifeSound /\ [Next]_vars => LifeSound'
<1> SUFFICES ASSUME MInv, LifeSound, [Next]_vars PROVE LifeSound'
  OBVIOUS
<1>1. CASE \E q \in Requests : PlaceBid(q)
  BY <1>1, PlaceBidLives
<1>2. CASE \E w \in Workers : Work(w)
  BY <1>2, WorkLives
<1>3. CASE \E p \in Sessions : \E b \in DOMAIN txn[p].todo : Settle(p, b)
  BY <1>3, SettleLives
<1>4. CASE \E p \in Requests : Commit(p)
  BY <1>4, RequestCommits
<1>5. CASE \E p \in Workers : Commit(p)
  BY <1>5, WorkerCommits, WorkerCommitFollows DEF LifeSound, CommitFollows
<1>6. CASE \E p \in Sessions : \E retry \in BOOLEAN : Abort(p, retry)
  BY <1>6, AbortLives
<1>7. CASE UNCHANGED vars
  BY <1>7, NothingLives DEF vars
<1> QED
  BY <1>1, <1>2, <1>3, <1>4, <1>5, <1>6, <1>7 DEF Next, Sessions

LEMMA InitLifeSound == Init => LifeSound
<1> SUFFICES ASSUME Init PROVE LifeSound
  OBVIOUS
<1>1. Awarded(DOMAIN rounds) = 0
  <2>1. {i \in DOMAIN rounds : rounds[i].closed} = {}
    BY DEF Init, NoWrites
  <2> QED
    BY <2>1, SumEmpty DEF Awarded
<1>2. GiftsLeft
  BY <1>1, ParametersAssumption DEF GiftsLeft, Init, Running
<1>3. RoundsInOrder
  BY DEF RoundsInOrder, Init, Cur, Running, NoWrites
<1>4. WorkersSound /\ \A q \in Requests : ~ txn[q].open
  BY DEF WorkersSound, Init, Live, NoTxn, InTransaction, Sessions
<1> QED
  BY <1>2, <1>3, <1>4 DEF LifeSound

LEMMA AlwaysLifeSound == Spec => [](MInv /\ LifeSound)
BY InitLifeSound, StepLifeSound, AlwaysMInv, PTL DEF Spec

(* Whichever workers call startAuction, closeCurrentRound, advanceRound    *)
(* and finalizeAuction, and however their transactions conflict, what they *)
(* commit takes the auction through its rounds one by one and awards no    *)
(* more than the gifts it has.                                             *)
THEOREM ImplementsLifecycle == Spec => RefinesLifecycle
<1> DEFINE lifecycle == <<auction.status, auction.currentRound,
                          auction.currentRound \in DOMAIN rounds /\ ~ CurrentRoundOpen,
                          Awarded(DOMAIN rounds)>>
<1>1. Init => L!Init
  <2> SUFFICES ASSUME Init PROVE L!Init
    OBVIOUS
  <2>1. {i \in DOMAIN rounds : rounds[i].closed} = {} /\ DOMAIN rounds = {}
    BY DEF Init, NoWrites
  <2>2. Awarded(DOMAIN rounds) = 0
    BY <2>1, SumEmpty DEF Awarded
  <2> QED
    BY <2>1, <2>2 DEF Init, L!Init
<1>2. MInv /\ LifeSound /\ [Next]_vars => [L!Next]_lifecycle
  <2> SUFFICES ASSUME MInv, LifeSound, [Next]_vars PROVE [L!Next]_lifecycle
    OBVIOUS
  <2>1. CASE UNCHANGED db
    BY <2>1 DEF db, CurrentRoundOpen, Awarded
  <2>2. CASE \E p \in Requests : Commit(p)
    <3>1. UNCHANGED <<auction, rounds>>
      BY <2>2, RequestCommits
    <3> QED
      BY <3>1 DEF CurrentRoundOpen, Awarded
  <2>3. CASE \E p \in Workers : Commit(p)
    BY <2>3, WorkerCommitFollows DEF CommitFollows
  <2> QED
    BY <2>1, <2>2, <2>3, DatabaseSteps DEF Sessions
<1> QED
  BY <1>1, <1>2, AlwaysLifeSound, PTL DEF Spec, RefinesLifecycle, L!Spec, L!lifecycle

-----------------------------------------------------------------------------
(* The winners of the rounds.                                              *)

\* The bids t writes, as its loop will have left them.
Outcome(t) == Overlay(t.todo, t.bids)

ClosedBy(t) == {i \in DOMAIN t.rounds : t.rounds[i].closed}

WinnersOf(i, collection) == {b \in DOMAIN collection : collection[b].wonInRoundIndex = i}

\* t makes winners of the rounds it closes, as many as it counts there.
OutcomeSound(t) ==
    /\ \A b \in DOMAIN Outcome(t) :
          IF Outcome(t)[b].status = "WON" THEN Outcome(t)[b].wonInRoundIndex \in ClosedBy(t)
                                          ELSE Outcome(t)[b].wonInRoundIndex = NotWon
    /\ \A i \in ClosedBy(t) :
          Cardinality(WinnersOf(i, Outcome(t))) = t.rounds[i].winnersCount

WinnersSound ==
    /\ \A b \in DOMAIN bids :
          IF bids[b].status = "WON" THEN bids[b].wonInRoundIndex \in DOMAIN rounds
                                    ELSE bids[b].wonInRoundIndex = NotWon
    /\ \A i \in DOMAIN rounds :
          Cardinality(WinnersOf(i, bids)) =
             IF rounds[i].closed THEN rounds[i].winnersCount ELSE 0
    /\ \A p \in Sessions : Live(p) => OutcomeSound(txn[p])

LEMMA OnlyTxnWins ==
    ASSUME MInv, WinnersSound, NEW p \in Sessions, NEW t, txn' = [txn EXCEPT ![p] = t],
           UNCHANGED <<rounds, bids>>, t.open /\ ~ t.doomed => OutcomeSound(t)
    PROVE  WinnersSound'
<1>1. ASSUME NEW o \in Sessions, Live(o)'
      PROVE  OutcomeSound(txn[o])'
  <2>1. PICK s : s = txn'[o] /\ OutcomeSound(s)
    BY <1>1 DEF MInv, IInv, TypeOK, WinnersSound, Live
  <2> QED
    BY <2>1 DEF OutcomeSound, Outcome, ClosedBy, WinnersOf
<1> QED
  BY <1>1 DEF WinnersSound, WinnersOf

LEMMA NothingWins ==
    ASSUME WinnersSound, UNCHANGED <<rounds, bids, txn>>
    PROVE  WinnersSound'
<1>1. ASSUME NEW o \in Sessions, Live(o)'
      PROVE  OutcomeSound(txn[o])'
  <2>1. PICK s : s = txn'[o] /\ OutcomeSound(s)
    BY <1>1 DEF WinnersSound, Live
  <2> QED
    BY <2>1 DEF OutcomeSound, Outcome, ClosedBy, WinnersOf
<1> QED
  BY <1>1 DEF WinnersSound, WinnersOf

\* A transaction that closes no round writes no winner.
LEMMA NoneWins ==
    ASSUME NEW t, t.todo = NoWrites, ClosedBy(t) = {},
           \A b \in DOMAIN t.bids : /\ t.bids[b].status # "WON"
                                    /\ t.bids[b].wonInRoundIndex = NotWon
    PROVE  OutcomeSound(t)
<1>1. /\ DOMAIN Outcome(t) = DOMAIN t.bids
      /\ \A b \in DOMAIN t.bids : Outcome(t)[b] = t.bids[b]
  BY DEF Outcome, Overlay, NoWrites
<1> QED
  BY <1>1 DEF OutcomeSound

LEMMA PlaceBidWins ==
    ASSUME MInv, WinnersSound, NEW q \in Requests, PlaceBid(q)
    PROVE  WinnersSound'
<1>0. q \in Sessions
  BY DEF Sessions
<1>1. ASSUME NEW bid, NEW b, NEW delta, BeginBidTxn(q, bid, b, delta),
             bid.status # "WON", bid.wonInRoundIndex = NotWon
      PROVE  WinnersSound'
  <2> DEFINE u == request[q].user
             t == Txn({}, NoWrites, Only(b, bid), Only(u, LockFunds(users[u], delta)),
                      Only(u, AddEntry(NoEntries, "LOCK", delta)), NoWrites)
  <2>1. txn' = [txn EXCEPT ![q] = t] /\ UNCHANGED <<rounds, bids>>
    BY <1>1 DEF BeginBidTxn
  <2>2. t.todo = NoWrites /\ DOMAIN t.rounds = {} /\ t.bids = Only(b, bid)
    BY DEF Txn, NoWrites
  <2> HIDE DEF t
  <2>3. OutcomeSound(t)
    BY <1>1, <2>2, NoneWins DEF ClosedBy, Only
  <2> QED
    BY <1>0, <2>1, <2>3, OnlyTxnWins
<1>2. CASE \E u \in Users, amount \in Amounts : ReadAuction(q, u, amount)
  BY <1>2, NothingWins DEF ReadAuction
<1>3. CASE \E b \in DOMAIN bids : RaiseBid(q, b)
  <2> PICK b \in DOMAIN bids : RaiseBid(q, b)
    BY <1>3
  <2> DEFINE bid == RaisedBid(request[q], b)
  <2>1. bids[b].status = "ACTIVE"
    BY DEF RaiseBid, ActiveBidsOf, ActiveBids
  <2>2. bid.status # "WON" /\ bid.wonInRoundIndex = NotWon
    BY <2>1 DEF RaisedBid, WinnersSound
  <2> HIDE DEF bid
  <2> QED
    BY <1>1, <2>2 DEF RaiseBid, bid
<1>4. CASE CreateBid(q)
  BY <1>1, <1>4 DEF CreateBid
<1>5. CASE RejectBid(q)
  BY <1>5, NothingWins DEF RejectBid
<1> QED
  BY <1>2, <1>3, <1>4, <1>5 DEF PlaceBid

\* A settlement that begins: the bids W become the winners of the current round.
LEMMA SettlingTxnWins ==
    ASSUME MInv, WinnersSound, NEW a, NEW r, NEW W, NEW R, W \cup R \subseteq ActiveBids,
           r = ClosedWith(W) \/ (r = NoWrites /\ W = {})
    PROVE  OutcomeSound(SettlingTxn(a, r, W, R))
<1> DEFINE t == SettlingTxn(a, r, W, R)
           S == W \cup R
           B == Outcome(t)
<1>1. /\ t.rounds = r /\ t.bids = [b \in S |-> bids[b]]
      /\ t.todo = [b \in S |-> IF b \in W THEN Won(b) ELSE Refunded(b)]
  BY DEF SettlingTxn, Txn
<1>2. \A b \in S : bids[b] \in Bid /\ bids[b].wonInRoundIndex = NotWon
  BY DEF ActiveBids, MInv, IInv, TypeOK, IsPartial, WinnersSound
<1>3. \A b \in S : /\ Won(b).status = "WON" /\ Won(b).wonInRoundIndex = Cur
                   /\ Refunded(b).status = "REFUNDED" /\ Refunded(b).wonInRoundIndex = NotWon
  BY <1>2 DEF Won, Refunded, Cur, Bid
<1>4. DOMAIN B = S /\ \A b \in S : B[b] = IF b \in W THEN Won(b) ELSE Refunded(b)
  BY <1>1 DEF Outcome, Overlay
<1>5. Cur # NotWon
  BY RoundTypes DEF NotWon
<1> HIDE DEF t, B
<1>6. WinnersOf(Cur, B) = W
  BY <1>3, <1>4, <1>5 DEF WinnersOf
<1>7. CASE r = ClosedWith(W)
  <2>1. ClosedBy(t) = {Cur} /\ t.rounds[Cur].winnersCount = Cardinality(W)
    BY <1>1, <1>7 DEF ClosedBy, ClosedWith, Only, Cur
  <2>2. OutcomeSound(t)
    BY <1>3, <1>4, <1>6, <2>1 DEF OutcomeSound, B
  <2> QED
    BY <2>2 DEF t
<1>8. CASE r = NoWrites /\ W = {}
  <2>1. ClosedBy(t) = {}
    BY <1>1, <1>8 DEF ClosedBy, NoWrites
  <2>2. OutcomeSound(t)
    BY <1>3, <1>4, <1>8, <2>1 DEF OutcomeSound, B
  <2> QED
    BY <2>2 DEF t
<1> QED
  BY <1>7, <1>8

LEMMA WorkWins ==
    ASSUME MInv, WinnersSound, NEW w \in Workers, Work(w)
    PROVE  WinnersSound'
<1>0. w \in Sessions
  BY DEF Sessions
<1>1. ASSUME NEW pc, NEW t, OutcomeSound(t), BeginWorkerTxn(w, pc, t)
      PROVE  WinnersSound'
  BY <1>0, <1>1, OnlyTxnWins DEF BeginWorkerTxn
<1>2. ASSUME NEW a, NEW i, NEW b,
             \A x \in DOMAIN b : b[x].status # "WON" /\ b[x].wonInRoundIndex = NotWon
      PROVE  OutcomeSound(Txn(a, Only(i, OpenRound), b, NoWrites, NoWrites, NoWrites))
  <2> DEFINE t == Txn(a, Only(i, OpenRound), b, NoWrites, NoWrites, NoWrites)
  <2>1. t.todo = NoWrites /\ t.rounds = Only(i, OpenRound) /\ t.bids = b
    BY DEF Txn
  <2> HIDE DEF t
  <2>2. ClosedBy(t) = {}
    BY <2>1 DEF ClosedBy, Only, OpenRound
  <2>3. OutcomeSound(t)
    BY <1>2, <2>1, <2>2, NoneWins
  <2> QED
    BY <2>3 DEF t
<1>3. CASE BeginStart(w)
  <2>1. OutcomeSound(Txn({[status |-> "RUNNING", currentRound |-> 0]}, Only(0, OpenRound),
                         NoWrites, NoWrites, NoWrites, NoWrites))
    BY <1>2 DEF NoWrites
  <2> QED
    BY <1>1, <1>3, <2>1 DEF BeginStart
<1>4. CASE BeginClose(w)
  <2> PICK W \in SUBSET ActiveBids :
             BeginWorkerTxn(w, "closing", SettlingTxn({}, ClosedWith(W), W, {}))
    BY <1>4, WinnersAreActive DEF BeginClose
  <2> QED
    BY <1>1, SettlingTxnWins
<1>5. CASE BeginAdvance(w)
  <2> DEFINE next == auction.currentRound + 1
             carried == [b \in ActiveBids |-> [bids[b] EXCEPT !.roundIndex = next]]
  <2>1. \A b \in ActiveBids : /\ bids[b] \in Bid /\ bids[b].status = "ACTIVE"
                              /\ bids[b].wonInRoundIndex = NotWon
    BY DEF ActiveBids, MInv, IInv, TypeOK, IsPartial, WinnersSound
  <2>2. \A b \in DOMAIN carried : carried[b].status # "WON" /\ carried[b].wonInRoundIndex = NotWon
    BY <2>1 DEF Bid
  <2> HIDE DEF carried
  <2>3. OutcomeSound(Txn({[auction EXCEPT !.currentRound = next]}, Only(next, OpenRound),
                         carried, NoWrites, NoWrites, NoWrites))
    BY <1>2, <2>2
  <2> QED
    BY <1>1, <1>5, <2>3 DEF BeginAdvance, carried
<1>6. CASE BeginFinalize(w)
  <2> DEFINE settles == CurrentRoundOpen /\ IsLastRound
             Closed(W) == IF settles THEN ClosedWith(W) ELSE NoWrites
             Winning == IF settles THEN TopBids(GiftsPerRound) ELSE {{}}
  <2> PICK W \in Winning :
             BeginWorkerTxn(w, FinalizingState(w),
               SettlingTxn({[auction EXCEPT !.status = "COMPLETED"]}, Closed(W),
                           W, ActiveBids \ W))
    BY <1>6 DEF BeginFinalize
  <2>1. W \cup (ActiveBids \ W) \subseteq ActiveBids
    BY WinnersAreActive
  <2>2. Closed(W) = ClosedWith(W) \/ (Closed(W) = NoWrites /\ W = {})
    OBVIOUS
  <2> HIDE DEF Closed, Winning
  <2>3. OutcomeSound(SettlingTxn({[auction EXCEPT !.status = "COMPLETED"]}, Closed(W),
                                 W, ActiveBids \ W))
    BY <2>1, <2>2, SettlingTxnWins
  <2> QED
    BY <1>1, <2>3
<1>7. CASE LeaveRound(w)
  BY <1>7, NothingWins DEF LeaveRound
<1> QED
  BY <1>3, <1>4, <1>5, <1>6, <1>7 DEF Work

LEMMA SettleWins ==
    ASSUME MInv, WinnersSound, NEW p \in Sessions, NEW b \in DOMAIN txn[p].todo, Settle(p, b)
    PROVE  WinnersSound'
<1> DEFINE t == txn[p]
           doc == t.todo[b]
           u == doc.user
           won == doc.status = "WON"
           newUser == IF won THEN Payout(t.users[u], doc.amount)
                             ELSE Refund(t.users[u], doc.amount)
           newEntries == AddEntry(t.entries[u], IF won THEN "PAYOUT" ELSE "REFUND", doc.amount)
           s == Txn(t.auction, t.rounds, [t.bids EXCEPT ![b] = doc],
                    [t.users EXCEPT ![u] = newUser], [t.entries EXCEPT ![u] = newEntries],
                    [c \in DOMAIN t.todo \ {b} |-> t.todo[c]])
<1>1. Live(p) /\ txn' = [txn EXCEPT ![p] = s] /\ UNCHANGED <<rounds, bids>>
  BY DEF Settle, Live
<1>2. OutcomeSound(t) /\ b \in DOMAIN t.bids
  BY <1>1, LiveTxn DEF WinnersSound, TxnSound, TodoIsActive
<1>3. /\ s.rounds = t.rounds /\ s.bids = [t.bids EXCEPT ![b] = doc]
      /\ s.todo = [c \in DOMAIN t.todo \ {b} |-> t.todo[c]]
  BY DEF Txn
<1>4. IsPartial(t.bids, Requests, Bid)
  BY <1>1, LiveTxn DEF IsTransaction
<1> HIDE DEF s, t
<1>5. Outcome(s) = Outcome(t)
  BY <1>2, <1>3, <1>4 DEF Outcome, Overlay, IsPartial, t
<1>6. OutcomeSound(s)
  BY <1>2, <1>3, <1>5 DEF OutcomeSound, ClosedBy
<1> QED
  BY <1>1, <1>6, OnlyTxnWins

\* A transaction closes rounds that are open, and opens new ones.
LEMMA RoundsFollow ==
    ASSUME MInv, LifeSound, NEW p \in Sessions, Live(p), NEW i \in DOMAIN txn[p].rounds
    PROVE  IF txn[p].rounds[i].closed THEN i \in DOMAIN rounds /\ ~ rounds[i].closed
                                      ELSE i \notin DOMAIN rounds
<1> DEFINE t == txn[p]
<1>1. CASE p \in Requests
  BY <1>1 DEF LifeSound, Live, WritesNoRound, NoWrites
<1>2. CASE p \in Workers
  <2>1. worker[p] \in InTransaction /\ KindSound(worker[p], t)
    BY <1>2 DEF LifeSound, WorkersSound, Live
  <2>2. \/ ClosingSound(t) \/ t.rounds = NoWrites
        \/ t.rounds = Only(0, OpenRound) /\ DOMAIN rounds = {}
        \/ t.rounds = Only(Cur + 1, OpenRound) /\ DOMAIN rounds = 0 .. Cur
    BY <2>1 DEF InTransaction, KindSound, StartSound, CloseSound, AdvanceSound, FinalizeSound,
       DirectSound, LifeSound, RoundsInOrder, Running
  <2> HIDE DEF t
  <2>3. CASE ClosingSound(t)
    BY <2>3 DEF ClosingSound, CurrentRoundOpen, Cur, t
  <2>4. CASE t.rounds = NoWrites
    BY <2>4 DEF NoWrites, t
  <2>5. CASE t.rounds = Only(0, OpenRound) /\ DOMAIN rounds = {}
    BY <2>5 DEF Only, OpenRound, t
  <2>6. CASE t.rounds = Only(Cur + 1, OpenRound) /\ DOMAIN rounds = 0 .. Cur
    BY <2>6, RoundTypes DEF Only, OpenRound, t
  <2> QED
    BY <2>2, <2>3, <2>4, <2>5, <2>6
<1> QED
  BY <1>1, <1>2 DEF Sessions

LEMMA CommitWins ==
    ASSUME MInv, LifeSound, WinnersSound, NEW p \in Sessions, Commit(p)
    PROVE  WinnersSound'
<1> DEFINE t == txn[p]
<1>1. /\ Live(p) /\ OutcomeSound(t) /\ BidsFollow(t) /\ DOMAIN t.todo = {}
      /\ IsPartial(t.bids, Requests, Bid)
  BY LiveTxn DEF Commit, Live, WinnersSound, IsTransaction
<1>2. Outcome(t) = t.bids
  BY <1>1 DEF Outcome, Overlay, IsPartial
<1>3. /\ DOMAIN bids' = DOMAIN t.bids \cup DOMAIN bids
      /\ \A b \in DOMAIN bids' : bids'[b] = IF b \in DOMAIN t.bids THEN t.bids[b] ELSE bids[b]
      /\ DOMAIN rounds' = DOMAIN t.rounds \cup DOMAIN rounds
      /\ \A i \in DOMAIN rounds' :
            rounds'[i] = IF i \in DOMAIN t.rounds THEN t.rounds[i] ELSE rounds[i]
  BY DEF Commit, Overlay
<1>4. \A i \in DOMAIN t.rounds :
         IF t.rounds[i].closed THEN i \in DOMAIN rounds /\ ~ rounds[i].closed
                               ELSE i \notin DOMAIN rounds
  BY <1>1, RoundsFollow
<1>5. \A i \in DOMAIN rounds' : i # NotWon
  <2>1. IsPartial(rounds', RoundIndex, Round)
    BY CommitType DEF MInv, IInv, TypeOK
  <2> QED
    BY <2>1, ParametersAssumption DEF IsPartial, RoundIndex, NotWon
<1>6. \A b \in DOMAIN t.bids :
         IF t.bids[b].status = "WON" THEN t.bids[b].wonInRoundIndex \in ClosedBy(t)
                                     ELSE t.bids[b].wonInRoundIndex = NotWon
  BY <1>1, <1>2 DEF OutcomeSound
<1>7. \A b \in DOMAIN bids :
         IF bids[b].status = "WON" THEN bids[b].wonInRoundIndex \in DOMAIN rounds
                                   ELSE bids[b].wonInRoundIndex = NotWon
  BY DEF WinnersSound
<1>8. \A b \in DOMAIN t.bids \cap DOMAIN bids : bids[b].wonInRoundIndex = NotWon
  BY <1>1, <1>7 DEF BidsFollow
<1> HIDE DEF t
<1>9. \A b \in DOMAIN bids' :
         IF bids'[b].status = "WON" THEN bids'[b].wonInRoundIndex \in DOMAIN rounds'
                                    ELSE bids'[b].wonInRoundIndex = NotWon
  BY <1>3, <1>6, <1>7 DEF ClosedBy
<1>10. ASSUME NEW i \in DOMAIN rounds'
       PROVE  Cardinality(WinnersOf(i, bids')) =
                 IF rounds'[i].closed THEN rounds'[i].winnersCount ELSE 0
  <2>1. i \in DOMAIN rounds \/ WinnersOf(i, bids) = {}
    BY <1>5, <1>7 DEF WinnersOf
  <2>2. CASE i \in ClosedBy(t)
    <3>1. WinnersOf(i, bids) = {}
      <4>1. Cardinality(WinnersOf(i, bids)) = 0
        BY <1>4, <2>2 DEF WinnersSound, ClosedBy
      <4>2. IsFiniteSet(DOMAIN bids)
        BY FiniteCollections DEF MInv, IInv, TypeOK
      <4>3. IsFiniteSet(WinnersOf(i, bids))
        BY <4>2, FS_Subset DEF WinnersOf
      <4> QED
        BY <4>1, <4>3, FS_EmptySet
    <3>2. WinnersOf(i, bids') = WinnersOf(i, t.bids)
      BY <1>3, <3>1 DEF WinnersOf
    <3>3. Cardinality(WinnersOf(i, t.bids)) = t.rounds[i].winnersCount
      BY <1>1, <1>2, <2>2 DEF OutcomeSound
    <3> QED
      BY <1>3, <2>2, <3>2, <3>3 DEF ClosedBy
  <2>3. CASE i \notin ClosedBy(t)
    <3>1. \A b \in DOMAIN t.bids : t.bids[b].wonInRoundIndex # i
      BY <1>5, <1>6, <2>3
    <3>2. WinnersOf(i, bids') = WinnersOf(i, bids)
      BY <1>3, <1>5, <1>8, <3>1 DEF WinnersOf
    <3>3. CASE i \in DOMAIN t.rounds
      <4>1. ~ t.rounds[i].closed /\ i \notin DOMAIN rounds
        BY <1>4, <2>3, <3>3 DEF ClosedBy
      <4>2. Cardinality(WinnersOf(i, bids)) = 0
        BY <2>1, <4>1, FS_EmptySet
      <4> QED
        BY <1>3, <3>2, <3>3, <4>1, <4>2
    <3>4. CASE i \notin DOMAIN t.rounds
      BY <1>3, <3>2, <3>4 DEF WinnersSound
    <3> QED
      BY <3>3, <3>4
  <2> QED
    BY <2>2, <2>3
<1>11. ASSUME NEW o \in Sessions, Live(o)'
       PROVE  OutcomeSound(txn[o])'
  <2>1. PICK s : s = txn'[o] /\ OutcomeSound(s)
    BY <1>11, Survivors DEF WinnersSound
  <2> QED
    BY <2>1 DEF OutcomeSound, Outcome, ClosedBy, WinnersOf
<1> QED
  BY <1>9, <1>10, <1>11 DEF WinnersSound, WinnersOf

LEMMA StepWinnersSound == MInv /\ LifeSound /\ WinnersSound /\ [Next]_vars => WinnersSound'
<1> SUFFICES ASSUME MInv, LifeSound, WinnersSound, [Next]_vars PROVE WinnersSound'
  OBVIOUS
<1>1. CASE \E q \in Requests : PlaceBid(q)
  BY <1>1, PlaceBidWins
<1>2. CASE \E w \in Workers : Work(w)
  BY <1>2, WorkWins
<1>3. CASE \E p \in Sessions : \E b \in DOMAIN txn[p].todo : Settle(p, b)
  BY <1>3, SettleWins
<1>4. CASE \E p \in Sessions : Commit(p)
  BY <1>4, CommitWins
<1>5. CASE \E p \in Sessions : \E retry \in BOOLEAN : Abort(p, retry)
  <2>1. ~ NoTxn.open
    BY DEF NoTxn
  <2> QED
    BY <1>5, <2>1, OnlyTxnWins DEF Abort, db
<1>6. CASE UNCHANGED vars
  BY <1>6, NothingWins DEF vars
<1> QED
  BY <1>1, <1>2, <1>3, <1>4, <1>5, <1>6 DEF Next

LEMMA InitWinnersSound == Init => WinnersSound
BY DEF Init, WinnersSound, NoWrites, Live, NoTxn

(* The rounds together give away no more gifts than the auction has, and a *)
(* closed round has as many winners as it counts, for any number of gifts, *)
(* rounds, bids and workers that close, advance and finalize side by side  *)
(* (calculateWinners, closeCurrentRound, finalizeAuction).                 *)
THEOREM GiftsNeverOverAwarded == Spec => []GiftsNotOverAwarded
<1>1. LifeSound /\ WinnersSound => GiftsNotOverAwarded
  BY DEF LifeSound, GiftsLeft, WinnersSound, WinnersOf, GiftsNotOverAwarded
<1> QED
  BY <1>1, InitWinnersSound, StepWinnersSound, AlwaysLifeSound, PTL DEF Spec

-----------------------------------------------------------------------------
(* What follows for the round documents and for the users' balances.       *)

ClosedRoundsFinal ==
    [][\A i \in DOMAIN rounds :
          /\ i \in DOMAIN rounds'
          /\ rounds[i].closed => rounds'[i] = rounds[i]]_vars

\* A live transaction of a worker writes no closed round.
LEMMA WritesOpenRounds ==
    ASSUME MInv, LifeSound, NEW p \in Workers, Commit(p), NEW i \in DOMAIN rounds,
           rounds[i].closed
    PROVE  i \notin DOMAIN txn[p].rounds
<1>1. worker[p] \in InTransaction /\ KindSound(worker[p], txn[p])
  BY DEF Commit, LifeSound, WorkersSound, Live
<1>2. CASE worker[p] = "starting"
  BY <1>1, <1>2 DEF KindSound, StartSound, LifeSound, RoundsInOrder
<1>3. CASE worker[p] = "closing"
  BY <1>1, <1>3 DEF KindSound, CloseSound, ClosingSound, CurrentRoundOpen, Cur
<1>4. CASE worker[p] = "advancing"
  <2>1. Running /\ txn[p].rounds = Only(Cur + 1, OpenRound)
    BY <1>1, <1>4 DEF KindSound, AdvanceSound
  <2>2. DOMAIN rounds = 0 .. Cur /\ Cur \in Nat
    BY <2>1, RoundTypes DEF LifeSound, RoundsInOrder, Running
  <2> QED
    BY <2>1, <2>2 DEF Only
<1>5. CASE worker[p] = "finalizing"
  BY <1>1, <1>5 DEF KindSound, FinalizeSound, NoWrites
<1>6. CASE worker[p] = "directFinalizing"
  BY <1>1, <1>6 DEF KindSound, DirectSound, ClosingSound, CurrentRoundOpen, Cur, NoWrites
<1> QED
  BY <1>1, <1>2, <1>3, <1>4, <1>5, <1>6 DEF InTransaction

(* A round that has been closed keeps its outcome: no other closing, no    *)
(* finalizeAuction called out of turn and no advanceRound that began       *)
(* before writes it again (closeCurrentRound, advanceRound,                *)
(* finalizeAuction).                                                       *)
THEOREM ClosedRoundsStay == Spec => ClosedRoundsFinal
<1>1. ASSUME MInv, LifeSound, [Next]_vars, NEW i \in DOMAIN rounds
      PROVE  i \in DOMAIN rounds' /\ (rounds[i].closed => rounds'[i] = rounds[i])
  <2>1. CASE UNCHANGED db
    BY <2>1 DEF db
  <2>2. CASE \E p \in Requests : Commit(p)
    BY <1>1, <2>2, RequestCommits
  <2>3. ASSUME NEW p \in Workers, Commit(p)
        PROVE  i \in DOMAIN rounds' /\ (rounds[i].closed => rounds'[i] = rounds[i])
    <3>1. rounds' = Overlay(txn[p].rounds, rounds)
      BY <2>3 DEF Commit
    <3>2. rounds[i].closed => i \notin DOMAIN txn[p].rounds
      BY <1>1, <2>3, WritesOpenRounds
    <3> QED
      BY <1>1, <3>1, <3>2 DEF Overlay
  <2> QED
    BY <1>1, <2>1, <2>2, <2>3, DatabaseSteps DEF Sessions
<1>2. MInv /\ LifeSound /\ [Next]_vars =>
         [\A i \in DOMAIN rounds :
             /\ i \in DOMAIN rounds'
             /\ rounds[i].closed => rounds'[i] = rounds[i]]_vars
  BY <1>1
<1> QED
  BY <1>2, AlwaysLifeSound, PTL DEF Spec, ClosedRoundsFinal

\* What a user has deposited is free, or locked in the bid that is active,
\* or has gone into the bids that have won.
BalanceFollowsBids ==
    \A u \in Users :
        users[u].balance + users[u].lockedBalance + AmountOf("WON", u, bids)
            = ledger[u]["DEPOSIT"]

(* The money of a user can be told from the user's bids alone: nothing is  *)
(* locked but the active bid, nothing spent but the won ones, and a bid    *)
(* that was refunded, or lost a conflict, has cost nothing (placeBid,      *)
(* payout, refund, over all their interleavings).                          *)
THEOREM MoneyFollowsBids == Spec => [](BalanceFollowsBids /\ LockedIsActiveBid)
<1>1. TypeOK /\ LedgerExplainsBalances /\ SettledOnce => BalanceFollowsBids
  <2> SUFFICES ASSUME TypeOK, LedgerExplainsBalances, SettledOnce, NEW u \in Users
               PROVE  users[u].balance + users[u].lockedBalance + AmountOf("WON", u, bids)
                         = ledger[u]["DEPOSIT"]
    BY DEF BalanceFollowsBids
  <2>1. \A t \in LedgerType : ledger[u][t] \in Nat
    BY DEF TypeOK, Ledger
  <2>2. Reconciled(users[u], ledger[u]) /\ ledger[u]["PAYOUT"] = AmountOf("WON", u, bids)
    BY DEF LedgerExplainsBalances, SettledOnce, Settled
  <2> QED
    BY <2>1, <2>2 DEF Reconciled, LedgerType
<1> QED
  BY <1>1, MoneySafe, BidsSettledOnce, PTL
=============================================================================
