------------------------ MODULE AuctionTransactions ------------------------
(***************************************************************************)
(* One auction under concurrent MongoDB transactions: bid requests         *)
(* (BidService.placeBid) and the auction's own operations                  *)
(* (AuctionService.startAuction, closeCurrentRound, advanceRound and       *)
(* finalizeAuction, called by the round scheduler).                        *)
(*                                                                         *)
(* A transaction reads the snapshot it begins on and keeps its writes to   *)
(* itself until it commits.  A commit dooms every open transaction that    *)
(* writes one of the documents it has written: such a transaction can only *)
(* abort (write conflict).  Reads conflict with nothing, and neither do    *)
(* inserted ledger entries.  The documents a transaction is going to write *)
(* are fixed by its snapshot, so they are put in its write set when it     *)
(* begins; the loops over winners and refunds then run one bid per step.   *)
(*                                                                         *)
(* Abstractions.  Bids of equal amount are ranked in any order: createdAt  *)
(* is not modelled.  A bid document is named by the request that created   *)
(* it.  The FINALIZING status is written and overwritten inside one        *)
(* transaction and is never committed.                                     *)
(***************************************************************************)
EXTENDS Accounts, FiniteSetsExt

CONSTANTS
    Users,            \* bidders
    Requests,         \* bid requests made during a behaviour
    Workers,          \* sessions that run the auction's own operations
    Amounts,          \* the amounts bidders offer
    InitialDeposit,   \* what every user starts with
    MinBid,
    TotalGifts,
    TotalRounds,
    DirectFinalize    \* TRUE: finalizeAuction is also called on an auction in
                      \* its last round whether or not that round is closed,
                      \* the case its own settling of an open round is for

ASSUME AmountsAssumption == Amounts \subseteq Nat
ASSUME ParametersAssumption ==
    /\ InitialDeposit \in Nat
    /\ MinBid \in Nat \ {0}
    /\ TotalGifts \in Nat \ {0}
    /\ TotalRounds \in Nat \ {0}
ASSUME SessionsAssumption == Requests \cap Workers = {}
ASSUME RequestsAssumption == IsFiniteSet(Requests)

VARIABLES
    auction,   \* the auction document
    rounds,    \* the round documents, by round index
    bids,      \* the bid documents
    users,     \* the user documents
    ledger,    \* totals of the ledger entries of every user
    txn,       \* txn[p]: the transaction of session p
    request,   \* request[q]: where bid request q stands
    worker     \* worker[w]: the operation worker w is in

db == <<auction, rounds, bids, users, ledger>>
vars == <<auction, rounds, bids, users, ledger, txn, request, worker>>

Sessions == Requests \cup Workers

-----------------------------------------------------------------------------
(* Documents.                                                              *)

RoundIndex == 0 .. TotalRounds - 1

Auction == [status : {"CREATED", "RUNNING", "COMPLETED"}, currentRound : RoundIndex]

Round == [closed : BOOLEAN, winnersCount : Nat]

NotWon == -1

Bid == [user : Users, amount : Nat, status : {"ACTIVE", "WON", "REFUNDED"},
        roundIndex : RoundIndex, wonInRoundIndex : RoundIndex \cup {NotWon}]

OpenRound == [closed |-> FALSE, winnersCount |-> 0]

\* f is a function from a subset of D to R: a collection, or part of one.
IsPartial(f, D, R) == DOMAIN f \subseteq D /\ f \in [DOMAIN f -> R]

(* A transaction: auction holds the new auction document, if it writes it; *)
(* rounds, bids and users the new versions of the documents it writes;     *)
(* entries the ledger entries it inserts; todo the winning and refunded    *)
(* bids its loop has not reached yet, each with its final document.        *)
IsTransaction(t) ==
    /\ t = [open |-> t.open, doomed |-> t.doomed, auction |-> t.auction,
            rounds |-> t.rounds, bids |-> t.bids, users |-> t.users,
            entries |-> t.entries, todo |-> t.todo]
    /\ t.open \in BOOLEAN /\ t.doomed \in BOOLEAN
    /\ t.auction \subseteq Auction
    /\ IsPartial(t.rounds, RoundIndex, Round)
    /\ IsPartial(t.bids, Requests, Bid)
    /\ IsPartial(t.users, Users, User)
    /\ IsPartial(t.entries, Users, Ledger)
    /\ IsPartial(t.todo, Requests, Bid)

\* The documents a transaction writes, by id: none, one, and those of a
\* collection once the writes have been applied to it.
NoWrites == [x \in {} |-> x]

Only(id, doc) == [x \in {id} |-> doc]

Overlay(writes, collection) ==
    [x \in DOMAIN writes \cup DOMAIN collection |->
        IF x \in DOMAIN writes THEN writes[x] ELSE collection[x]]

EntriesAdded(totals, entries) == [k \in LedgerType |-> totals[k] + entries[k]]

NoTxn == [open |-> FALSE, doomed |-> FALSE, auction |-> {}, rounds |-> NoWrites,
          bids |-> NoWrites, users |-> NoWrites, entries |-> NoWrites,
          todo |-> NoWrites]

DoomedTxn == [open |-> TRUE, doomed |-> TRUE, auction |-> {}, rounds |-> NoWrites,
              bids |-> NoWrites, users |-> NoWrites, entries |-> NoWrites,
              todo |-> NoWrites]

Txn(newAuction, newRounds, newBids, newUsers, newEntries, todo) ==
    [open |-> TRUE, doomed |-> FALSE, auction |-> newAuction, rounds |-> newRounds,
     bids |-> newBids, users |-> newUsers, entries |-> newEntries, todo |-> todo]

-----------------------------------------------------------------------------
(* Reading the database.                                                   *)

ActiveBids == {b \in DOMAIN bids : bids[b].status = "ACTIVE"}

ActiveBidsOf(u) == {b \in ActiveBids : bids[b].user = u}

Running == auction.status = "RUNNING"

CurrentRoundOpen ==
    /\ auction.currentRound \in DOMAIN rounds
    /\ ~ rounds[auction.currentRound].closed

IsLastRound == auction.currentRound = TotalRounds - 1

\* Gifts awarded by the closed rounds among the given ones.
Awarded(R) ==
    SumFunctionOnSet([i \in R |-> rounds[i].winnersCount], {i \in R : rounds[i].closed})

AlreadyAwarded == Awarded({i \in DOMAIN rounds : i < auction.currentRound})

AllGiftsAwarded == Awarded(DOMAIN rounds) >= TotalGifts

CeilDiv(a, b) == (a + b - 1) \div b

\* Mutant: the last round does not count what earlier rounds gave away.
GiftsPerRoundUncounted ==
    IF IsLastRound THEN TotalGifts ELSE CeilDiv(TotalGifts, TotalRounds)

\* Winners the current round may have; none when every gift is awarded.
GiftsPerRound ==
    LET remaining == Max({0, TotalGifts - AlreadyAwarded})
    IN  IF IsLastRound THEN remaining
        ELSE Min({CeilDiv(TotalGifts, TotalRounds), remaining})

\* How many of n documents a query returns: MongoDB reads limit(0) as no limit.
Limited(n, limit) == IF limit = 0 THEN n ELSE Min({n, limit})

\* Mutant: the query does not filter on status.
TopBidsOfAnyStatus(limit) ==
    {W \in SUBSET DOMAIN bids :
        /\ Cardinality(W) = Limited(Cardinality(DOMAIN bids), limit)
        /\ \A b \in W, o \in DOMAIN bids \ W : bids[b].amount >= bids[o].amount}

\* calculateWinners: the first `limit` active bids, highest amount first.
TopBids(limit) ==
    {W \in SUBSET ActiveBids :
        /\ Cardinality(W) = Limited(Cardinality(ActiveBids), limit)
        /\ \A b \in W, o \in ActiveBids \ W : bids[b].amount >= bids[o].amount}

-----------------------------------------------------------------------------
(* Control of the sessions.                                                *)

BidRequest == [pc : {"ready", "open"}, user : Users, amount : Nat, round : RoundIndex]

NewRequest == [pc |-> "new"]
AnsweredRequest == [pc |-> "answered"]

(* A worker is idle, in the transaction of one of the four operations, or  *)
(* has closed the round and has to advance or finalize ("closed").         *)
(* "finalizing" comes after "closed", "directFinalizing" out of turn.      *)
WorkerState == {"idle", "starting", "closing", "closed", "advancing", "finalizing",
                "directFinalizing"}

TypeOK ==
    /\ auction \in Auction
    /\ IsPartial(rounds, RoundIndex, Round)
    /\ IsPartial(bids, Requests, Bid)
    /\ users \in [Users -> User]
    /\ ledger \in [Users -> Ledger]
    /\ DOMAIN txn = Sessions /\ \A p \in Sessions : IsTransaction(txn[p])
    /\ request \in [Requests -> BidRequest \cup {NewRequest, AnsweredRequest}]
    /\ worker \in [Workers -> WorkerState]

Init ==
    /\ auction = [status |-> "CREATED", currentRound |-> 0]
    /\ rounds = NoWrites
    /\ bids = NoWrites
    /\ users = [u \in Users |-> NewUser(InitialDeposit)]
    /\ ledger = [u \in Users |-> AddEntry(NoEntries, "DEPOSIT", InitialDeposit)]
    /\ txn = [p \in Sessions |-> NoTxn]
    /\ request = [q \in Requests |-> NewRequest]
    /\ worker = [w \in Workers |-> "idle"]

-----------------------------------------------------------------------------
(* placeBid.                                                               *)

\* The controller reads the auction and its current round, outside any
\* transaction; the round it read goes into the bid.
ReadAuction(q, u, amount) ==
    /\ request[q] = NewRequest
    /\ auction.currentRound \in DOMAIN rounds
    /\ request' = [request EXCEPT
                     ![q] = [pc |-> "ready", user |-> u, amount |-> amount,
                             round |-> auction.currentRound]]
    /\ UNCHANGED <<auction, rounds, bids, users, ledger, txn, worker>>

\* What BidService checks before it looks at the user's active bid.
BidAccepted(r) == Running /\ r.amount >= MinBid

\* Raising bid b of the user to the requested amount is allowed.
MayRaise(r, b) ==
    /\ CanLock(users[r.user], r.amount - bids[b].amount)
    /\ r.amount > bids[b].amount

RaisedBid(r, b) ==
    [user |-> bids[b].user, amount |-> r.amount, status |-> bids[b].status,
     roundIndex |-> r.round, wonInRoundIndex |-> bids[b].wonInRoundIndex]

BeginBidTxn(q, bid, b, delta) ==
    LET u == request[q].user IN
    /\ txn' = [txn EXCEPT
                 ![q] = Txn({}, NoWrites, Only(b, bid),
                            Only(u, LockFunds(users[u], delta)),
                            Only(u, AddEntry(NoEntries, "LOCK", delta)), NoWrites)]
    /\ request' = [request EXCEPT ![q] = [@ EXCEPT !.pc = "open"]]
    /\ UNCHANGED <<auction, rounds, bids, users, ledger, worker>>

\* Mutant: the bid is raised without locking the difference.
RaiseBidWithoutLock(q, b) ==
    LET r == request[q] IN
    /\ r.pc = "ready"
    /\ BidAccepted(r)
    /\ b \in ActiveBidsOf(r.user)
    /\ MayRaise(r, b)
    /\ BeginBidTxn(q, RaisedBid(r, b), b, 0)

\* The user already has an active bid: lock the difference, update the bid.
RaiseBid(q, b) ==
    LET r == request[q] IN
    /\ r.pc = "ready"
    /\ BidAccepted(r)
    /\ b \in ActiveBidsOf(r.user)
    /\ MayRaise(r, b)
    /\ BeginBidTxn(q, RaisedBid(r, b), b, r.amount - bids[b].amount)

\* No active bid of the user: create one and lock its amount.
CreateBid(q) ==
    LET r == request[q] IN
    /\ r.pc = "ready"
    /\ BidAccepted(r)
    /\ ActiveBidsOf(r.user) = {}
    /\ CanLock(users[r.user], r.amount)
    /\ BeginBidTxn(q, [user |-> r.user, amount |-> r.amount, status |-> "ACTIVE",
                       roundIndex |-> r.round, wonInRoundIndex |-> NotWon],
                   q, r.amount)

\* A failed validation is answered without a retry.
RejectBid(q) ==
    LET r == request[q] IN
    /\ r.pc = "ready"
    /\ \/ ~ BidAccepted(r)
       \/ \E b \in ActiveBidsOf(r.user) : ~ MayRaise(r, b)
       \/ ActiveBidsOf(r.user) = {} /\ ~ CanLock(users[r.user], r.amount)
    /\ request' = [request EXCEPT ![q] = AnsweredRequest]
    /\ UNCHANGED <<auction, rounds, bids, users, ledger, txn, worker>>

-----------------------------------------------------------------------------
(* The auction's own operations.                                           *)

BeginWorkerTxn(w, pc, t) ==
    /\ worker' = [worker EXCEPT ![w] = pc]
    /\ txn' = [txn EXCEPT ![w] = t]
    /\ UNCHANGED <<auction, rounds, bids, users, ledger, request>>

Owners(B) == {bids[b].user : b \in B}

Won(b) ==
    [user |-> bids[b].user, amount |-> bids[b].amount, status |-> "WON",
     roundIndex |-> bids[b].roundIndex, wonInRoundIndex |-> auction.currentRound]

Refunded(b) == [bids[b] EXCEPT !.status = "REFUNDED"]

\* A transaction that is going to settle the bids W as won and R as refunded.
SettlingTxn(newAuction, newRounds, W, R) ==
    Txn(newAuction, newRounds, [b \in W \cup R |-> bids[b]],
        [u \in Owners(W \cup R) |-> users[u]],
        [u \in Owners(W \cup R) |-> NoEntries],
        [b \in W \cup R |-> IF b \in W THEN Won(b) ELSE Refunded(b)])

ClosedWith(W) ==
    Only(auction.currentRound, [closed |-> TRUE, winnersCount |-> Cardinality(W)])

\* startAuction: the creator's request; round 0 is created.
BeginStart(w) ==
    /\ worker[w] = "idle"
    /\ auction.status = "CREATED"
    /\ BeginWorkerTxn(w, "starting",
          Txn({[status |-> "RUNNING", currentRound |-> 0]}, Only(0, OpenRound),
              NoWrites, NoWrites, NoWrites, NoWrites))

\* closeCurrentRound: mark the winners WON, pay them out, close the round.
BeginClose(w) ==
    /\ worker[w] = "idle"
    /\ Running
    /\ CurrentRoundOpen
    /\ \E W \in IF GiftsPerRound = 0 THEN {{}} ELSE TopBids(GiftsPerRound) :
          BeginWorkerTxn(w, "closing", SettlingTxn({}, ClosedWith(W), W, {}))

\* Mutant: the scheduler does not look at the gifts before it advances.
BeginAdvanceRegardless(w) ==
    LET next == auction.currentRound + 1 IN
    /\ worker[w] = "closed"
    /\ Running
    /\ next < TotalRounds
    /\ next \notin DOMAIN rounds
    /\ BeginWorkerTxn(w, "advancing",
          Txn({[auction EXCEPT !.currentRound = next]}, Only(next, OpenRound),
              [b \in ActiveBids |-> [bids[b] EXCEPT !.roundIndex = next]],
              NoWrites, NoWrites, NoWrites))

\* advanceRound: carry every active bid over, create the next round.
BeginAdvance(w) ==
    LET next == auction.currentRound + 1 IN
    /\ worker[w] = "closed"
    /\ Running
    /\ ~ AllGiftsAwarded
    /\ next < TotalRounds
    /\ next \notin DOMAIN rounds
    /\ BeginWorkerTxn(w, "advancing",
          Txn({[auction EXCEPT !.currentRound = next]}, Only(next, OpenRound),
              [b \in ActiveBids |-> [bids[b] EXCEPT !.roundIndex = next]],
              NoWrites, NoWrites, NoWrites))

\* Who calls finalizeAuction: a worker that closed the last round or the
\* round that awarded the last gift, or anybody in the last round if
\* DirectFinalize.
FinalizeCalled(w) ==
    \/ worker[w] = "closed" /\ (IsLastRound \/ AllGiftsAwarded)
    \/ worker[w] = "idle" /\ DirectFinalize /\ IsLastRound

FinalizingState(w) ==
    IF worker[w] = "closed" THEN "finalizing" ELSE "directFinalizing"

\* finalizeAuction: settle an open last round, refund every other active bid.
BeginFinalize(w) ==
    /\ FinalizeCalled(w)
    /\ Running
    /\ LET settles == CurrentRoundOpen /\ IsLastRound IN
       \E W \in IF settles THEN TopBids(GiftsPerRound) ELSE {{}} :
          BeginWorkerTxn(w, FinalizingState(w),
            SettlingTxn({[auction EXCEPT !.status = "COMPLETED"]},
                        IF settles THEN ClosedWith(W) ELSE NoWrites,
                        W, ActiveBids \ W))

\* One turn of the loop over winners, or over the bids to refund.  The
\* service refuses to take more than what is locked: then it cannot settle.
Settle(p, b) ==
    LET t == txn[p]
        doc == t.todo[b]
        u == doc.user
        won == doc.status = "WON"
    IN
    /\ t.open
    /\ ~ t.doomed
    /\ b \in DOMAIN t.todo
    /\ CanTakeLocked(t.users[u], doc.amount)
    /\ txn' = [txn EXCEPT
         ![p] = Txn(t.auction, t.rounds, [t.bids EXCEPT ![b] = doc],
                    [t.users EXCEPT ![u] = IF won THEN Payout(@, doc.amount)
                                                  ELSE Refund(@, doc.amount)],
                    [t.entries EXCEPT ![u] =
                       AddEntry(@, IF won THEN "PAYOUT" ELSE "REFUND", doc.amount)],
                    [c \in DOMAIN t.todo \ {b} |-> t.todo[c]])]
    /\ UNCHANGED <<auction, rounds, bids, users, ledger, request, worker>>

\* The worker has nothing to do about the round it closed any more: another
\* worker completed the auction, or this one met an error or stopped.
LeaveRound(w) ==
    /\ worker[w] = "closed"
    /\ worker' = [worker EXCEPT ![w] = "idle"]
    /\ UNCHANGED <<auction, rounds, bids, users, ledger, txn, request>>

-----------------------------------------------------------------------------
(* The end of a transaction.                                               *)

\* Mutant: user documents are left out of the conflict detection.
OverlapExceptUsers(s, t) ==
    \/ s.auction # {} /\ t.auction # {}
    \/ DOMAIN s.rounds \cap DOMAIN t.rounds # {}
    \/ DOMAIN s.bids \cap DOMAIN t.bids # {}

\* Mutant: the services write bids and balances outside the session.
OverlapOfAuctionAndRounds(s, t) ==
    \/ s.auction # {} /\ t.auction # {}
    \/ DOMAIN s.rounds \cap DOMAIN t.rounds # {}

\* The two transactions write a document in common.
Overlap(s, t) ==
    \/ s.auction # {} /\ t.auction # {}
    \/ DOMAIN s.rounds \cap DOMAIN t.rounds # {}
    \/ DOMAIN s.bids \cap DOMAIN t.bids # {}
    \/ DOMAIN s.users \cap DOMAIN t.users # {}

\* What session p does next once its transaction has committed.
AfterCommit(p) ==
    /\ request' = IF p \in Requests
                  THEN [request EXCEPT ![p] = AnsweredRequest] ELSE request
    /\ worker' = IF p \in Workers
                 THEN [worker EXCEPT ![p] = IF @ = "closing" THEN "closed" ELSE "idle"]
                 ELSE worker

Commit(p) ==
    LET t == txn[p] IN
    /\ t.open
    /\ ~ t.doomed
    /\ DOMAIN t.todo = {}
    /\ auction' = IF t.auction = {} THEN auction ELSE CHOOSE a \in t.auction : TRUE
    /\ rounds' = Overlay(t.rounds, rounds)
    /\ bids' = Overlay(t.bids, bids)
    /\ users' = Overlay(t.users, users)
    /\ ledger' = [u \in Users |->
                    IF u \in DOMAIN t.entries
                    THEN EntriesAdded(ledger[u], t.entries[u])
                    ELSE ledger[u]]
    /\ txn' = [o \in Sessions |->
                 CASE o = p -> NoTxn
                   [] o # p /\ txn[o].open /\ Overlap(t, txn[o]) -> DoomedTxn
                   [] OTHER -> txn[o]]
    /\ AfterCommit(p)

\* A transaction may always abort.  withTransaction, or the loop of placeBid,
\* runs it again on a new snapshot (retry), or the caller gets an error.
Abort(p, retry) ==
    /\ txn[p].open
    /\ txn' = [txn EXCEPT ![p] = NoTxn]
    /\ request' = IF p \in Requests
                  THEN [request EXCEPT ![p] = IF retry THEN [@ EXCEPT !.pc = "ready"]
                                                       ELSE AnsweredRequest]
                  ELSE request
    /\ worker' = IF p \in Workers
                 THEN [worker EXCEPT
                         ![p] = IF retry /\ @ \in {"advancing", "finalizing"}
                                THEN "closed" ELSE "idle"]
                 ELSE worker
    /\ UNCHANGED db

-----------------------------------------------------------------------------
PlaceBid(q) ==
    \/ \E u \in Users, amount \in Amounts : ReadAuction(q, u, amount)
    \/ \E b \in DOMAIN bids : RaiseBid(q, b)
    \/ CreateBid(q)
    \/ RejectBid(q)

Work(w) ==
    \/ BeginStart(w)
    \/ BeginClose(w)
    \/ BeginAdvance(w)
    \/ BeginFinalize(w)
    \/ LeaveRound(w)

Next ==
    \/ \E q \in Requests : PlaceBid(q)
    \/ \E w \in Workers : Work(w)
    \/ \E p \in Sessions : \/ \E b \in DOMAIN txn[p].todo : Settle(p, b)
                           \/ Commit(p)
                           \/ \E retry \in BOOLEAN : Abort(p, retry)

Spec == Init /\ [][Next]_vars

-----------------------------------------------------------------------------
(* A user has at most one active bid in the auction, although two requests *)
(* of the user may both have seen none (bid.schema.ts: "Only one ACTIVE    *)
(* bid per user per auction at a time").                                   *)
OneActiveBid ==
    \A b, c \in ActiveBids : bids[b].user = bids[c].user => b = c

(* The user's locked balance is the amount of the user's active bid, zero  *)
(* without one (user.schema.ts: "Sum of all active bid amounts for this    *)
(* user").                                                                 *)
LockedIsActiveBid ==
    \A u \in Users :
        /\ \A b \in ActiveBidsOf(u) : users[u].lockedBalance = bids[b].amount
        /\ ActiveBidsOf(u) = {} => users[u].lockedBalance = 0

(* The ledger explains both balances of every user, over every             *)
(* interleaving of bids, round closings and refunds.                       *)
LedgerExplainsBalances == \A u \in Users : Reconciled(users[u], ledger[u])

(* Concurrent requests never overdraw a user (user.schema.ts: balance and  *)
(* lockedBalance "Must be >= 0").                                          *)
BalancesNonNegative == \A u \in Users : NonNegative(users[u])

(* No payout or refund of a running settlement is refused for lack of      *)
(* locked funds, unless the transaction is lost anyway: one bid that could *)
(* not be paid would keep the whole round from closing.                    *)
SettlementCovered ==
    \A p \in Sessions :
        txn[p].open /\ ~ txn[p].doomed =>
            \A b \in DOMAIN txn[p].todo :
                CanTakeLocked(txn[p].users[txn[p].todo[b].user], txn[p].todo[b].amount)

\* What the bids of user u in collection B that have this status amount to.
AmountOf(status, u, B) ==
    SumFunctionOnSet([b \in DOMAIN B |-> B[b].amount],
                     {b \in DOMAIN B : B[b].user = u /\ B[b].status = status})

\* The ledger totals of u account for the settled bids in collection B.
Settled(B, totals, u) == /\ totals["PAYOUT"] = AmountOf("WON", u, B)
                         /\ totals["REFUND"] = AmountOf("REFUNDED", u, B)

(* Each won bid has been paid out once and each refunded bid refunded      *)
(* once, at its last amount (auction.service.ts: "bidId как referenceId -  *)
(* один возврат на ставку").                                               *)
SettledOnce == \A u \in Users : Settled(bids, ledger[u], u)

(* The rounds together award no more gifts than the auction has, and every *)
(* closed round has exactly the winners it counts (auction.service.ts:     *)
(* "всего подарков = totalGifts, никогда не больше").                      *)
GiftsNotOverAwarded ==
    /\ Awarded(DOMAIN rounds) <= TotalGifts
    /\ \A i \in DOMAIN rounds :
          LET winners == {b \in DOMAIN bids : bids[b].wonInRoundIndex = i} IN
          Cardinality(winners) = IF rounds[i].closed THEN rounds[i].winnersCount ELSE 0

(* A bid is never deleted and never leaves its user; its amount only grows *)
(* while it is active; once won or refunded it is final (bid.schema.ts,    *)
(* "Status lifecycle").                                                    *)
BidLifecycle ==
    [][\A b \in DOMAIN bids :
          /\ b \in DOMAIN bids'
          /\ bids'[b].user = bids[b].user
          /\ bids'[b].amount >= bids[b].amount
          /\ bids[b].status # "ACTIVE" => bids'[b] = bids[b]
          /\ bids'[b].status # "ACTIVE" => bids'[b].amount = bids[b].amount]_vars

-----------------------------------------------------------------------------
(* The inductive invariant behind the properties of the money.             *)

\* User document and ledger totals of u agree with the bids in collection B.
UserSound(B, user, totals, u) ==
    LET own == {b \in DOMAIN B : B[b].status = "ACTIVE" /\ B[b].user = u} IN
    /\ \A b, c \in own : b = c
    /\ \A b \in own : user.lockedBalance = B[b].amount
    /\ own = {} => user.lockedBalance = 0
    /\ Reconciled(user, totals)
    /\ NonNegative(user)

\* Of the bids of a user whose balances it leaves alone, a transaction
\* changes neither amount nor status.
WritesBidsOfItsUsers(t) ==
    \A b \in DOMAIN t.bids :
        /\ b \in DOMAIN bids => t.bids[b].user = bids[b].user
        /\ t.bids[b].user \notin DOMAIN t.users =>
              /\ b \in DOMAIN bids
              /\ t.bids[b].status = bids[b].status
              /\ t.bids[b].amount = bids[b].amount

TodoIsActive(t) ==
    \A b \in DOMAIN t.todo :
        /\ b \in DOMAIN t.bids
        /\ t.bids[b].status = "ACTIVE"
        /\ t.todo[b].status # "ACTIVE"
        /\ t.todo[b].user = t.bids[b].user
        /\ t.todo[b].amount = t.bids[b].amount
        /\ t.todo[b].user \in DOMAIN t.users

TxnSound(t, p) ==
    /\ DOMAIN t.entries = DOMAIN t.users
    /\ \A u \in DOMAIN t.users :
          UserSound(Overlay(t.bids, bids), t.users[u],
                    EntriesAdded(ledger[u], t.entries[u]), u)
    /\ WritesBidsOfItsUsers(t)
    /\ TodoIsActive(t)
    /\ DOMAIN t.bids \subseteq DOMAIN bids \cup {p}

CommittedSound == \A u \in Users : UserSound(bids, users[u], ledger[u], u)

TransactionsSound ==
    \A p \in Sessions : txn[p].open /\ ~ txn[p].doomed => TxnSound(txn[p], p)

RequestsSound ==
    \A q \in Requests :
        /\ request[q] # AnsweredRequest => q \notin DOMAIN bids
        /\ txn[q].open => request[q] \in BidRequest /\ request[q].pc = "open"

(* Before the money of a user moves, in the database as in a transaction   *)
(* that may still commit, the user's documents agree with each other.      *)
IInv == TypeOK /\ CommittedSound /\ TransactionsSound /\ RequestsSound

-----------------------------------------------------------------------------
(* The amount of the user's active bid. *)
Stake(u) ==
    IF ActiveBidsOf(u) = {} THEN 0 ELSE bids[CHOOSE b \in ActiveBidsOf(u) : TRUE].amount

E == INSTANCE Escrow WITH
        wallet <- [u \in Users |-> [free |-> users[u].balance, stake |-> Stake(u),
                                    spent |-> ledger[u]["PAYOUT"]]]

(* The database moves money only as Escrow allows: every commit moves the  *)
(* money of each user at most once, a user's whole stake is paid out or    *)
(* given back at its last amount, and no interleaving loses or creates     *)
(* money (BidService, AuctionService and BalanceService together).         *)
RefinesEscrow == E!Spec

L == INSTANCE RoundLifecycle WITH
        status  <- auction.status,
        current <- auction.currentRound,
        closed  <- auction.currentRound \in DOMAIN rounds /\ ~ CurrentRoundOpen,
        awarded <- Awarded(DOMAIN rounds)

(* The committed transactions of several workers take the auction through  *)
(* its rounds in order and once each, as RoundScheduler takes it for       *)
(* granted of the calls it makes: the auction document that they all write *)
(* or the round document they close keeps them apart.                      *)
RefinesLifecycle == L!Spec

(* Expected of SPEC.md 6.3, "Все ACTIVE ставки будут либо WON, либо        *)
(* REFUNDED": no bid is left active when the auction is completed.         *)
NoStrandedBid == auction.status = "COMPLETED" => ActiveBids = {}
=============================================================================
