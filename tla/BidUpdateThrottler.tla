-------------------------- MODULE BidUpdateThrottler --------------------------
(***************************************************************************)
(* BidUpdateThrottlerService in one process, for one auction: the bid      *)
(* updates the controllers queue, the timer that flushes them every 100 ms *)
(* without waiting for its previous run, and the forceFlush of the round   *)
(* scheduler.  Every query is an await: bids are placed and settled and    *)
(* updates queued between a query, its answer and what the answer is used  *)
(* for.  Other auctions only make a flush take longer (FlushOthers).       *)
(***************************************************************************)
EXTENDS Naturals, FiniteSets, FiniteSetsExt

CONSTANTS Bids,
          Flushes,     \* runs of the timer callback that may overlap
          Forces,      \* calls of forceFlush that may overlap
          MaxAmount,   \* bound: amounts of a bid
          Positions,   \* TOP_POSITIONS_TO_TRACK
          MaxNotices,  \* bound: requests between commit and emitBidUpdate
          MaxFaults    \* bound: failed queries and restarts

ASSUME ThrottlerAssumption ==
    /\ MaxAmount \in Nat \ {0} /\ Positions \in Nat \ {0} /\ MaxFaults \in Nat
    /\ MaxNotices \in Nat
    /\ IsFiniteSet(Bids) /\ Flushes \cap Forces = {}

Amount == 1..MaxAmount
Jobs   == Flushes \cup Forces

VARIABLES
    bids,      \* amount of each ACTIVE bid in the database, 0 if it is not
    settled,   \* bids that have left the auction
    notices,   \* committed bids whose request has not yet queued the update
    present,   \* pendingBidUpdates has an entry for the auction
    pending,   \* amounts of the updates in its set
    lastTop,   \* lastTopPositions: amounts of the top last emitted
    shown,     \* amounts of the last bid_update the room has got
    job,       \* each flush or forceFlush
    faults

throttler == <<bids, settled, notices, present, pending, lastTop, shown, job, faults>>

\* Mutant: the query is not limited.
TopOfAll(amounts) == [a \in Amount |-> Cardinality({b \in Bids : amounts[b] >= a})]

\* The top amounts, best first, as the number of top bids of at least a.
TopOf(amounts) ==
    [a \in Amount |-> Min({Positions, Cardinality({b \in Bids : amounts[b] >= a})})]
Top  == [Amount -> 0..Positions]
None == [a \in Amount |-> 0]

\* The least amount in the top, 0 if it is empty.
MinTopAmount(top) ==
    IF top[1] = 0 THEN 0 ELSE Max({a \in Amount : top[a] = top[1]})

\* attached: the set of updates the job works on is still the map's entry;
\* batch: the amounts checkSignificance is given.
Job  == [at : {"idle", "checking", "checked", "reading", "read", "others"},
         attached : BOOLEAN, batch : SUBSET Amount, top : Top]
At(at) == [at |-> at, attached |-> FALSE, batch |-> {}, top |-> None]
Idle == At("idle")

ThrottlerInit ==
    /\ bids = [b \in Bids |-> 0] /\ settled = {} /\ notices = {}
    /\ present = FALSE /\ pending = {}
    /\ lastTop = None /\ shown = None
    /\ job = [j \in Jobs |-> Idle]
    /\ faults = 0
-----------------------------------------------------------------------------
\* placeBid commits a new bid or a raise.
PlaceBid(b) ==
    /\ b \notin settled /\ Cardinality(notices) < MaxNotices
    /\ \E a \in Amount :
          /\ a > bids[b]
          /\ bids' = [bids EXCEPT ![b] = a]
          /\ notices' = notices \cup {<<b, a>>}
    /\ UNCHANGED <<settled, present, pending, lastTop, shown, job, faults>>

\* A closing or the finalizing makes the bid WON or REFUNDED.
SettleBid(b) ==
    /\ bids[b] > 0
    /\ bids' = [bids EXCEPT ![b] = 0]
    /\ settled' = settled \cup {b}
    /\ UNCHANGED <<notices, present, pending, lastTop, shown, job, faults>>

\* The request calls emitBidUpdate.  An earlier update of the same bid stays
\* in the set: `b.id === bid.id` compares two ObjectIds, which are two objects.
QueueBidUpdate(n) ==
    /\ n \in notices
    /\ notices' = notices \ {n}
    /\ present' = TRUE
    /\ pending' = pending \cup {n[2]}
    /\ UNCHANGED <<bids, settled, lastTop, shown, job, faults>>

\* The timer fires with the auction in the map: checkSignificance starts its
\* query; with nothing in the set the auction is passed over.
FlushPendingUpdates(f) ==
    /\ job[f].at = "idle" /\ present
    /\ job' = [job EXCEPT ![f] =
                 IF pending = {} THEN At("others")
                 ELSE [At("checking") EXCEPT !.attached = TRUE, !.batch = pending]]
    /\ UNCHANGED <<bids, settled, notices, present, pending, lastTop, shown, faults>>

\* The round scheduler calls forceFlush.
ForceFlush(r) ==
    /\ job[r].at = "idle" /\ present /\ pending # {}
    /\ job' = [job EXCEPT ![r] = At("reading")]
    /\ UNCHANGED <<bids, settled, notices, present, pending, lastTop, shown, faults>>

\* The database answers getTopActiveBids.
GetTopActiveBids(j) ==
    /\ job[j].at \in {"checking", "reading"}
    /\ job' = [job EXCEPT ![j].at = IF @ = "checking" THEN "checked" ELSE "read",
                          ![j].top = TopOf(bids)]
    /\ UNCHANGED <<bids, settled, notices, present, pending, lastTop, shown, faults>>

\* checkSignificance, once it has the top.
Significant(top, batch) ==
    \/ lastTop[1] = 0
    \/ top # lastTop
    \/ \E a \in batch : a >= MinTopAmount(top) \/ a >= MinTopAmount(lastTop)

\* updates.clear(): the set may no longer be the map's entry.
ClearUpdates(f) == pending' = IF job[f].attached THEN {} ELSE pending

\* Mutant: the baseline is set where the significance is decided.
ProceedWithBaseline(f) ==
    /\ job[f].at = "checked" /\ Significant(job[f].top, job[f].batch)
    /\ lastTop' = job[f].top
    /\ job' = [job EXCEPT ![f] = [At("reading") EXCEPT !.attached = job[f].attached]]
    /\ UNCHANGED <<bids, settled, notices, present, pending, shown, faults>>

\* Worth sending: the top is read once more, to be sent.
Proceed(f) ==
    /\ job[f].at = "checked" /\ Significant(job[f].top, job[f].batch)
    /\ job' = [job EXCEPT ![f] = [At("reading") EXCEPT !.attached = job[f].attached]]
    /\ UNCHANGED <<bids, settled, notices, present, pending, lastTop, shown, faults>>

\* Mutant: the set is cleared only behind an emit, not in `finally`.
SkipWithoutClear(f) ==
    /\ job[f].at = "checked" /\ ~Significant(job[f].top, job[f].batch)
    /\ job' = [job EXCEPT ![f] = At("others")]
    /\ UNCHANGED <<bids, settled, notices, present, pending, lastTop, shown, faults>>

\* Not worth sending.
Skip(f) ==
    /\ job[f].at = "checked" /\ ~Significant(job[f].top, job[f].batch)
    /\ ClearUpdates(f)
    /\ job' = [job EXCEPT ![f] = At("others")]
    /\ UNCHANGED <<bids, settled, notices, present, lastTop, shown, faults>>

\* lastTopPositions.set and emitBidUpdateImmediate, in one go.
EmitTop(j) == lastTop' = job[j].top /\ shown' = job[j].top

Emit(f) ==
    /\ job[f].at = "read" /\ f \in Flushes
    /\ EmitTop(f)
    /\ ClearUpdates(f)
    /\ job' = [job EXCEPT ![f] = At("others")]
    /\ UNCHANGED <<bids, settled, notices, present, faults>>

\* The map's entry is deleted; jobs under way keep the set they have.
DeleteEntry(jobs) == /\ present' = FALSE /\ pending' = {}
                     /\ job' = [j \in Jobs |-> [jobs[j] EXCEPT !.attached = FALSE]]

\* The flush has gone through the other auctions and removes empty entries.
FlushOthers(f) ==
    /\ job[f].at = "others"
    /\ LET done == [job EXCEPT ![f] = Idle]
       IN  IF present /\ pending = {}
           THEN DeleteEntry(done)
           ELSE job' = done /\ UNCHANGED <<present, pending>>
    /\ UNCHANGED <<bids, settled, notices, lastTop, shown, faults>>

\* forceFlush emits and deletes the entry, whichever set it is by now.
ForceEmit(r) ==
    /\ job[r].at = "read" /\ r \in Forces
    /\ EmitTop(r)
    /\ DeleteEntry([job EXCEPT ![r] = Idle])
    /\ UNCHANGED <<bids, settled, notices, faults>>

\* A query fails: a flush logs it and clears the set, forceFlush throws.
QueryFails(j) ==
    /\ job[j].at \in {"checking", "reading"} /\ faults < MaxFaults
    /\ faults' = faults + 1
    /\ IF j \in Flushes THEN job' = [job EXCEPT ![j] = At("others")] /\ ClearUpdates(j)
                        ELSE job' = [job EXCEPT ![j] = Idle] /\ UNCHANGED pending
    /\ UNCHANGED <<bids, settled, notices, present, lastTop, shown>>

\* The process stops and starts again; requests on their way are lost.
Restart ==
    /\ faults < MaxFaults
    /\ faults' = faults + 1
    /\ notices' = {} /\ present' = FALSE /\ pending' = {}
    /\ lastTop' = None
    /\ job' = [j \in Jobs |-> Idle]
    /\ UNCHANGED <<bids, settled, shown>>

Advance(j) ==
    \/ GetTopActiveBids(j) \/ Proceed(j) \/ Skip(j) \/ Emit(j)
    \/ FlushOthers(j) \/ ForceEmit(j)

ThrottlerNext ==
    \/ \E b \in Bids : PlaceBid(b) \/ SettleBid(b)
    \/ \E n \in notices : QueueBidUpdate(n)
    \/ \E f \in Flushes : FlushPendingUpdates(f)
    \/ \E r \in Forces : ForceFlush(r)
    \/ \E j \in Jobs : Advance(j) \/ QueryFails(j)
    \/ Restart

ThrottlerSpec == ThrottlerInit /\ [][ThrottlerNext]_throttler

\* The timer fires, queries are answered.
FairThrottlerSpec ==
    /\ ThrottlerSpec
    /\ \A f \in Flushes : WF_throttler(FlushPendingUpdates(f))
    /\ \A j \in Jobs : WF_throttler(Advance(j))
-----------------------------------------------------------------------------
\* Types; an update can be pending only in an entry of the map.
ThrottlerTypeOK ==
    /\ bids \in [Bids -> 0..MaxAmount] /\ settled \subseteq Bids
    /\ notices \subseteq Bids \X Amount
    /\ present \in BOOLEAN /\ pending \subseteq Amount
    /\ pending # {} => present
    /\ lastTop \in Top /\ shown \in Top
    /\ job \in [Jobs -> Job]
    /\ faults \in 0..MaxFaults

\* Two flushes and a forceFlush may emit in any order, with tops read in any
\* other, and still the baseline checkSignificance compares with is what the
\* room was sent last (or nothing, after a restart).
BaselineIsShown == lastTop # None => lastTop = shown

\* Updates never stay in the queue: each is emitted, skipped or dropped.
QueueDrains == present ~> ~present
=============================================================================
