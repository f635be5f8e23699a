------------------------ MODULE RoundSchedulerProofs ------------------------
(***************************************************************************)
(* The jobs of RoundScheduler take one auction through its rounds safely,  *)
(* for any number of processes, overlapping jobs, rounds, gifts, retries,  *)
(* failures and crashes: IInv is inductive, and with the sums of what the  *)
(* rounds award (GiftsLeft) every step is one of RoundLifecycle or none.   *)
(***************************************************************************)
EXTENDS RoundScheduler, SumTheorems, FiniteSetTheorems, TLAPS

USE ParametersAssumption

-----------------------------------------------------------------------------
(* What the steps have in common.                                          *)

LEMMA IndexTypes ==
    /\ RoundIndex \subseteq Nat
    /\ 0 \in RoundIndex
    /\ TotalRounds - 1 \in RoundIndex
    /\ \A j \in Jobs : j[1] \in Instances /\ <<j[1], 1>> \in Jobs
    /\ \A i \in Instances : <<i, 1>> \in Jobs
  BY DEF RoundIndex, Jobs

\* A job is idle, or goes for another attempt, after an error.
LEMMA RetriedType ==
    ASSUME TypeOK, NEW j \in Jobs
    PROVE  /\ Retried(j) \in Job
           /\ Retried(j).pc \in {"idle", "closing"}
           /\ Retried(j).round \in {0, job[j].round}
  BY IndexTypes DEF TypeOK, Retried, Job, JobState, Idle, At

LEMMA AtType ==
    ASSUME NEW pc \in JobState, NEW i \in RoundIndex, NEW a \in 1 .. MaxRetries
    PROVE  At(pc, i, a) \in Job /\ At(pc, i, a).pc = pc /\ At(pc, i, a).round = i
  BY DEF At, Job

LEMMA IdleType == Idle \in Job /\ Idle.pc = "idle" /\ Idle.round = 0
  BY IndexTypes DEF Idle, At, Job, JobState

\* What a call's answer does to the job that made it and to the others.
LEMMA AnswerMoves ==
    ASSUME TypeOK, NEW j \in Jobs, NEW lost \in BOOLEAN, NEW next \in Job,
           Answer(j, lost, next)
    PROVE  /\ job' \in [Jobs -> Job]
           /\ faults' \in 0 .. MaxFaults
           /\ UNCHANGED <<server, crashes>>
           /\ \A o \in Jobs \ {j} : job'[o] = job[o]
           /\ job'[j] \in {next, Retried(j)}
  <1>1. job' \in [Jobs -> Job] BY RetriedType DEF TypeOK, Answer
  <1>2. faults' \in 0 .. MaxFaults BY DEF TypeOK, Answer
  <1> QED BY <1>1, <1>2 DEF TypeOK, Answer

LEMMA GotoMoves ==
    ASSUME TypeOK, NEW j \in Jobs, NEW next \in Job, Goto(j, next)
    PROVE  /\ job' \in [Jobs -> Job]
           /\ UNCHANGED <<auction, round, server, faults, crashes>>
           /\ \A o \in Jobs \ {j} : job'[o] = job[o]
           /\ job'[j] = next
  BY DEF TypeOK, Goto

\* An auction that has closed no round has awarded nothing.
LEMMA NothingAwarded ==
    ASSUME \A i \in RoundIndex : round[i].state # "closed"
    PROVE  ~ AllGiftsAwarded
  <1>1. Closed = {} BY DEF Closed
  <1>2. SumFunctionOnSet(Winners, {}) = 0
        BY DEF SumFunctionOnSet, FoldFunctionOnSet, MapThenFoldSet
  <1> QED BY <1>1, <1>2 DEF AllGiftsAwarded, Awarded

\* Only the closing of a round changes what has been awarded.
LEMMA SameAwarded ==
    ASSUME \A i \in RoundIndex :
              \/ round'[i] = round[i]
              \/ round[i].state # "closed" /\ round'[i].state # "closed"
    PROVE  Awarded' = Awarded /\ AllGiftsAwarded' = AllGiftsAwarded
  <1>1. Closed' = Closed BY DEF Closed
  <1>2. Winners' = Winners BY DEF Winners
  <1> QED BY <1>1, <1>2 DEF AllGiftsAwarded, Awarded

-----------------------------------------------------------------------------
(* Steps that move jobs and leave the auction and its rounds alone.        *)

\* Such a step makes nobody a holder, and a decision it takes is right.
LEMMA JobStep ==
    ASSUME IInv,
           job' \in [Jobs -> Job],
           server' \in [Instances -> {"up", "starting", "down"}],
           faults' \in 0 .. MaxFaults, crashes' \in 0 .. MaxCrashes,
           UNCHANGED <<auction, round>>,
           \A j \in Jobs :
              \/ job'[j] = job[j]
              \/ /\ job'[j].round <= auction.currentRound
                 /\ auction.status = "CREATED" => job'[j].pc \in {"idle", "starting"}
                 /\ job'[j].pc \in {"closed", "advancing", "finalizing"} => j \in Holders
                 /\ Running /\ job'[j].pc = "advancing" => ~ AllGiftsAwarded
                 /\ Running /\ job'[j].pc \in {"finalizing", "recovering"} =>
                       Current.state = "closed" /\ (IsLastRound \/ AllGiftsAwarded)
    PROVE  IInv'
  <1>1. /\ AllGiftsAwarded' = AllGiftsAwarded
        /\ Running' = Running
        /\ Current' = Current
        /\ IsLastRound' = IsLastRound
    <2>1. AllGiftsAwarded' = AllGiftsAwarded BY SameAwarded
    <2> QED BY <2>1 DEF Running, Current, IsLastRound
  <1>2. TypeOK' BY DEF IInv, TypeOK
  <1>3. Holders' \subseteq Holders BY DEF Holders
  <1>4. OneHolder' BY <1>1, <1>3 DEF IInv, OneHolder, Holders
  <1>5. RoundsInSequence' BY DEF IInv, RoundsInSequence
  <1>6. CompletedWhenDone' BY <1>1 DEF IInv, CompletedWhenDone
  <1>7. JobsAfterStart' BY DEF IInv, JobsAfterStart
  <1>8. OpenForGifts' BY <1>1 DEF IInv, OpenForGifts
  <1>9. DecisionsHold' BY <1>1 DEF IInv, DecisionsHold
  <1> QED BY <1>2, <1>4, <1>5, <1>6, <1>7, <1>8, <1>9 DEF IInv

\* A job that gives up, or tries again, has decided nothing.
LEMMA RetriedStep ==
    ASSUME IInv, NEW j \in Jobs, Goto(j, Retried(j)), job[j].pc \notin {"idle", "starting"}
    PROVE  IInv'
  <1>1. TypeOK BY DEF IInv
  <1>2. /\ job' \in [Jobs -> Job]
        /\ UNCHANGED <<auction, round, server, faults, crashes>>
        /\ \A o \in Jobs \ {j} : job'[o] = job[o]
        /\ job'[j] = Retried(j)
        BY <1>1, RetriedType, GotoMoves
  <1>3. /\ job'[j].round <= auction.currentRound
        /\ auction.status # "CREATED"
        BY <1>1, <1>2, RetriedType, IndexTypes DEF IInv, JobsAfterStart, TypeOK, Auction
  <1> QED BY <1>1, <1>2, <1>3, RetriedType, JobStep DEF TypeOK

LEMMA FailingCall ==
    ASSUME IInv, NEW j \in Jobs, CallFails(j) \/ RecoverFails(j)
    PROVE  IInv'
  <1>1. TypeOK BY DEF IInv
  <1> DEFINE next == job'[j]
  <1>2. (next = Retried(j) /\ auction.status # "CREATED") \/ next = Idle
        BY <1>1 DEF CallFails, RecoverFails, IInv, JobsAfterStart, TypeOK
  <1>3. next \in Job /\ next.pc \in {"idle", "closing"} /\ next.round \in {0, job[j].round}
        BY <1>1, <1>2, RetriedType, IdleType
  <1>4. next.pc = "idle" \/ auction.status # "CREATED" BY <1>2, IdleType
  <1>5. job' \in [Jobs -> Job] /\ \A o \in Jobs \ {j} : job'[o] = job[o]
        BY <1>1, <1>3 DEF CallFails, RecoverFails, TypeOK
  <1>6. next.round <= auction.currentRound
        BY <1>1, <1>3, IndexTypes DEF IInv, JobsAfterStart, TypeOK, Auction
  <1>7. faults' \in 0 .. MaxFaults /\ UNCHANGED <<auction, round, server, crashes>>
        BY <1>1 DEF CallFails, RecoverFails, TypeOK
  <1> QED BY <1>1, <1>3, <1>4, <1>5, <1>6, <1>7, JobStep DEF TypeOK

LEMMA FindRoundStep ==
    ASSUME IInv, NEW j \in Jobs, NEW i \in RoundIndex, FindRound(j, i)
    PROVE  IInv'
  <1>1. TypeOK /\ Goto(j, At("found", i, 1)) BY DEF IInv, FindRound
  <1>2. At("found", i, 1) \in Job /\ At("found", i, 1).pc = "found" /\ At("found", i, 1).round = i
        BY AtType DEF JobState
  <1>3. /\ job' \in [Jobs -> Job]
        /\ UNCHANGED <<auction, round, server, faults, crashes>>
        /\ \A o \in Jobs \ {j} : job'[o] = job[o]
        /\ job'[j] = At("found", i, 1)
        BY <1>1, <1>2, GotoMoves
  <1>4. i <= auction.currentRound /\ auction.status # "CREATED"
        BY <1>1, IndexTypes DEF IInv, RoundsInSequence, FindRound, TypeOK, Auction
  <1> QED BY <1>1, <1>2, <1>3, <1>4, JobStep DEF TypeOK

LEMMA CheckAgainStep ==
    ASSUME IInv, NEW j \in Jobs, CheckAgain(j)
    PROVE  IInv'
  <1> DEFINE next == IF round[job[j].round].state = "open" /\ Running
                     THEN At("closing", job[j].round, 1) ELSE Idle
  <1>1. TypeOK /\ job[j] \in Job /\ job[j].round \in RoundIndex BY DEF IInv, TypeOK, Job
  <1>2. next \in Job /\ next.pc \in {"closing", "idle"} /\ next.round \in {0, job[j].round}
        BY <1>1, IdleType, AtType DEF JobState
  <1>3. Goto(j, next) BY DEF CheckAgain
  <1> HIDE DEF next
  <1>4. /\ job' \in [Jobs -> Job]
        /\ UNCHANGED <<auction, round, server, faults, crashes>>
        /\ \A o \in Jobs \ {j} : job'[o] = job[o]
        /\ job'[j] = next
        BY <1>1, <1>2, <1>3, GotoMoves
  <1>5. next.round <= auction.currentRound /\ auction.status # "CREATED"
        BY <1>1, <1>2, IndexTypes DEF IInv, JobsAfterStart, CheckAgain, TypeOK, Auction
  <1> QED BY <1>1, <1>2, <1>4, <1>5, JobStep DEF TypeOK

LEMMA AlreadyClosedStep ==
    ASSUME IInv, NEW j \in Jobs, AlreadyClosed(j)
    PROVE  IInv'
  <1>1. TypeOK /\ Goto(j, Idle) BY DEF IInv, AlreadyClosed
  <1>2. /\ job' \in [Jobs -> Job]
        /\ UNCHANGED <<auction, round, server, faults, crashes>>
        /\ \A o \in Jobs \ {j} : job'[o] = job[o]
        /\ job'[j] = Idle
        BY <1>1, IdleType, GotoMoves
  <1>3. 0 <= auction.currentRound BY <1>1, IndexTypes DEF TypeOK, Auction
  <1> QED BY <1>1, <1>2, <1>3, IdleType, JobStep DEF TypeOK

LEMMA RefusedStep ==
    ASSUME IInv, NEW j \in Jobs, CloseRefused(j) \/ AdvanceRefused(j)
    PROVE  IInv'
  <1>1. Goto(j, Retried(j)) /\ job[j].pc \notin {"idle", "starting"}
        BY DEF CloseRefused, AdvanceRefused
  <1> QED BY <1>1, RetriedStep

\* The round the job found is the last one only if the current one is.
LEMMA DecideStep ==
    ASSUME IInv, NEW j \in Jobs, Decide(j)
    PROVE  IInv'
  <1> DEFINE done == job[j].round = TotalRounds - 1 \/ AllGiftsAwarded
             pc == IF done THEN "finalizing" ELSE "advancing"
             next == At(pc, job[j].round, job[j].attempt)
  <1>1. /\ TypeOK
        /\ job[j].round \in RoundIndex
        /\ job[j].attempt \in 1 .. MaxRetries
        BY DEF IInv, TypeOK, Job
  <1>2. pc \in JobState BY DEF JobState
  <1>3. next \in Job /\ next.pc = pc /\ next.round = job[j].round
    <2> HIDE DEF pc
    <2> QED BY <1>1, <1>2, AtType
  <1>4. Goto(j, next) BY DEF Decide
  <1>5. done => IsLastRound \/ AllGiftsAwarded
        BY <1>1, IndexTypes DEF IInv, JobsAfterStart, IsLastRound, TypeOK, Auction, RoundIndex
  <1>6. j \in Holders BY DEF Decide, Holders
  <1>7. Running => Current.state = "closed" BY <1>6 DEF IInv, OneHolder
  <1>8. job[j].round <= auction.currentRound /\ auction.status # "CREATED"
        BY DEF IInv, JobsAfterStart, Decide
  <1> HIDE DEF next
  <1>9. /\ job' \in [Jobs -> Job]
        /\ UNCHANGED <<auction, round, server, faults, crashes>>
        /\ \A o \in Jobs \ {j} : job'[o] = job[o]
        /\ job'[j] = next
        BY <1>1, <1>3, <1>4, GotoMoves
  <1>10. (next.pc = "advancing" => ~ AllGiftsAwarded) /\ (next.pc = "finalizing" => done)
         /\ next.pc \in {"advancing", "finalizing"}
         BY <1>3
  <1> HIDE DEF done
  <1> QED BY <1>1, <1>3, <1>5, <1>6, <1>7, <1>8, <1>9, <1>10, JobStep DEF TypeOK

\* The recovery finalizes only an auction whose current round is closed.
LEMMA RecoverStep ==
    ASSUME IInv, NEW j \in Jobs, Recover(j)
    PROVE  IInv'
  <1>1. TypeOK /\ Current \in Round /\ auction.currentRound \in RoundIndex
        BY DEF IInv, TypeOK, Current, Auction
  <1>2. PICK next \in Job :
          /\ Goto(j, next)
          /\ \/ next.pc = "recovering" /\ next.round = 0 /\ Running /\ NeedsFinalize
             \/ next.pc = "found" /\ next.round = auction.currentRound /\ Running
             \/ next = Idle
    <2>1. CASE Running /\ NeedsFinalize
      <3>1. At("recovering", 0, 1) \in Job /\ At("recovering", 0, 1).pc = "recovering"
            /\ At("recovering", 0, 1).round = 0
            BY AtType, IndexTypes DEF JobState
      <3> QED BY <2>1, <3>1 DEF Recover
    <2>2. CASE Running /\ ~ NeedsFinalize /\ Current.state = "open" /\ Current.due
      <3>1. At("found", auction.currentRound, 1) \in Job
            /\ At("found", auction.currentRound, 1).pc = "found"
            /\ At("found", auction.currentRound, 1).round = auction.currentRound
            BY <1>1, AtType DEF JobState
      <3> QED BY <2>2, <3>1 DEF Recover
    <2>3. CASE ~ (Running /\ NeedsFinalize)
               /\ ~ (Running /\ ~ NeedsFinalize /\ Current.state = "open" /\ Current.due)
      <3>1. Goto(j, Idle) BY <2>3 DEF Recover
      <3> QED BY <3>1, IdleType
    <2> QED BY <2>1, <2>2, <2>3
  <1>3. /\ job' \in [Jobs -> Job]
        /\ UNCHANGED <<auction, round, server, faults, crashes>>
        /\ \A o \in Jobs \ {j} : job'[o] = job[o]
        /\ job'[j] = next
        BY <1>1, <1>2, GotoMoves
  <1>4. next.round <= auction.currentRound
        BY <1>1, <1>2, IndexTypes, IdleType
  <1>5. Running => auction.status # "CREATED" BY DEF Running
  <1>6. Running /\ NeedsFinalize => Current.state = "closed" /\ (IsLastRound \/ AllGiftsAwarded)
    <2> SUFFICES ASSUME Running, NeedsFinalize
                 PROVE  Current.state = "closed" /\ (IsLastRound \/ AllGiftsAwarded)
        OBVIOUS
    <2>1. CASE AllGiftsAwarded
      <3>1. Current.state # "open" BY <2>1 DEF IInv, OpenForGifts
      <3>2. Current.state # "none" BY <1>1, <1>5 DEF IInv, RoundsInSequence, Current
      <3> QED BY <1>1, <2>1, <3>1, <3>2 DEF Round
    <2>2. CASE round[TotalRounds - 1].state = "closed"
      <3>1. ~ (TotalRounds - 1 > auction.currentRound)
            BY <2>2, IndexTypes DEF IInv, RoundsInSequence
      <3>2. IsLastRound BY <1>1, <3>1 DEF IsLastRound, RoundIndex
      <3> QED BY <2>2, <3>2 DEF IsLastRound, Current
    <2> QED BY <2>1, <2>2 DEF NeedsFinalize
  <1> QED BY <1>1, <1>2, <1>3, <1>4, <1>5, <1>6, IdleType, JobStep DEF TypeOK

LEMMA ProcessStep ==
    ASSUME IInv, NEW i \in Instances, Crash(i) \/ Restart(i) \/ Started(i)
    PROVE  IInv'
  <1>1. TypeOK BY DEF IInv
  <1>2. 0 <= auction.currentRound BY <1>1, IndexTypes DEF TypeOK, Auction
  <1>3. At("starting", 0, 1) \in Job /\ At("starting", 0, 1).pc = "starting"
        /\ At("starting", 0, 1).round = 0
        BY AtType, IndexTypes DEF JobState
  <1>4. CASE Crash(i)
        BY <1>1, <1>2, <1>4, IdleType, JobStep DEF Crash, TypeOK
  <1>5. CASE Restart(i)
    <2> DEFINE next == At("starting", 0, 1)
    <2> HIDE DEF next
    <2>1. job' = [job EXCEPT ![<<i, 1>>] = next] BY <1>5 DEF Restart, next
    <2>2. /\ job' \in [Jobs -> Job]
          /\ \A o \in Jobs \ {<<i, 1>>} : job'[o] = job[o]
          /\ job'[<<i, 1>>] = next
          BY <1>1, <1>3, <2>1, IndexTypes DEF TypeOK, next
    <2>3. /\ server' \in [Instances -> {"up", "starting", "down"}]
          /\ UNCHANGED <<auction, round, faults, crashes>>
          BY <1>1, <1>5 DEF Restart, TypeOK
    <2> QED BY <1>1, <1>2, <1>3, <2>2, <2>3, JobStep DEF TypeOK, next
  <1>6. CASE Started(i)
        BY <1>1, <1>6, JobStep DEF Started, TypeOK
  <1> QED BY <1>4, <1>5, <1>6

-----------------------------------------------------------------------------
(* Steps that write the auction or a round.                                *)

LEMMA StartAuctionStep ==
    ASSUME IInv, StartAuction
    PROVE  IInv'
  <1>1. /\ TypeOK
        /\ auction.currentRound = 0
        /\ \A i \in RoundIndex : round[i].state = "none"
        /\ \A j \in Jobs : job[j].pc \in {"idle", "starting"}
        BY IndexTypes DEF IInv, StartAuction, JobsAfterStart, RoundsInSequence, RoundIndex
  <1>2. /\ auction' = [status |-> "RUNNING", currentRound |-> 0]
        /\ auction'.status = "RUNNING" /\ auction'.currentRound = 0
        /\ UNCHANGED <<job, server, faults, crashes>>
        BY DEF StartAuction
  <1>3. /\ round' \in [RoundIndex -> Round]
        /\ round'[0].state = "open"
        /\ \A i \in RoundIndex \ {0} : round'[i] = round[i]
        BY <1>1, IndexTypes DEF StartAuction, NewRound, Round, TypeOK
  <1>4. Holders' = {} BY <1>1, <1>2 DEF Holders
  <1>5. ~ AllGiftsAwarded'
    <2>1. ~ AllGiftsAwarded BY <1>1, NothingAwarded
    <2>2. \A i \in RoundIndex : round[i].state # "closed" /\ round'[i].state # "closed"
          BY <1>1, <1>3
    <2> QED BY <2>1, <2>2, SameAwarded
  <1>6. TypeOK' BY <1>1, <1>2, <1>3, IndexTypes DEF TypeOK, Auction
  <1>7. OneHolder' BY <1>4 DEF OneHolder
  <1>8. RoundsInSequence' BY <1>1, <1>2, <1>3, IndexTypes DEF RoundsInSequence
  <1>9. CompletedWhenDone' BY <1>2 DEF CompletedWhenDone
  <1>10. JobsAfterStart' BY <1>1, <1>2 DEF IInv, JobsAfterStart
  <1>11. OpenForGifts' BY <1>5 DEF OpenForGifts
  <1>12. DecisionsHold' BY <1>1, <1>2 DEF DecisionsHold
  <1> QED BY <1>6, <1>7, <1>8, <1>9, <1>10, <1>11, <1>12 DEF IInv

LEMMA RoundEndsStep ==
    ASSUME IInv, NEW i \in RoundIndex, RoundEnds(i)
    PROVE  IInv'
  <1>1. TypeOK /\ auction.currentRound \in RoundIndex BY DEF IInv, TypeOK, Auction
  <1>2. /\ round' \in [RoundIndex -> Round]
        /\ \A k \in RoundIndex : round'[k].state = round[k].state
        /\ \A k \in RoundIndex : round'[k] = round[k] \/ round[k].state = "open"
        BY <1>1 DEF RoundEnds, TypeOK, Round
  <1>3. UNCHANGED <<auction, job, server, faults, crashes>> BY DEF RoundEnds
  <1>4. AllGiftsAwarded' = AllGiftsAwarded BY <1>2, SameAwarded
  <1>5. /\ Running' = Running
        /\ Current'.state = Current.state
        /\ IsLastRound' = IsLastRound
        /\ Holders' = Holders
        BY <1>1, <1>2, <1>3 DEF Running, Current, IsLastRound, Holders
  <1>6. TypeOK' BY <1>1, <1>2, <1>3 DEF TypeOK
  <1>7. OneHolder' BY <1>5 DEF IInv, OneHolder
  <1>8. RoundsInSequence' BY <1>2, <1>3 DEF IInv, RoundsInSequence
  <1>9. CompletedWhenDone' BY <1>3, <1>4, <1>5 DEF IInv, CompletedWhenDone
  <1>10. JobsAfterStart' BY <1>3 DEF IInv, JobsAfterStart
  <1>11. OpenForGifts' BY <1>4, <1>5 DEF IInv, OpenForGifts
  <1>12. DecisionsHold' BY <1>3, <1>4, <1>5 DEF IInv, DecisionsHold
  <1> QED BY <1>6, <1>7, <1>8, <1>9, <1>10, <1>11, <1>12 DEF IInv

\* Nobody is a holder while the current round is open, so whoever closes it
\* is the only one; and nobody has decided anything about it.
LEMMA CloseRoundStep ==
    ASSUME IInv, NEW j \in Jobs, NEW n \in 0 .. TotalGifts, NEW lost \in BOOLEAN,
           CloseRound(j, n, lost)
    PROVE  IInv'
  <1> DEFINE next == At("closed", job[j].round, job[j].attempt)
             cur == auction.currentRound
  <1>1. /\ TypeOK
        /\ cur \in RoundIndex
        /\ job[j].round \in RoundIndex
        /\ job[j].attempt \in 1 .. MaxRetries
        BY DEF IInv, TypeOK, Job, Auction
  <1>2. /\ next \in Job /\ next.pc = "closed" /\ next.round = job[j].round
        BY <1>1, AtType DEF JobState
  <1>3. Answer(j, lost, next) BY DEF CloseRound
  <1> HIDE DEF next
  <1>4. /\ job' \in [Jobs -> Job]
        /\ faults' \in 0 .. MaxFaults
        /\ UNCHANGED <<auction, server, crashes>>
        /\ \A o \in Jobs \ {j} : job'[o] = job[o]
        /\ job'[j] \in {next, Retried(j)}
        BY <1>1, <1>2, <1>3, AnswerMoves DEF CloseRound
  <1>5. /\ job'[j].pc \in {"closed", "closing", "idle"}
        /\ job'[j].round <= cur
        BY <1>1, <1>2, <1>4, RetriedType, IndexTypes DEF IInv, JobsAfterStart
  <1>6. /\ round' \in [RoundIndex -> Round]
        /\ round'[cur].state = "closed"
        /\ \A i \in RoundIndex \ {cur} : round'[i] = round[i]
    <2>1. ClosedRound(cur, n) \in Round /\ ClosedRound(cur, n).state = "closed"
          BY <1>1 DEF ClosedRound, Round, TypeOK
    <2>2. round' = [round EXCEPT ![cur] = ClosedRound(cur, n)] BY DEF CloseRound
    <2> QED BY <1>1, <2>1, <2>2 DEF TypeOK
  <1>7. Running /\ Current.state = "open" BY DEF CloseRound
  <1>8. \A o \in Jobs : job[o].pc \notin {"closed", "advancing", "finalizing", "recovering"}
        BY <1>7 DEF IInv, OneHolder, DecisionsHold, Holders
  <1>9. Holders' \subseteq {j} BY <1>4, <1>8 DEF Holders
  <1>10. Current'.state = "closed" BY <1>4, <1>6 DEF Current
  <1>11. TypeOK' BY <1>1, <1>4, <1>6 DEF TypeOK
  <1>12. OneHolder' BY <1>9, <1>10 DEF OneHolder
  <1>13. RoundsInSequence'
        BY <1>1, <1>4, <1>6, <1>7, IndexTypes DEF IInv, RoundsInSequence, Running
  <1>14. CompletedWhenDone' BY <1>4, <1>7 DEF CompletedWhenDone, Running
  <1>15. JobsAfterStart' BY <1>4, <1>5, <1>7 DEF IInv, JobsAfterStart, Running
  <1>16. OpenForGifts' BY <1>10 DEF OpenForGifts
  <1>17. DecisionsHold' BY <1>4, <1>5, <1>8 DEF DecisionsHold
  <1> QED BY <1>11, <1>12, <1>13, <1>14, <1>15, <1>16, <1>17 DEF IInv

\* The job that advances is the only holder, so the round it leaves is closed.
LEMMA AdvanceRoundStep ==
    ASSUME IInv, NEW j \in Jobs, NEW lost \in BOOLEAN, AdvanceRound(j, lost)
    PROVE  IInv'
  <1> DEFINE cur == auction.currentRound
             next == cur + 1
  <1>1. /\ TypeOK
        /\ cur \in RoundIndex
        /\ Running
        /\ next \in RoundIndex
        /\ round[next].state = "none"
        BY DEF IInv, TypeOK, Auction, AdvanceRound, RoundIndex
  <1>2. /\ auction'.status = "RUNNING" /\ auction'.currentRound = next
        /\ auction' \in Auction
        BY <1>1 DEF AdvanceRound, Auction
  <1>3. /\ job' \in [Jobs -> Job]
        /\ faults' \in 0 .. MaxFaults
        /\ UNCHANGED <<server, crashes>>
        /\ \A o \in Jobs \ {j} : job'[o] = job[o]
        /\ job'[j] \in {Idle, Retried(j)}
        BY <1>1, IdleType, AnswerMoves DEF AdvanceRound
  <1>4. job'[j].pc \in {"idle", "closing"} /\ job'[j].round \in {0, job[j].round}
        BY <1>1, <1>3, IdleType, RetriedType
  <1>5. /\ round' \in [RoundIndex -> Round]
        /\ round'[next].state = "open"
        /\ \A i \in RoundIndex \ {next} : round'[i] = round[i]
    <2>1. NewRound \in Round /\ NewRound.state = "open" BY DEF NewRound, Round
    <2>2. round' = [round EXCEPT ![next] = NewRound] BY DEF AdvanceRound
    <2> QED BY <1>1, <2>1, <2>2 DEF TypeOK
  <1>6. j \in Holders BY DEF AdvanceRound, Holders
  <1>7. /\ Current.state = "closed"
        /\ \A o \in Jobs \ {j} : job[o].pc \notin {"closed", "advancing", "finalizing"}
        BY <1>1, <1>6 DEF IInv, OneHolder, Holders
  <1>8. ~ AllGiftsAwarded BY <1>1 DEF IInv, DecisionsHold, AdvanceRound
  <1>9. ~ IsLastRound BY <1>1 DEF IsLastRound, RoundIndex
  <1>10. \A o \in Jobs : job[o].pc # "recovering"
        BY <1>1, <1>8, <1>9 DEF IInv, DecisionsHold
  <1>11. ~ AllGiftsAwarded'
    <2>1. \A i \in RoundIndex :
             \/ round'[i] = round[i]
             \/ round[i].state # "closed" /\ round'[i].state # "closed"
          BY <1>1, <1>5
    <2> QED BY <1>8, <2>1, SameAwarded
  <1>12. Holders' = {} BY <1>3, <1>4, <1>7 DEF Holders
  <1>13. TypeOK' BY <1>1, <1>2, <1>3, <1>5 DEF TypeOK
  <1>14. OneHolder' BY <1>12 DEF OneHolder
  <1>15. RoundsInSequence'
    <2>1. \A i \in RoundIndex : i < next => i < cur \/ i = cur BY <1>1, IndexTypes
    <2>2. round[cur].state = "closed" BY <1>7 DEF Current
    <2>3. \A i \in RoundIndex : i < next => round'[i].state = "closed"
          BY <1>1, <1>5, <2>1, <2>2, IndexTypes DEF IInv, RoundsInSequence
    <2>4. \A i \in RoundIndex : i > next => round'[i].state = "none"
          BY <1>1, <1>5, IndexTypes DEF IInv, RoundsInSequence
    <2> QED BY <1>2, <1>5, <2>3, <2>4 DEF RoundsInSequence
  <1>16. CompletedWhenDone' BY <1>2 DEF CompletedWhenDone
  <1>17. JobsAfterStart'
    <2>1. \A o \in Jobs : job'[o].round <= cur
          BY <1>1, <1>3, <1>4, IndexTypes DEF IInv, JobsAfterStart
    <2>2. \A o \in Jobs : job'[o].round \in Nat
          BY <1>3, IndexTypes DEF Job
    <2> QED BY <1>1, <1>2, <2>1, <2>2, IndexTypes DEF JobsAfterStart
  <1>18. OpenForGifts' BY <1>11 DEF OpenForGifts
  <1>19. DecisionsHold' BY <1>3, <1>4, <1>7, <1>10 DEF DecisionsHold
  <1> QED BY <1>13, <1>14, <1>15, <1>16, <1>17, <1>18, <1>19 DEF IInv

\* Completing the auction: the decision to do so still holds, and a round
\* that would have to be settled first is not open any more.
LEMMA CompletingStep ==
    ASSUME IInv, NEW j \in Jobs, Finalized,
           job[j].pc \in {"finalizing", "recovering"},
           job' \in [Jobs -> Job],
           faults' \in 0 .. MaxFaults,
           UNCHANGED <<server, crashes>>,
           \A o \in Jobs \ {j} : job'[o] = job[o],
           job'[j].pc \in {"idle", "closing"},
           job'[j].round \in {0, job[j].round}
    PROVE  IInv'
  <1> DEFINE cur == auction.currentRound
  <1>1. TypeOK /\ cur \in RoundIndex BY DEF IInv, TypeOK, Auction
  <1>2. auction.status # "CREATED" BY DEF IInv, JobsAfterStart
  <1>3. Current.state = "closed" /\ (IsLastRound \/ AllGiftsAwarded)
    <2>1. CASE Running BY <2>1 DEF IInv, DecisionsHold
    <2>2. CASE ~ Running
      <3>1. auction.status = "COMPLETED" BY <1>1, <1>2, <2>2 DEF TypeOK, Auction, Running
      <3> QED BY <3>1 DEF IInv, CompletedWhenDone
    <2> QED BY <2>1, <2>2
  <1>4. UNCHANGED round BY <1>3 DEF Finalized
  <1>5. /\ auction'.status = "COMPLETED" /\ auction'.currentRound = cur
        /\ auction' \in Auction
        BY <1>1 DEF Finalized, Auction
  <1>6. ~ Running' BY <1>5 DEF Running
  <1>7. AllGiftsAwarded' = AllGiftsAwarded BY <1>4, SameAwarded
  <1>8. TypeOK' BY <1>1, <1>4, <1>5 DEF TypeOK
  <1>9. OneHolder' BY <1>6 DEF OneHolder
  <1>10. RoundsInSequence'
        BY <1>1, <1>2, <1>4, <1>5 DEF IInv, RoundsInSequence
  <1>11. CompletedWhenDone'
        BY <1>3, <1>4, <1>5, <1>7 DEF CompletedWhenDone, Current, IsLastRound
  <1>12. JobsAfterStart'
        BY <1>1, <1>5, IndexTypes DEF IInv, JobsAfterStart
  <1>13. OpenForGifts' BY <1>6 DEF OpenForGifts
  <1>14. DecisionsHold' BY <1>6 DEF DecisionsHold
  <1> QED BY <1>8, <1>9, <1>10, <1>11, <1>12, <1>13, <1>14 DEF IInv

LEMMA FinalizeStep ==
    ASSUME IInv, NEW j \in Jobs, NEW lost \in BOOLEAN, FinalizeAuction(j, lost)
    PROVE  IInv'
  <1>1. TypeOK BY DEF IInv
  <1>2. /\ job' \in [Jobs -> Job]
        /\ faults' \in 0 .. MaxFaults
        /\ UNCHANGED <<server, crashes>>
        /\ \A o \in Jobs \ {j} : job'[o] = job[o]
        /\ job'[j] \in {Idle, Retried(j)}
        BY <1>1, IdleType, AnswerMoves DEF FinalizeAuction
  <1>3. job'[j].pc \in {"idle", "closing"} /\ job'[j].round \in {0, job[j].round}
        BY <1>1, <1>2, IdleType, RetriedType
  <1>4. job[j].pc = "finalizing" /\ Finalized BY DEF FinalizeAuction
  <1> QED BY <1>2, <1>3, <1>4, CompletingStep

LEMMA RecoverFinalizeStep ==
    ASSUME IInv, NEW j \in Jobs, RecoverFinalize(j)
    PROVE  IInv'
  <1>1. TypeOK BY DEF IInv
  <1>2. /\ job' \in [Jobs -> Job]
        /\ faults' \in 0 .. MaxFaults
        /\ UNCHANGED <<server, crashes>>
        /\ \A o \in Jobs \ {j} : job'[o] = job[o]
        /\ job'[j] = Idle
        BY <1>1, IdleType DEF RecoverFinalize, TypeOK
  <1>3. job[j].pc = "recovering" /\ Finalized BY DEF RecoverFinalize
  <1> QED BY <1>2, <1>3, IdleType, CompletingStep

-----------------------------------------------------------------------------

LEMMA InitIInv == Init => IInv
  <1> SUFFICES ASSUME Init PROVE IInv OBVIOUS
  <1>1. /\ auction.status = "CREATED" /\ auction.currentRound = 0
        /\ \A i \in RoundIndex : round[i] = NoRound
        /\ \A j \in Jobs : job[j] = Idle
        BY DEF Init
  <1>2. NoRound \in Round /\ NoRound.state = "none" BY DEF NoRound, Round
  <1>3. TypeOK BY <1>2, IdleType, IndexTypes DEF Init, TypeOK, Auction
  <1>4. RoundsInSequence BY <1>1, <1>2, IndexTypes DEF RoundsInSequence
  <1>5. JobsAfterStart BY <1>1, IdleType DEF JobsAfterStart
  <1>6. OneHolder /\ CompletedWhenDone /\ OpenForGifts /\ DecisionsHold
        BY <1>1 DEF OneHolder, CompletedWhenDone, OpenForGifts, DecisionsHold, Running
  <1> QED BY <1>3, <1>4, <1>5, <1>6 DEF IInv

LEMMA StutterIInv == ASSUME IInv, UNCHANGED vars PROVE IInv'
  <1>1. TypeOK BY DEF IInv
  <1> QED BY <1>1, JobStep DEF vars, TypeOK

LEMMA NextIInv == IInv /\ [Next]_vars => IInv'
  <1> SUFFICES ASSUME IInv, [Next]_vars PROVE IInv' OBVIOUS
  <1>1. CASE StartAuction BY <1>1, StartAuctionStep
  <1>2. CASE \E i \in RoundIndex : RoundEnds(i) BY <1>2, RoundEndsStep
  <1>3. ASSUME NEW j \in Jobs, Step(j) PROVE IInv'
        BY <1>3, FindRoundStep, CheckAgainStep, CloseRoundStep, AlreadyClosedStep,
           RefusedStep, DecideStep, AdvanceRoundStep, FinalizeStep, RecoverStep,
           RecoverFinalizeStep DEF Step
  <1>4. ASSUME NEW j \in Jobs, Fault(j) PROVE IInv'
        BY <1>4, CloseRoundStep, AdvanceRoundStep, FinalizeStep, FailingCall DEF Fault
  <1>5. CASE \E i \in Instances : Crash(i) \/ Restart(i) \/ Started(i)
        BY <1>5, ProcessStep
  <1>6. CASE UNCHANGED vars BY <1>6, StutterIInv
  <1> QED BY <1>1, <1>2, <1>3, <1>4, <1>5, <1>6 DEF Next

(* Whatever jobs overlap, calls fail, answers are lost and processes crash *)
(* and recover: a round that has been closed is followed up by one job     *)
(* only, the auction goes through its rounds in order, and it is completed *)
(* only when its rounds or its gifts have run out (closeRoundWithRetry,    *)
(* advanceRound, finalizeAuction, recoverStuckAuctions).                   *)
THEOREM RoundsSafe ==
    Spec => [](TypeOK /\ OneHolder /\ RoundsInSequence /\ CompletedWhenDone)
  <1>1. IInv => TypeOK /\ OneHolder /\ RoundsInSequence /\ CompletedWhenDone
        BY DEF IInv
  <1> QED BY <1>1, InitIInv, NextIInv, PTL DEF Spec

(* What a job has decided to do is still right when it does it.            *)
THEOREM DecisionsSafe == Spec => []IInv
  BY InitIInv, NextIInv, PTL DEF Spec

(* The rounds, the jobs with their attempts and the recovery keep their shape. *)
THEOREM SchedulerTypeCorrect == Spec => []TypeOK
BY RoundsSafe, PTL

(* However jobs overlap, fail, retry and are cut off by a crash, the rounds *)
(* are opened one after the other, each after the one before is closed.    *)
THEOREM RoundsOrdered == Spec => []RoundsInSequence
BY RoundsSafe, PTL

-----------------------------------------------------------------------------
(* What the rounds award, and the life of the auction they make up.        *)

\* The closed rounds together award no more than the gifts there are.
GiftsLeft == Awarded \in 0 .. TotalGifts

LEMMA RoundTypes ==
    ASSUME TypeOK
    PROVE  /\ IsFiniteSet(Closed)
           /\ \A i \in Closed : Winners[i] \in Nat
           /\ auction.currentRound \in RoundIndex
  <1>1. IsFiniteSet(RoundIndex) BY FS_Interval DEF RoundIndex
  <1>2. IsFiniteSet(Closed) BY <1>1, FS_Subset DEF Closed
  <1>3. \A i \in Closed : Winners[i] \in Nat BY DEF Closed, Winners, TypeOK, Round
  <1> QED BY <1>2, <1>3 DEF TypeOK, Auction

\* While the current round is open, the rounds before it are all that are
\* closed, so what it may award is what they have left.
LEMMA RemainingIsLeft ==
    ASSUME IInv, GiftsLeft, Current.state = "open"
    PROVE  /\ RemainingGifts = TotalGifts - Awarded
           /\ GiftsPerRound \in Int
           /\ GiftsPerRound <= TotalGifts - Awarded
  <1>1. TypeOK /\ auction.currentRound \in RoundIndex BY RoundTypes DEF IInv
  <1>2. {i \in Closed : i < auction.currentRound} = Closed
        BY <1>1, IndexTypes DEF IInv, RoundsInSequence, Closed, Current
  <1>3. Awarded \in Nat /\ TotalGifts - Awarded \in Nat BY DEF GiftsLeft
  <1>4. RemainingGifts = Max({0, TotalGifts - Awarded})
        BY <1>2 DEF RemainingGifts, Awarded
  <1>5. RemainingGifts = TotalGifts - Awarded BY <1>3, <1>4 DEF Max
  <1>6. CASE IsLastRound BY <1>3, <1>5, <1>6 DEF GiftsPerRound
  <1>7. CASE ~ IsLastRound
    <2>1. CeilDiv(TotalGifts, TotalRounds) \in Int BY DEF CeilDiv
    <2>2. GiftsPerRound = Min({CeilDiv(TotalGifts, TotalRounds), TotalGifts - Awarded})
          BY <1>5, <1>7 DEF GiftsPerRound
    <2> QED BY <1>3, <1>5, <2>1, <2>2 DEF Min
  <1> QED BY <1>5, <1>6, <1>7

\* Closing the current round with n winners adds n to what is awarded.
LEMMA ClosingAwards ==
    ASSUME IInv, Current.state = "open", NEW n \in Nat, UNCHANGED auction,
           round' = [round EXCEPT ![auction.currentRound] =
                       ClosedRound(auction.currentRound, n)]
    PROVE  Awarded' = Awarded + n /\ (Current.state = "closed")'
  <1> DEFINE cur == auction.currentRound
             f == Winners'
  <1>1. TypeOK /\ cur \in RoundIndex BY RoundTypes DEF IInv
  <1>2. /\ cur \notin Closed
        /\ round'[cur] = ClosedRound(cur, n)
        /\ \A i \in RoundIndex \ {cur} : round'[i] = round[i]
        BY <1>1 DEF Closed, Current, TypeOK
  <1>3. ClosedRound(cur, n).state = "closed" /\ ClosedRound(cur, n).winnersCount = n
        BY DEF ClosedRound
  <1>4. Closed' = Closed \cup {cur} BY <1>1, <1>2, <1>3 DEF Closed
  <1>5. f[cur] = n BY <1>1, <1>2, <1>3 DEF Winners
  <1>6. \A i \in Closed : f[i] = Winners[i] BY <1>2 DEF Closed, Winners
  <1>7. IsFiniteSet(Closed) /\ \A i \in Closed : Winners[i] \in Nat
        BY <1>1, RoundTypes
  <1>8. Awarded' = SumFunctionOnSet(f, Closed \cup {cur}) BY <1>4 DEF Awarded
  <1> HIDE DEF f
  <1>9. \A i \in Closed \cup {cur} : f[i] \in Nat BY <1>5, <1>6, <1>7
  <1>10. SumFunctionOnSet(f, Closed \cup {cur}) = f[cur] + SumFunctionOnSet(f, Closed)
         BY <1>2, <1>7, <1>9, SumAdd
  <1>11. SumFunctionOnSet(f, Closed) = Awarded
         BY <1>6, <1>7, SumSame DEF Awarded
  <1>12. Awarded \in Nat BY <1>7, SumType DEF Awarded
  <1>13. (Current.state = "closed")' BY <1>2, <1>3 DEF Current
  <1> QED BY <1>5, <1>8, <1>10, <1>11, <1>12, <1>13

\* A step of RoundLifecycle, or none, that leaves no more awarded than there is.
Follows == GiftsLeft' /\ [L!Next]_(L!lifecycle)

\* A step that closes no round and leaves the auction alone is none.
LEMMA StutterFollows ==
    ASSUME GiftsLeft, UNCHANGED auction,
           (Current.state = "closed")' = (Current.state = "closed"),
           Awarded' = Awarded
    PROVE  Follows
  BY DEF Follows, GiftsLeft, L!lifecycle

LEMMA StartFollows ==
    ASSUME IInv, GiftsLeft, StartAuction
    PROVE  Follows
  <1>1. /\ TypeOK
        /\ auction.currentRound = 0
        /\ \A i \in RoundIndex : round[i].state = "none"
        BY IndexTypes DEF IInv, StartAuction, JobsAfterStart, RoundsInSequence, RoundIndex
  <1>2. /\ auction.status = "CREATED"
        /\ auction'.status = "RUNNING" /\ auction'.currentRound = 0
        BY DEF StartAuction
  <1>3. /\ round'[0].state = "open"
        /\ \A i \in RoundIndex \ {0} : round'[i] = round[i]
        BY <1>1, IndexTypes DEF StartAuction, NewRound, TypeOK
  <1>4. Awarded' = Awarded
    <2>1. \A i \in RoundIndex : round[i].state # "closed" /\ round'[i].state # "closed"
          BY <1>1, <1>3
    <2> QED BY <2>1, SameAwarded
  <1>5. (Current.state = "closed") = FALSE /\ (Current.state = "closed")' = FALSE
        BY <1>1, <1>2, <1>3, IndexTypes DEF Current
  <1>6. L!Start BY <1>1, <1>2, <1>4, <1>5 DEF L!Start
  <1> QED BY <1>4, <1>6 DEF Follows, GiftsLeft, L!Next

LEMMA RoundEndsFollows ==
    ASSUME IInv, GiftsLeft, NEW i \in RoundIndex, RoundEnds(i)
    PROVE  Follows
  <1>1. TypeOK /\ auction.currentRound \in RoundIndex BY RoundTypes DEF IInv
  <1>2. /\ \A k \in RoundIndex : round'[k].state = round[k].state
        /\ \A k \in RoundIndex : round'[k] = round[k] \/ round[k].state = "open"
        /\ UNCHANGED auction
        BY <1>1 DEF RoundEnds, TypeOK, Round
  <1>3. Awarded' = Awarded BY <1>2, SameAwarded
  <1>4. (Current.state = "closed")' = (Current.state = "closed")
        BY <1>1, <1>2 DEF Current
  <1> QED BY <1>2, <1>3, <1>4, StutterFollows

LEMMA CloseRoundFollows ==
    ASSUME IInv, GiftsLeft, NEW j \in Jobs, NEW n \in 0 .. TotalGifts, NEW lost \in BOOLEAN,
           CloseRound(j, n, lost)
    PROVE  Follows
  <1>1. /\ Running /\ Current.state = "open" /\ UNCHANGED auction
        /\ n <= GiftsPerRound
        BY DEF CloseRound
  <1>2. Awarded' = Awarded + n /\ (Current.state = "closed")'
    <2>1. round' = [round EXCEPT ![auction.currentRound] =
                      ClosedRound(auction.currentRound, n)]
          BY DEF CloseRound
    <2>2. n \in Nat OBVIOUS
    <2> QED BY <1>1, <2>1, <2>2, ClosingAwards
  <1>3. Awarded + n \in Awarded .. TotalGifts
        BY <1>1, RemainingIsLeft DEF GiftsLeft
  <1>4. L!CloseRound BY <1>1, <1>2, <1>3 DEF L!CloseRound, Running
  <1>5. GiftsLeft' BY <1>2, <1>3 DEF GiftsLeft
  <1> QED BY <1>4, <1>5 DEF Follows, L!Next

LEMMA AdvanceRoundFollows ==
    ASSUME IInv, GiftsLeft, NEW j \in Jobs, NEW lost \in BOOLEAN, AdvanceRound(j, lost)
    PROVE  Follows
  <1> DEFINE cur == auction.currentRound
             next == cur + 1
  <1>1. /\ TypeOK
        /\ cur \in RoundIndex
        /\ Running
        /\ next \in RoundIndex /\ next < TotalRounds
        /\ round[next].state = "none"
        BY RoundTypes, IndexTypes DEF IInv, AdvanceRound, RoundIndex
  <1>2. auction'.status = "RUNNING" /\ auction'.currentRound = next
        BY DEF AdvanceRound
  <1>3. /\ round'[next].state = "open"
        /\ \A i \in RoundIndex \ {next} : round'[i] = round[i]
        BY <1>1 DEF AdvanceRound, NewRound, TypeOK
  <1>4. Awarded' = Awarded
    <2>1. \A i \in RoundIndex :
             \/ round'[i] = round[i]
             \/ round[i].state # "closed" /\ round'[i].state # "closed"
          BY <1>1, <1>3
    <2> QED BY <2>1, SameAwarded
  <1>5. j \in Holders BY DEF AdvanceRound, Holders
  <1>6. Current.state = "closed" BY <1>1, <1>5 DEF IInv, OneHolder
  <1>7. Awarded < TotalGifts
        BY <1>1 DEF IInv, DecisionsHold, AdvanceRound, AllGiftsAwarded, GiftsLeft
  <1>8. (Current.state = "closed")' = FALSE BY <1>2, <1>3 DEF Current
  <1>9. L!OpenNextRound BY <1>1, <1>2, <1>4, <1>6, <1>7, <1>8 DEF L!OpenNextRound, Running
  <1> QED BY <1>4, <1>9 DEF Follows, GiftsLeft, L!Next

\* finalizeAuction finds the current round closed, the auction running or
\* completed already.
LEMMA FinalizedFollows ==
    ASSUME IInv, GiftsLeft, NEW j \in Jobs, Finalized,
           job[j].pc \in {"finalizing", "recovering"}
    PROVE  Follows
  <1>1. TypeOK /\ auction.currentRound \in RoundIndex BY RoundTypes DEF IInv
  <1>2. auction.status \in {"RUNNING", "COMPLETED"}
        BY <1>1 DEF IInv, JobsAfterStart, TypeOK, Auction
  <1>3. Current.state = "closed" /\ (IsLastRound \/ AllGiftsAwarded)
        BY <1>2 DEF IInv, DecisionsHold, CompletedWhenDone, Running
  <1>4. UNCHANGED round /\ auction'.status = "COMPLETED"
        /\ auction'.currentRound = auction.currentRound
        BY <1>3 DEF Finalized
  <1>5. Awarded' = Awarded BY <1>4, SameAwarded
  <1>6. (Current.state = "closed")' BY <1>3, <1>4 DEF Current
  <1>7. auction.currentRound + 1 = TotalRounds \/ Awarded = TotalGifts
        BY <1>1, <1>3, IndexTypes DEF IsLastRound, AllGiftsAwarded, GiftsLeft
  <1>8. CASE Running
    <2>1. L!Complete BY <1>3, <1>4, <1>5, <1>6, <1>7, <1>8 DEF L!Complete, Running
    <2> QED BY <1>5, <2>1 DEF Follows, GiftsLeft, L!Next
  <1>9. CASE ~ Running
    <2>1. auction.status = "COMPLETED" BY <1>2, <1>9 DEF Running
    <2> QED BY <1>3, <1>4, <1>5, <1>6, <2>1 DEF Follows, GiftsLeft, L!lifecycle
  <1> QED BY <1>8, <1>9

LEMMA NextFollows ==
    ASSUME IInv, GiftsLeft, [Next]_vars
    PROVE  Follows
  <1>1. ASSUME UNCHANGED <<auction, round>> PROVE Follows
    <2>1. Awarded' = Awarded BY <1>1, SameAwarded
    <2>2. (Current.state = "closed")' = (Current.state = "closed") BY <1>1 DEF Current
    <2> QED BY <1>1, <2>1, <2>2, StutterFollows
  <1>2. CASE StartAuction BY <1>2, StartFollows
  <1>3. CASE \E i \in RoundIndex : RoundEnds(i) BY <1>3, RoundEndsFollows
  <1>4. ASSUME NEW j \in Jobs, Step(j) PROVE Follows
    <2>1. CASE \E n \in 0 .. TotalGifts : CloseRound(j, n, FALSE)
          BY <2>1, CloseRoundFollows
    <2>2. CASE AdvanceRound(j, FALSE) BY <2>2, AdvanceRoundFollows
    <2>3. CASE FinalizeAuction(j, FALSE) \/ RecoverFinalize(j)
          BY <2>3, FinalizedFollows DEF FinalizeAuction, RecoverFinalize
    <2>4. CASE \/ \E i \in RoundIndex : FindRound(j, i)
               \/ CheckAgain(j)
               \/ AlreadyClosed(j)
               \/ CloseRefused(j)
               \/ Decide(j)
               \/ AdvanceRefused(j)
               \/ Recover(j)
      <3>1. UNCHANGED <<auction, round>>
            BY <2>4 DEF FindRound, CheckAgain, AlreadyClosed, CloseRefused, Decide,
               AdvanceRefused, Recover, Goto
      <3> QED BY <3>1, <1>1
    <2> QED BY <1>4, <2>1, <2>2, <2>3, <2>4 DEF Step
  <1>5. ASSUME NEW j \in Jobs, Fault(j) PROVE Follows
    <2>1. CASE \E n \in 0 .. TotalGifts : CloseRound(j, n, TRUE)
          BY <2>1, CloseRoundFollows
    <2>2. CASE AdvanceRound(j, TRUE) BY <2>2, AdvanceRoundFollows
    <2>3. CASE FinalizeAuction(j, TRUE) BY <2>3, FinalizedFollows DEF FinalizeAuction
    <2>4. CASE CallFails(j) \/ RecoverFails(j)
          BY <2>4, <1>1 DEF CallFails, RecoverFails
    <2> QED BY <1>5, <2>1, <2>2, <2>3, <2>4 DEF Fault
  <1>6. CASE \E i \in Instances : Crash(i) \/ Restart(i) \/ Started(i)
        BY <1>1, <1>6 DEF Crash, Restart, Started
  <1>7. CASE UNCHANGED vars BY <1>1, <1>7 DEF vars
  <1> QED BY <1>2, <1>3, <1>4, <1>5, <1>6, <1>7 DEF Next

(* Whatever jobs overlap, retry a call whose answer was lost, or recover   *)
(* an auction when a process starts, the auction lives as RoundLifecycle   *)
(* says: its rounds are closed and opened in turn and once each, together  *)
(* they award no more than its gifts, and it is completed once, when its   *)
(* rounds or its gifts have run out.                                       *)
THEOREM SchedulerImplementsLifecycle == Spec => RefinesLifecycle
  <1>1. Init => L!Init /\ GiftsLeft
    <2> SUFFICES ASSUME Init PROVE L!Init /\ GiftsLeft OBVIOUS
    <2>1. /\ auction.status = "CREATED" /\ auction.currentRound = 0
          /\ \A i \in RoundIndex : round[i].state = "none"
          BY DEF Init, NoRound
    <2>2. Closed = {} BY <2>1 DEF Closed
    <2>3. Awarded = 0 BY <2>2, SumEmpty DEF Awarded
    <2>4. (Current.state = "closed") = FALSE BY <2>1, IndexTypes DEF Current
    <2> QED BY <2>1, <2>3, <2>4 DEF L!Init, GiftsLeft
  <1>2. IInv /\ GiftsLeft /\ [Next]_vars => GiftsLeft' /\ [L!Next]_(L!lifecycle)
        BY NextFollows DEF Follows
  <1> QED BY <1>1, <1>2, InitIInv, NextIInv, PTL DEF Spec, RefinesLifecycle, L!Spec
=============================================================================
