--------------------------- MODULE RoundScheduler ---------------------------
(***************************************************************************)
(* RoundSchedulerService for one auction: cron jobs that overlap in one    *)
(* process and run in several processes, each taking the current round     *)
(* from "due" to "closed" and then the auction to its next round or to its *)
(* end.  A job calls closeCurrentRound, and advanceRound or                *)
(* finalizeAuction: each call is one MongoDB transaction, so one step      *)
(* here; what it does to bids and money is module AuctionTransactions.     *)
(* Between two calls a job keeps only the index of the round it found.     *)
(*                                                                         *)
(* A call fails without effect (any other error of MongoDB or Redis), or   *)
(* takes effect and its answer is lost.  A process stops and starts again. *)
(* Both are bounded: MaxFaults, MaxCrashes.                                *)
(***************************************************************************)
EXTENDS Functions, FiniteSetsExt, Integers

CONSTANTS
    Instances,      \* server processes
    Overlap,        \* runs of closeRoundJob a process may have at a time
    TotalGifts,
    TotalRounds,
    MaxRetries,     \* MAX_RETRIES of processRoundClosing
    MaxFaults,
    MaxCrashes

ASSUME ParametersAssumption ==
    /\ Overlap \in Nat \ {0}
    /\ TotalGifts \in Nat \ {0}
    /\ TotalRounds \in Nat \ {0}
    /\ MaxRetries \in Nat \ {0}
    /\ MaxFaults \in Nat
    /\ MaxCrashes \in Nat

VARIABLES
    auction,    \* status and currentRound of the auction document
    round,      \* round[i]: the document of round i
    job,        \* job[j]: where run j of closeRoundJob (or of the recovery) is
    server,     \* server[i]: whether process i is up
    faults,     \* calls that have failed so far
    crashes     \* processes that have stopped so far

vars == <<auction, round, job, server, faults, crashes>>

Jobs == Instances \X (1 .. Overlap)

RoundIndex == 0 .. TotalRounds - 1

Auction == [status : {"CREATED", "RUNNING", "COMPLETED"}, currentRound : RoundIndex]

\* due: endsAt has passed.
Round == [state : {"none", "open", "closed"}, due : BOOLEAN, winnersCount : Nat]

(* "found": the job has seen the round due and open; "closing": it is      *)
(* about to call closeCurrentRound; "closed": its call closed a round;     *)
(* "advancing", "finalizing": it is about to make the next call.           *)
(* "starting" and "recovering" belong to the recovery when a process       *)
(* starts, which runs as job 1 of the process.                             *)
JobState == {"idle", "found", "closing", "closed", "advancing", "finalizing",
             "starting", "recovering"}

Job == [pc : JobState, round : RoundIndex, attempt : 1 .. MaxRetries]

At(pc, i, attempt) == [pc |-> pc, round |-> i, attempt |-> attempt]

Idle == At("idle", 0, 1)

NoRound == [state |-> "none", due |-> FALSE, winnersCount |-> 0]

NewRound == [state |-> "open", due |-> FALSE, winnersCount |-> 0]

ClosedRound(i, n) == [state |-> "closed", due |-> round[i].due, winnersCount |-> n]

TypeOK ==
    /\ auction \in Auction
    /\ round \in [RoundIndex -> Round]
    /\ job \in [Jobs -> Job]
    /\ server \in [Instances -> {"up", "starting", "down"}]
    /\ faults \in 0 .. MaxFaults
    /\ crashes \in 0 .. MaxCrashes

Init ==
    /\ auction = [status |-> "CREATED", currentRound |-> 0]
    /\ round = [i \in RoundIndex |-> NoRound]
    /\ job = [j \in Jobs |-> Idle]
    /\ server = [i \in Instances |-> "up"]
    /\ faults = 0
    /\ crashes = 0

-----------------------------------------------------------------------------
Running == auction.status = "RUNNING"

Current == round[auction.currentRound]

IsLastRound == auction.currentRound = TotalRounds - 1

\* What each closed round has awarded.
Winners ==
    [i \in RoundIndex |-> IF round[i].state = "closed" THEN round[i].winnersCount ELSE 0]

Closed == {i \in RoundIndex : round[i].state = "closed"}

Awarded == SumFunctionOnSet(Winners, Closed)

AllGiftsAwarded == Awarded >= TotalGifts

CeilDiv(a, b) == (a + b - 1) \div b

RemainingGifts ==
    LET previous == {i \in Closed : i < auction.currentRound}
    IN  Max({0, TotalGifts - SumFunctionOnSet(Winners, previous)})

GiftsPerRound ==
    IF IsLastRound THEN RemainingGifts
    ELSE Min({CeilDiv(TotalGifts, TotalRounds), RemainingGifts})

\* Mutant: one attempt too many.
RetriedOnceMore(j) ==
    IF job[j].attempt <= MaxRetries
    THEN At("closing", job[j].round, job[j].attempt + 1)
    ELSE Idle

\* What is next for a job whose attempt has thrown an error.
Retried(j) ==
    IF job[j].attempt < MaxRetries
    THEN At("closing", job[j].round, job[j].attempt + 1)
    ELSE Idle

\* The call of job j has taken effect; its answer is lost, or the job goes
\* on as next.
Answer(j, lost, next) ==
    /\ lost => faults < MaxFaults
    /\ faults' = IF lost THEN faults + 1 ELSE faults
    /\ job' = [job EXCEPT ![j] = IF lost THEN Retried(j) ELSE next]
    /\ UNCHANGED <<server, crashes>>

\* Only the job moves.
Goto(j, next) ==
    /\ job' = [job EXCEPT ![j] = next]
    /\ UNCHANGED <<auction, round, server, faults, crashes>>

-----------------------------------------------------------------------------
(* The environment: the creator, the clock, the processes.                 *)

StartAuction ==
    /\ auction.status = "CREATED"
    /\ auction' = [status |-> "RUNNING", currentRound |-> 0]
    /\ round' = [round EXCEPT ![0] = NewRound]
    /\ UNCHANGED <<job, server, faults, crashes>>

RoundEnds(i) ==
    /\ round[i].state = "open"
    /\ ~ round[i].due
    /\ round' = [round EXCEPT ![i] = [state |-> "open", due |-> TRUE, winnersCount |-> 0]]
    /\ UNCHANGED <<auction, job, server, faults, crashes>>

Crash(i) ==
    /\ server[i] # "down"
    /\ crashes < MaxCrashes
    /\ crashes' = crashes + 1
    /\ server' = [server EXCEPT ![i] = "down"]
    /\ job' = [j \in Jobs |-> IF j[1] = i THEN Idle ELSE job[j]]
    /\ UNCHANGED <<auction, round, faults>>

Restart(i) ==
    /\ server[i] = "down"
    /\ server' = [server EXCEPT ![i] = "starting"]
    /\ job' = [job EXCEPT ![<<i, 1>>] = At("starting", 0, 1)]
    /\ UNCHANGED <<auction, round, faults, crashes>>

\* onModuleInit has returned: the cron jobs are started.
Started(i) ==
    /\ server[i] = "starting"
    /\ job[<<i, 1>>].pc = "idle"
    /\ server' = [server EXCEPT ![i] = "up"]
    /\ UNCHANGED <<auction, round, job, faults, crashes>>

-----------------------------------------------------------------------------
(* closeRoundJob and processRoundClosing.                                  *)

FindRound(j, i) ==
    /\ job[j].pc = "idle"
    /\ server[j[1]] = "up"
    /\ round[i].state = "open"
    /\ round[i].due
    /\ Goto(j, At("found", i, 1))

\* The round and the auction are read again before the first attempt.
CheckAgain(j) ==
    /\ job[j].pc = "found"
    /\ Goto(j, IF round[job[j].round].state = "open" /\ Running
               THEN At("closing", job[j].round, 1) ELSE Idle)

-----------------------------------------------------------------------------
(* closeRoundWithRetry.                                                    *)

\* Mutant: the current round is closed although it has been closed before.
CloseRoundAgain(j, n, lost) ==
    /\ job[j].pc = "closing"
    /\ Running
    /\ n <= GiftsPerRound
    /\ round' = [round EXCEPT ![auction.currentRound] = ClosedRound(auction.currentRound, n)]
    /\ UNCHANGED auction
    /\ Answer(j, lost, At("closed", job[j].round, job[j].attempt))

\* closeCurrentRound closes the auction's current round, whichever it is.
CloseRound(j, n, lost) ==
    /\ job[j].pc = "closing"
    /\ Running
    /\ Current.state = "open"
    /\ n <= GiftsPerRound
    /\ round' = [round EXCEPT ![auction.currentRound] = ClosedRound(auction.currentRound, n)]
    /\ UNCHANGED auction
    /\ Answer(j, lost, At("closed", job[j].round, job[j].attempt))

\* "already closed" is taken for success: the job has nothing more to do.
AlreadyClosed(j) ==
    /\ job[j].pc = "closing"
    /\ Running
    /\ Current.state = "closed"
    /\ Goto(j, Idle)

CloseRefused(j) ==
    /\ job[j].pc = "closing"
    /\ ~ Running
    /\ Goto(j, Retried(j))

\* Mutant: whether all gifts have been awarded is not looked at.
DecideByIndex(j) ==
    /\ job[j].pc = "closed"
    /\ Goto(j, At(IF job[j].round = TotalRounds - 1 THEN "finalizing" ELSE "advancing",
                  job[j].round, job[j].attempt))

\* Mutant: off by one.
DecideOneEarly(j) ==
    /\ job[j].pc = "closed"
    /\ Goto(j, At(IF job[j].round + 1 >= TotalRounds - 1 \/ AllGiftsAwarded
                  THEN "finalizing" ELSE "advancing",
                  job[j].round, job[j].attempt))

\* wasLastRound looks at the round the job found, not at the one it closed.
Decide(j) ==
    /\ job[j].pc = "closed"
    /\ Goto(j, At(IF job[j].round = TotalRounds - 1 \/ AllGiftsAwarded
                  THEN "finalizing" ELSE "advancing",
                  job[j].round, job[j].attempt))

AdvanceRound(j, lost) ==
    LET next == auction.currentRound + 1 IN
    /\ job[j].pc = "advancing"
    /\ Running
    /\ next < TotalRounds
    /\ round[next].state = "none"
    /\ auction' = [status |-> "RUNNING", currentRound |-> next]
    /\ round' = [round EXCEPT ![next] = NewRound]
    /\ Answer(j, lost, Idle)

\* Not running, no round left, or the unique index on the round index.
AdvanceRefused(j) ==
    LET next == auction.currentRound + 1 IN
    /\ job[j].pc = "advancing"
    /\ \/ ~ Running
       \/ next >= TotalRounds
       \/ next < TotalRounds /\ round[next].state # "none"
    /\ Goto(j, Retried(j))

\* finalizeAuction first settles the last round if that is still open.
Finalized ==
    /\ auction' = [status |-> "COMPLETED", currentRound |-> auction.currentRound]
    /\ IF Running /\ IsLastRound /\ Current.state = "open"
       THEN \E n \in 0 .. RemainingGifts :
               round' = [round EXCEPT ![auction.currentRound] =
                           ClosedRound(auction.currentRound, n)]
       ELSE UNCHANGED round

FinalizeAuction(j, lost) ==
    /\ job[j].pc = "finalizing"
    /\ Finalized
    /\ Answer(j, lost, Idle)

\* A call, or a read between two calls, fails without effect.
CallFails(j) ==
    /\ job[j].pc \in {"closing", "closed", "advancing", "finalizing"}
    /\ faults < MaxFaults
    /\ faults' = faults + 1
    /\ job' = [job EXCEPT ![j] = Retried(j)]
    /\ UNCHANGED <<auction, round, server, crashes>>

-----------------------------------------------------------------------------
(* recoverStuckAuctions.                                                   *)

NeedsFinalize == AllGiftsAwarded \/ round[TotalRounds - 1].state = "closed"

\* Mutant: the recovery looks for overdue rounds only.
RecoverOverdueOnly(j) ==
    /\ job[j].pc = "starting"
    /\ Goto(j, IF Running /\ Current.state = "open" /\ Current.due
               THEN At("found", auction.currentRound, 1) ELSE Idle)

Recover(j) ==
    /\ job[j].pc = "starting"
    /\ Goto(j, CASE Running /\ NeedsFinalize -> At("recovering", 0, 1)
                 [] Running /\ ~ NeedsFinalize /\ Current.state = "open" /\ Current.due ->
                       At("found", auction.currentRound, 1)
                 [] OTHER -> Idle)

\* The error of a finalizeAuction called by the recovery is only logged.
RecoverFinalize(j) ==
    /\ job[j].pc = "recovering"
    /\ Finalized
    /\ job' = [job EXCEPT ![j] = Idle]
    /\ UNCHANGED <<server, faults, crashes>>

RecoverFails(j) ==
    /\ job[j].pc \in {"starting", "recovering"}
    /\ faults < MaxFaults
    /\ faults' = faults + 1
    /\ job' = [job EXCEPT ![j] = Idle]
    /\ UNCHANGED <<auction, round, server, crashes>>

-----------------------------------------------------------------------------
\* What a job does when nothing goes wrong.
Step(j) ==
    \/ \E i \in RoundIndex : FindRound(j, i)
    \/ CheckAgain(j)
    \/ \E n \in 0 .. TotalGifts : CloseRound(j, n, FALSE)
    \/ AlreadyClosed(j)
    \/ CloseRefused(j)
    \/ Decide(j)
    \/ AdvanceRound(j, FALSE)
    \/ AdvanceRefused(j)
    \/ FinalizeAuction(j, FALSE)
    \/ Recover(j)
    \/ RecoverFinalize(j)

Fault(j) ==
    \/ \E n \in 0 .. TotalGifts : CloseRound(j, n, TRUE)
    \/ AdvanceRound(j, TRUE)
    \/ FinalizeAuction(j, TRUE)
    \/ CallFails(j)
    \/ RecoverFails(j)

Next ==
    \/ StartAuction
    \/ \E i \in RoundIndex : RoundEnds(i)
    \/ \E j \in Jobs : Step(j) \/ Fault(j)
    \/ \E i \in Instances : Crash(i) \/ Restart(i) \/ Started(i)

Spec == Init /\ [][Next]_vars

(* Rounds end, since time passes; the cron job runs every second and the   *)
(* event loop runs what it awaits; a stopped process is started again      *)
(* (docker-compose.yml, restart: unless-stopped).  Nothing obliges the     *)
(* creator to start the auction.                                           *)
Fairness ==
    /\ \A i \in RoundIndex : WF_vars(RoundEnds(i))
    /\ \A j \in Jobs : WF_vars(Step(j))
    /\ \A i \in Instances : WF_vars(Restart(i)) /\ WF_vars(Started(i))

FairSpec == Spec /\ Fairness

-----------------------------------------------------------------------------
\* The jobs that have closed a round and still have to follow it up.
Holders == {j \in Jobs : job[j].pc \in {"closed", "advancing", "finalizing"}}

(* While the auction runs, at most one job is between a closing and its    *)
(* follow-up, however many jobs, retries and restarts there are, and the   *)
(* round it has closed is still the current one: advanceRound, which does  *)
(* not look at the current round, relies on it.                            *)
OneHolder ==
    Running => \A j \in Holders :
                  /\ Current.state = "closed"
                  /\ \A o \in Holders : o = j

(* The rounds before the current one are closed and the rounds after it do *)
(* not exist; the auction has a current round exactly when started.        *)
RoundsInSequence ==
    \A i \in RoundIndex :
        /\ i < auction.currentRound => round[i].state = "closed"
        /\ i > auction.currentRound => round[i].state = "none"
        /\ i = auction.currentRound =>
              (round[i].state = "none" <=> auction.status = "CREATED")

(* The auction is completed only when its rounds or its gifts have run     *)
(* out, and with no round left open.                                       *)
CompletedWhenDone ==
    auction.status = "COMPLETED" =>
        /\ Current.state = "closed"
        /\ IsLastRound \/ AllGiftsAwarded

L == INSTANCE RoundLifecycle WITH
        status  <- auction.status,
        current <- auction.currentRound,
        closed  <- Current.state = "closed",
        awarded <- Awarded

(* Jobs, retries, lost answers, crashes and recoveries together take the   *)
(* auction through its rounds in order and once each: no round is closed   *)
(* twice, none is opened while another is open or after the last gift.     *)
RefinesLifecycle == L!Spec

(* Expected of round-scheduler.service.ts, "перезапуск-безопасно,          *)
(* идемпотентно, с retry логикой": a running auction is completed.         *)
RunningAuctionCompletes == Running ~> auction.status = "COMPLETED"

(* The rounds of a running auction follow one another to the last, or to   *)
(* the last gift, unless a call fails or a process stops: no job skips,    *)
(* repeats or misjudges a round, nor stops the job of another process      *)
(* (closeRoundWithRetry).  That the auction is then completed is more than *)
(* the code ensures when jobs overlap.                                     *)
UndisturbedRoundsEnd == Running ~> (NeedsFinalize \/ faults + crashes > 0)

(* A process that starts and finds an auction whose last round is closed,  *)
(* or whose gifts are all awarded, sees to it that it is completed,        *)
(* whatever stops meanwhile, unless a call fails (recoverStuckAuctions).   *)
DoneAuctionCompletes ==
    \A i \in Instances :
        (job[<<i, 1>>].pc = "starting" /\ Running /\ NeedsFinalize)
            ~> (auction.status = "COMPLETED" \/ faults > 0)

(* Expected of SPEC.md 3.1: a round is closed when its time has passed.    *)
ClosedWhenDue ==
    [][\A i \in RoundIndex :
          round[i].state = "open" /\ round'[i].state = "closed" => round[i].due]_vars
-----------------------------------------------------------------------------
(* The inductive invariant.                                                *)

\* Only the recovery of a starting process can meet an auction not started.
JobsAfterStart ==
    /\ auction.status = "CREATED" => auction.currentRound = 0
    /\ \A j \in Jobs :
          /\ job[j].round <= auction.currentRound
          /\ auction.status = "CREATED" => job[j].pc \in {"idle", "starting"}

\* A round is open only while there are gifts left.
OpenForGifts == Running /\ Current.state = "open" => ~ AllGiftsAwarded

\* What a job has decided to do is still right when it does it.
DecisionsHold ==
    Running => \A j \in Jobs :
                  /\ job[j].pc = "advancing" => ~ AllGiftsAwarded
                  /\ job[j].pc \in {"finalizing", "recovering"} =>
                        /\ Current.state = "closed"
                        /\ IsLastRound \/ AllGiftsAwarded

(* What a job decided from state it has read before stays right until the  *)
(* job acts on it, whatever the other jobs and processes do in between;    *)
(* with the properties above, preserved by every step.                     *)
IInv ==
    /\ TypeOK
    /\ OneHolder
    /\ RoundsInSequence
    /\ CompletedWhenDone
    /\ JobsAfterStart
    /\ OpenForGifts
    /\ DecisionsHold
=============================================================================
