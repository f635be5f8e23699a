------------------------------ MODULE BotLoad ------------------------------
(***************************************************************************)
(* A load test (scripts/bot-load-test.js; the simulator's page runs the    *)
(* same pool as one batch of fixed width) against the registration of      *)
(* users, with other clients at work.  The bots are cut into batches; a    *)
(* batch is run by a pool that keeps at most so many tasks under way; a    *)
(* task creates its bot (POST /users) and then places its bids.  The width *)
(* of the pool is adapted, from one batch to the next, to how long the     *)
(* tasks took.                                                             *)
(*                                                                         *)
(* A bot is the number of its task, which is also the call that creates it *)
(* and its username.  Of a bid only the answer is kept: what it does is    *)
(* AuctionTransactions.  createBot and placeBid catch every error, so a    *)
(* task never throws and performanceStats.errors stays 0: of               *)
(* calculateAdaptiveConcurrency the branch on the error rate is never      *)
(* taken.                                                                  *)
(***************************************************************************)
EXTENDS Registration, FiniteSetsExt

CONSTANTS
    NumBots,
    BidsPerBot,
    BotGrant,            \* the initialBalance of a bot
    BatchSize,
    InitialConcurrency, MinConcurrency, MaxConcurrency,
    UpdateEvery          \* tasks between two adaptations

Task == 1 .. NumBots

Clients == Calls \ Task

ASSUME BotsAssumption == NumBots \in Nat \ {0} /\ Task \subseteq Calls \cap Names
ASSUME WorkAssumption ==
    BidsPerBot \in Nat /\ BatchSize \in Nat \ {0} /\ UpdateEvery \in Nat \ {0} /\ BotGrant \in Grants
\* runPool never resolves with a limit of 0.
ASSUME WidthAssumption ==
    /\ MinConcurrency \in Nat \ {0} /\ MaxConcurrency \in Nat
    /\ InitialConcurrency \in MinConcurrency .. MaxConcurrency

VARIABLES
    task,         \* where each task stands, with its bids still to place
    pool,         \* the batch under way: its last task, its limit, its next task
    concurrency,  \* currentConcurrency
    succeeded     \* performanceStats.total and botsCreated

load == <<task, pool, concurrency, succeeded>>
vars == <<users, ledger, call, faults, task, pool, concurrency, succeeded>>

Width == MinConcurrency .. MaxConcurrency

LoadTypeOK ==
    /\ TypeOK
    /\ task \in [Task -> [at : {"waiting", "creating", "bidding", "settled"},
                          bids : 0 .. BidsPerBot]]
    /\ pool \in [running : BOOLEAN, last : 0 .. NumBots, limit : Width,
                 next : 1 .. NumBots + 1]
    /\ concurrency \in Width
    /\ succeeded \in [tasks : 0 .. NumBots, bots : 0 .. NumBots]

LoadInit ==
    /\ Init
    /\ task = [t \in Task |-> [at |-> "waiting", bids |-> BidsPerBot]]
    /\ pool = [running |-> FALSE, last |-> 0, limit |-> InitialConcurrency, next |-> 1]
    /\ concurrency = InitialConcurrency
    /\ succeeded = [tasks |-> 0, bots |-> 0]
-----------------------------------------------------------------------------
Active == {t \in Task : task[t].at \in {"creating", "bidding"}}

\* idx of the pool p once next() has filled its `free` places.
Advanced(p, free) == IF p.next + free <= p.last THEN p.next + free ELSE p.last + 1

\* The tasks it starts for that.
StartedBy(p, free) == {t \in Task : p.next <= t /\ t < Advanced(p, free)}

\* Each task of T sends its POST /users.
Start(T, tasks) ==
    /\ task' = [t \in Task |-> IF t \in T THEN [tasks[t] EXCEPT !.at = "creating"] ELSE tasks[t]]
    /\ call' = [c \in Calls |->
                  IF c \in T THEN [NoCall EXCEPT !.at = "finding", !.kind = "create",
                                                 !.names = {c}, !.grant = BotGrant]
                             ELSE call[c]]

\* Mutant: next() starts one task too many.
FreeAtStartTooMany == concurrency + 1

FreeAtStart == concurrency

\* runPool(batch, currentConcurrency)
StartBatch ==
    /\ ~ pool.running /\ pool.last < NumBots
    /\ LET p == [running |-> TRUE, last |-> Min({pool.last + BatchSize, NumBots}),
                 limit |-> concurrency, next |-> pool.last + 1]
       IN  /\ Start(StartedBy(p, FreeAtStart), task)
           /\ pool' = [p EXCEPT !.next = Advanced(p, FreeAtStart)]
    /\ UNCHANGED <<users, ledger, faults, concurrency, succeeded>>

\* Mutant: next() looks at the tasks under way before active--.
OthersActiveOrSelf(t) == Active # {}

OthersActive(t) == Active # {t}

\* finally: active--, next(); the pool resolves when nothing is left.
Settle(t) ==
    /\ Start(StartedBy(pool, 1), [task EXCEPT ![t].at = "settled"])
    /\ pool' = [pool EXCEPT !.next = Advanced(pool, 1),
                            !.running = pool.next <= pool.last \/ OthersActive(t)]

\* Mutant: the width is not kept above its minimum.
AdaptedUnbounded(c) == {c, (c * 8) \div 10}

\* calculateAdaptiveConcurrency: tasks took long, little time, or neither.
Adapted(c) ==
    {c, Max({MinConcurrency, (c * 8) \div 10})}
        \cup IF c < MaxConcurrency THEN {Min({MaxConcurrency, (c * 11) \div 10})} ELSE {}

\* POST /users is answered.
BotCreated(t) ==
    /\ task[t].at = "creating" /\ call[t].answer = "ok"
    /\ task' = [task EXCEPT ![t].at = "bidding"]
    /\ succeeded' = [succeeded EXCEPT !.bots = @ + 1]
    /\ UNCHANGED <<registration, pool, concurrency>>

\* createBot returns null: the task is over.
BotNotCreated(t) ==
    /\ task[t].at = "creating" /\ call[t].at = "answered" /\ call[t].answer # "ok"
    /\ Settle(t)
    /\ UNCHANGED <<users, ledger, faults, concurrency, succeeded>>

\* A bid is answered; whether it was accepted only goes into the report.
PlaceBid(t) ==
    /\ task[t].at = "bidding" /\ task[t].bids > 0
    /\ task' = [task EXCEPT ![t].bids = @ - 1]
    /\ UNCHANGED <<registration, pool, concurrency, succeeded>>

\* All bids are placed: the task counts, and may adapt the width.
FinishTask(t) ==
    /\ task[t].at = "bidding" /\ task[t].bids = 0
    /\ succeeded' = [succeeded EXCEPT !.tasks = @ + 1]
    /\ concurrency' \in IF (succeeded.tasks + 1) % UpdateEvery = 0 THEN Adapted(concurrency)
                                                                   ELSE {concurrency}
    /\ Settle(t)
    /\ UNCHANGED <<users, ledger, faults>>

TaskStep(t) == BotCreated(t) \/ BotNotCreated(t) \/ PlaceBid(t) \/ FinishTask(t)

Server(c) == Step(c) /\ UNCHANGED load

LoadNext ==
    \/ StartBatch
    \/ \E t \in Task : TaskStep(t)
    \/ \E c \in Calls : Server(c)
    \/ \E c \in Clients : /\ AskAny(c) \/ \E n \in Names, p \in Passwords : Login(c, n, p)
                          /\ UNCHANGED load
    \/ Crash /\ UNCHANGED load

LoadSpec == LoadInit /\ [][LoadNext]_vars

\* The script goes on by itself, and the server answers its requests.
Fairness ==
    /\ WF_vars(StartBatch)
    /\ \A t \in Task : WF_vars(TaskStep(t)) /\ WF_vars(Server(t))

FairLoadSpec == LoadSpec /\ Fairness
-----------------------------------------------------------------------------
(* The pool never has more tasks under way than its limit, which stays     *)
(* within the configured bounds, and never idles: a place is free only     *)
(* when every task of the batch has been started.                          *)
PoolFull ==
    pool.running =>
        /\ Cardinality(Active) <= pool.limit
        /\ Cardinality(Active) = pool.limit \/ pool.next > pool.last
        /\ Active # {}

(* The load test ends, with every task settled, whatever fails: the pool   *)
(* resolves and no task waits for ever.                                    *)
LoadTestEnds == <> (~ pool.running /\ \A t \in Task : task[t].at = "settled")
=============================================================================
