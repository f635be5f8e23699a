# TLA+ models of the gift auction

The repository is a NestJS service that sells gifts in auctions of several
rounds. Users lock money in bids; when a round ends its highest bids win a gift
and are paid out; what has not won when the auction ends is refunded. State is
in MongoDB, written in multi-document transactions by several processes at a
time; a scheduler closes rounds; Redis locks and a WebSocket gateway are
accelerators. The models are about what makes this hard: transactions that read
a snapshot and race, jobs that overlap, fail, retry and crash between two
transactions, and the money that must come out right all the same.

Around that core stand the registration of users, the scripts that create
thousands of them at once, and the pages that show all this in a browser.

Paths below are relative to `src/src/` unless they start with `docs/`,
`scripts/` or `frontend/`.

## 1. Inventory

| part | state it keeps | operations | talks to |
|---|---|---|---|
| BalanceService (`services/balance`) | `users.balance`, `users.lockedBalance`, `ledger_entries` | lockFunds, unlockFunds, payout, refund, deposit | in the session of its caller, or its own transaction |
| BidService (`services/bid`) | `bids` | placeBid (create or raise), queries of top bids and positions | BalanceService.lockFunds in its transaction; Redis lock `user:<id>` |
| AuctionService (`services/auction`) | `auctions`, `auction_rounds`, the status of bids | createAuction, startAuction, closeCurrentRound, advanceRound, finalizeAuction | BalanceService.payout and refund; Redis lock `round:<id>` |
| RoundSchedulerService (`services/scheduler`) | none: a job knows the index of the round it found | cron closeRoundJob, retries, recoverStuckAuctions at start | AuctionService, one transaction per call; throttler, cache, gateway |
| RedisLockService | `lock:<key>` with a token and a TTL | acquireLock, releaseLock, withLock | Redis |
| BidUpdateThrottlerService | pending updates and last top positions per auction, in memory | queueBidUpdate, a periodic flush, forceFlush | BidService queries, gateway |
| controllers | dashboard cache; gift inventory | REST handlers: start, bid (user and bot), dashboard | services above; they read the auction before placeBid's transaction |
| AuthService, UsersController | the user document | register, login, createUser; the guards of what is a user's own | BalanceService.deposit, in a second transaction |
| BotSimulatorController | none: the bots it has inserted | insertMany, a deposit for each, bids | BalanceService, BidService |
| AuctionsGateway | rooms of sockets | admission, join, leave, broadcasts | throttler, the handlers that have committed |
| auction page (`frontend/src/pages/AuctionDetailPage.jsx`) | the dashboard it shows | poll every second while visible, reload on focus and on its own events | dashboard of the controllers |
| session (`frontend/src/contexts/AuthContext.jsx`, `api/client.js`) | token in localStorage, user in memory | login, register, logout, interceptors, pages of the user's own data | auth and users controllers; the other tabs, through localStorage |
| list of auctions (`frontend/src/pages/AuctionsPage.jsx`) | the list it shows | load it, on mount, on events, on request; create an auction | GET /auctions, socket events |
| load script (`scripts/bot-load-test.js`), simulator page | tasks, a pool, its width | create bots and place their bids, a bounded number at a time | POST /users, POST bids/bot |
| metrics, configuration, forms and layout | no state of the auction | | |

What is hard, and what makes each part correct:

* **Balances.** Operations check the document they read and then increment it.
  Correct: no balance is ever negative and the ledger explains both balances.
* **Bids.** Nothing but the write conflict on the user document keeps two
  requests of a user from both creating a bid. Correct: one active bid per user,
  what is locked is exactly that bid, a settled bid never changes.
* **Rounds and settlement.** Closing reads the bids, ranks them, pays winners and
  closes the round in one transaction, against bids being raised meanwhile.
  Correct: never more winners than gifts, each bid settled once and for its
  final amount, every settlement covered by what is locked.
* **Scheduler.** Close, then advance or finalize, are separate transactions with
  reads between them; jobs overlap (the cron job has no guard against its own
  previous run), retry after any error and run in several processes; a process
  may stop anywhere. Correct: rounds are closed in order and once each, an
  auction is completed exactly when its rounds or gifts have run out, and every
  started auction is completed in the end.
* **Lock.** A key with a time to live, set and deleted by calls whose answers may
  get lost. Correct: two calls never hold it within its time, and nobody is
  locked out for ever.
* **Live updates.** Flushes overlap and query the database between deciding
  whether to send, reading what to send and sending it. Correct: what they
  compare with is what was sent last, and nothing stays queued.
* **Dashboard and page.** A dashboard is several queries without a transaction,
  cached per user, asked for by requests that overlap. Correct: it never shows
  bids older than its round, and a page that stays visible catches up.

* **Registration.** Looking for the name, inserting the user, depositing the
  grant and reading the user again are separate database calls. Correct: one
  user per name, a token only for the one whose password was offered, the grant
  given once and truly answered.
* **Load.** A pool of tasks that each end by starting the next, in batches, with
  a width that adapts. Correct: never wider than its limit, never idle, and it
  ends.
* **Session.** The user is remembered by a tab, the token is shared by all.
  Correct: no tab shows what is another's but of users it has been signed in as,
  that does not last where the page polls, and no tab stays in a session that is
  over.
* **List of auctions.** Not polled: it depends on events that are sent after a
  commit, to whoever is connected. Correct: when all is quiet and nothing was
  missed, it is current, unless an older answer has overtaken a newer one.

PROJECT.json lists the hazards of the code one by one, each at its line, with
the properties that cover it.

## 2. Modules

```
Accounts ─── BalanceService ─────────────┬─ BidServicesProofs
   │         BidUpdateThrottler ─────────┘
   ├──────── AuctionTransactions ─── MCAuctionTransactions, AuctionTransactionsProofs
   │             └─ implements Escrow and RoundLifecycle
   └──────── Registration ─── BotLoad ─── BotLoadProofs
             RoundScheduler ─── RoundSchedulerProofs
                 └─ implements RoundLifecycle
RedisLock ─── RedisLockProofs
AuctionPage ─── AuctionPageProofs
Session ────────┬─ FrontendProofs
AuctionsList ───┘
SumTheorems: what the proofs of AuctionTransactions and RoundScheduler use of sums
```

BidServicesProofs and FrontendProofs each hold the proofs of two modules, which
say nothing of each other: the one extends both, so the definitions of the
second have names of their own (`ThrottlerSpec`, `ThrottlerTypeOK`, `ListSpec`,
`ListTypeOK`, ...).

RoundScheduler takes each call of AuctionService for one step, AuctionTransactions
shows what such a call does when others run beside it; both implement
RoundLifecycle, which is where they meet. The other modules stand beside them: a
lock around placeBid and closeCurrentRound, three ways in which what has been
committed reaches the bidders (throttled tops, a polled dashboard, a list that
is told to reload), the session in which they see it, and how users come to be.

**Accounts** (pure operators). A user document is its two balances. The ledger
of a user is, per entry type, the total of its entries: no property looks at a
single entry. `LockFunds` ... `Deposit` are the `$inc` of each operation, `CanLock`
and `CanTakeLocked` the check made before it.

**BalanceService.** Each element of `Calls` is one call in a session of its own:
`Request` (arguments, the refusal of a non-positive amount), `Read` (the
snapshot and the check), `Update` (the `$inc`, the check of the result, the ledger
entry), `Commit`, with `RetryAfterConflict` and `Fail`. The transaction's rules are
MongoDB's and are marked external: snapshot reads, and a conflict when a
document is written that somebody else has written since the snapshot or is
writing. `unlockFunds` is called by nobody but tests; it is modelled because it
is one of the five.

**AuctionTransactions.** The core: one auction with its rounds, bids, users and
ledger, and two kinds of sessions. A request is a `placeBid` call: the
controller's read (`ReadAuction`), then a transaction that raises the user's
active bid (`RaiseBid`), creates one (`CreateBid`) or refuses (`RejectBid`). A worker
starts the auction, closes its current round, advances or finalizes it
(`BeginStart`, `BeginClose`, `BeginAdvance`, `BeginFinalize`). A transaction is a record of
private writes. Its guards are evaluated on the snapshot it begins on; the loops
over winners and refunds then run one bid per step (`Settle`); `Commit` applies the
writes and dooms every open transaction that writes a document in common;
`Abort`, with or without a retry, may happen at any time. Because a transaction
that loses a conflict can only abort, evaluating its reads at its first step is
exact: what it reads later is the same snapshot. Where the code holds the Redis
locks the model does not: the locks are optional in the code (it runs without
Redis) and only remove interleavings.

finalizeAuction is called as the scheduler calls it, by a worker that has closed
the last round or given the last gift, and with `DirectFinalize` also out of
turn while the last round is current, as the service allows and its own tests
do. It then closes that round in the transaction that completes the auction.

An attempt of placeBid after a commit whose answer was lost (bid.service.ts:298) does
what another request of the same user, amount and round does, so it is one of
`Requests`.

**RoundScheduler.** One auction again, but with the calls of AuctionService as
single steps and everything between them visible: `FindRound` (the cron query),
`CheckAgain` (processRoundClosing reads the round and the auction again), `CloseRound`
/ `AlreadyClosed` / `CloseRefused`, `Decide` (the reads after the closing), `AdvanceRound` /
`AdvanceRefused`, `FinalizeAuction`, and the recovery (`Recover`, `RecoverFinalize`). Each
call may fail without effect or take effect and lose its answer; either way the
attempt is retried up to `MaxRetries` times from closeCurrentRound on
(`Retried`). A process may `Crash` and `Restart`, which loses its jobs and runs the
recovery before its cron jobs. A job carries only the index of the round it
found, as in the code.

A job that comes late may close the last round before its time and have the
advance refused it had decided on; the job that found that round then hears
"already closed". With two processes and no fault at all the auction may so be
left without anybody to finalize it, until a process starts. That is why
`UndisturbedRoundsEnd` takes it only to the point where it needs finalizing, and
`DoneAuctionCompletes` starts from a process that starts.

**Escrow** and **RoundLifecycle** are the abstract specifications. Escrow: a user's
wallet is what is free, what is at stake and what has been spent; a step raises
a stake, spends all of it or gives all of it back, for any number of users at
once. AuctionTransactions implements it with stake = the user's active bid and
spent = the PAYOUT total of the ledger (`RefinesEscrow`), so a committed
transaction moves money only in these ways. RoundLifecycle: start, close a round
awarding some of the gifts left, open the next one only when the current one is
closed and gifts and rounds are left, complete only when rounds or gifts have
run out, or close the last round and complete at once. RoundScheduler and
AuctionTransactions implement it (`RefinesLifecycle`).

**RedisLock.** withLock around one key. A call draws a token and sets the key if
it is free (`Acquire`), tries again or gives up if it is not (`Busy`), and deletes
the key if it still holds the token (`Release`). `AcquireError` and `ReleaseError` are
an error before or after the effect; `Disconnect` and `Connect` are the client's
events, which turn locking off and on for a process while its calls are under
way; `Tick` is Redis' clock, `LoseKey` an eviction or a restart of Redis, `Crash` the
end of a process. `lease` is a history variable: what is left of the time a call
was granted the key for.

**BidUpdateThrottler.** One auction in one process. A request queues its update
some time after its bid is committed (`QueueBidUpdate`); the timer starts a flush
whether or not the last one has ended (`FlushPendingUpdates`), which reads the top
once to decide (`Proceed`, `Skip`) and once more to send (`Emit`), and clears the set it
began with; `ForceEmit` sends and deletes the map's entry. A job may hold a set
that is no longer the map's (`attached`). The top is the amounts of the best
`Positions` bids. Only one update of a bid should be queued, says the code, but
`b.id === bid.id` (bid-update-throttler.service.ts:70) compares two ObjectId
objects and never finds an earlier one, so the set keeps both.

**AuctionPage.** The page of one user, its requests and its cache entry. The state
of the auction is a version number; a dashboard is the versions its five
queries have read. The entry has no other end than its TTL: a write deletes
only `dashboard:<auction>:all`. The page has no live updates: App.jsx reads
`auctionId` with useParams outside any Route, where there are no parameters, so
useWebSocket never subscribes to a room.

**Registration.** The `users` collection and the calls that create its documents:
`register`, `createUser` and the simulator's batch. A call looks for the name
(`FindExisting`), inserts (`InsertUser`, or `RefuseDuplicate` by the unique index),
deposits (`DepositGrant`; `DepositFails` without or with effect), reads the user
again and answers (`Reload`). A batch inserts its documents one by one; one
duplicate makes insertMany throw at its end, so that the bots it did insert
stay without deposit. `Login` is one read. `Crash` ends every call under way.

**BotLoad** extends Registration with the load script: tasks, batches and the pool
(`StartBatch`, `Settle`), whose bots are created by calls of Registration while
`Clients` do what they want. The simulator's page runs the same pool as one batch.
createBot and placeBid catch every error, so performanceStats.errors stays 0 and
the branch of calculateAdaptiveConcurrency on the error rate is never taken. What
a bid does is AuctionTransactions; here it is an answer awaited.

**Session.** One tab: AuthContext's user (`tab.token`), the page, whose data it shows
(`tab.own`), and its requests: sign-ins (`SignIns`) and what the header and the page
ask for (`BalanceCalls`, `BidsCalls`), as many of each as one likes. A request carries
the token that localStorage holds when it is sent, whoever put it there; `Elsewhere`
is the other tabs. The server refuses a token that is missing or expired (401) and
a user that is not the token's (403). `ReceiveUnauthorized` is the interceptor:
it clears localStorage and makes the tab go to the login page (`LeaveForLogin`),
which loads it anew. A component that is unmounted takes no answer (`wanted`);
PageLayout is keyed by the path, so another page mounts the header anew too.

login and register are functions of AuthContext, which is never unmounted, and a
form disables only itself: a user who submits one, follows the link to the other
and submits that has two under way. The first answer leads to a page; the second
changes the user wherever the tab is (`ReceiveSession`), and a page that is mounted
stays so, with the data it shows and with requests about the first user still to
be answered. `tab.held` is a history variable: the users whose session the tab has
had since its page was mounted. `OwnDataOnly` says that nobody else's data is ever
shown; with one sign-in at a time `held` is the one user signed in. That the first
user's data is shown under the second at all is what the code does. The header
polls, and `ForeignBalanceEnds` says that its balance is the right one in the end; the
page of the bids asks once more when the user changes, so there the first user's
bids stay if that request fails, or if an earlier one about the first user is
answered after it, until the page is left.

**AuctionsList.** The database is the number of its changes. Each handler that
changes it commits and then emits so many events (`Commit`, `Emit`); the socket
carries them, and each starts a load (`HandleEvent`) whose answer replaces the
list (`ShowList`) in whatever order answers come. A load is two requests, for the
list (`AnswerList`) and then for the bids (`AnswerBids`); without the list it fails
(`LoadFails`), while failed bids show as 0 in a load that succeeds. `asked` is a history
variable: which load was asked for last and whether its answer is the one on the
page, what the database was when the first of its overlapping loads was asked for,
and whether something was missed since the last. `ListCurrent` says of a quiet page
that has missed nothing that it shows the present list if the last load was
answered last, and otherwise one as new as the first of the loads that overlapped:
that an older answer may be shown for good is what the code does. The advance to
the next round, the simulator's bids and a gift added to an inventory by hand emit
nothing (`SilentChange`). The socket is opened once
with the token found when the tab is loaded, so in production a tab that was
opened before its login gets no events until it is reloaded.

## 3. Runs

| run | instance | what it shows |
|---|---|---|
| balance | 2 users, 3 calls, amounts 0 and 2 over a deposit of 3 | every interleaving of three calls, all five types, with conflicts, retries and failures; each call is answered, since it conflicts only because another one has committed or is about to |
| auction | 2 users, 3 requests, 2 workers, 2 gifts, 3 rounds, amounts 1..2, `DirectFinalize` | bids and raises against closing, advancing and finalizing, in and out of turn; three requests let one user create and raise, or win and bid again |
| scheduler | 2 processes, 3 rounds, 2 gifts, 3 retries, 3 faults, 2 crashes | jobs, failures, lost answers, crashes and recovery in every order; what happens when nothing disturbs a round, and after every gift is awarded |
| redis_lock | 3 processes of one call each, 3 tokens, 1 retry, TTL 2, 2 faults | exclusion, no foreign release, and that every key goes away |
| live_updates | 2 bids, 2 flushes, 1 forceFlush, amounts 1..2, 1 position, 1 fault | baseline and room in step, the queue drains |
| auction_page | 2 requests, 3 versions, 2 failures | order within a dashboard; the page catches up |
| bot_load | 4 bots in batches of 2, width 1..2, 1 bid each, 1 other client, 2 passwords, 1 fault or crash | a load test against other clients' registrations |
| session | 2 users, 2 sign-ins under way, 1 request for the balance and 1 of the page, 2 tokens, 1 failure; other tabs unbounded but for the tokens | no data of a user the tab was not signed in as, a former user's balance goes, no session that lingers |
| auctions_list | 2 loads, 2 changes of the database, 2 faults, tokens required | a quiet list is the current one, or as old as its overlapping loads |

The bounds. Two users are the least with a loser and a winner; three requests
the least that let one user raise a bid, or bid again after winning, while
another competes; two gifts over three rounds make the rounded-up share per
round (1) and the remainder matter, and let the gifts run out before the rounds.
Three faults and three attempts let a job exhaust its retries. `MaxFaults` and
`MaxCrashes` bound the environment, not the code; `MaxRetries` is the code's
`MAX_RETRIES`. Three lock calls let a third find the key of a first whose time is
up and which a second has set again. Two bids over one tracked position let one
push the other out of the top, and two flushes with a forceFlush read and send
in every order. Two requests are the least that overtake each other; three
versions let a dashboard mix three states. Two batches of two bots make the pool
start full, run dry and start again with a width adapted meanwhile, and one
client that races for their names covers every pair of calls; that run grants 1
to each, and calls that ask for nothing are left to the proofs, which hold for
every grant. Two users and two
tokens let another tab change the user under a tab's feet, and two sign-ins change
it under a mounted page; two loads overtake each other, and two changes let an
old answer, a late event and a change that is announced to nobody meet (three were
checked as well; the proof holds for any number). Every number of bids is finite,
so QueueDrains says nothing of updates that are queued for ever faster than they
are flushed.

CHECK_DEADLOCK is off where the system may stop: every request answered and the
auction completed, or an auction stuck for good, which the liveness runs are
about.

Fairness. `WF(Step(j))` for every job: the event loop runs what a job awaits, and
the cron job fires every second. `WF(RoundEnds(i))`: time passes. `WF(Restart)`,
`WF(Started)`: docker-compose.yml restarts the backend unless it is stopped. Nothing
obliges the creator to start an auction, and no fault or crash is fair. For
balance calls, `WF(Step(c))`: the driver keeps running the callbacks of a session.
For the lock, `WF(Step(c))` and `WF(Tick)`: calls go on and Redis' clock runs; neither
a release that succeeds nor a reconnection is assumed. For the throttler, the
timer and what awaits a query are fair; queries may fail. For the page,
`WF(visible /\ LoadDashboard)`, `WF(Serve(r))` and `WF(Expire)`: the interval fires while
the page is visible, requests end, the TTL runs out. For the load test,
`WF(StartBatch)`, `WF(TaskStep(t))` and `WF(Server(t))`: the script goes on by itself and its
requests are answered; other clients owe nothing. For the session, `WF(LoadBalance)`
and `WF(LeaveForLogin)`: the header polls every five seconds and the browser
follows the redirection; `SF` for the answer to the balance and its receipt,
since a user who loads pages again and again interrupts each but not all.

### Runs that find a disagreement

Each of these checks one statement of the repository that the code does not
keep; PROJECT.json quotes the statement and names the line.

| run | statement | what happens |
|---|---|---|
| stranded_bid | no bid is left ACTIVE at the end (docs/SPEC.md) | a new bid and finalizeAuction write no document in common, so both commit (write skew) |
| closed_when_due | a round is closed when its time has passed (docs/SPEC.md) | closeCurrentRound closes whichever round is current; a job that comes late closes the next one |
| restart_safe | the scheduler is restart-safe (class comment) | a crash between closing and advancing: neither the cron query nor the recovery sees the auction again; an error there ends the same way, since the retry takes "already closed" for success |

Other differences met while modelling. The models do what the code does, and no
run is spent on them.

* docs/SPEC.md:58 and :94: bids are accepted between two rounds, and a bid may keep
  the index of the round before. Settlement goes by the auction's round, so
  neither moves money wrongly.
* docs/SPEC.md:186: balance + lockedBalance is not constant: a payout takes the
  winner's amount out of both. Escrow keeps it as `spent`.
* round-scheduler.service.ts:331: the last round may be closed by a job that found the
  one before; it then tries to advance, is refused, and leaves the finalizing to
  a recovery at the next start.
* redis-lock.service.ts:124: "fall back to MongoDB transactions", but withLock
  throws unless the client has been disabled by its error event.
* round-scheduler.service.ts:399: advanceRound emits no event, so a list of auctions keeps
  the round number of before until another event comes.
* bot-simulator.controller.ts:104: "ordered: false allows partial success", but the bots
  inserted beside a duplicate get no deposit and are not counted.
* bot-load-test.js:156: the reaction to a high error rate can never happen, since tasks
  catch their errors themselves; and runPool never resolves with a limit of 0.
* client.js:36: a request carries the token of whichever tab logged in last, so a
  bid may be placed for another user than the page shows; client.js:51: the 401 of
  an old token removes a newer one.
* useWebSocket.js:35: the socket is opened once, with the token found then; in
  production a tab opened before the login gets no events until it is reloaded.
* docs/WEBSOCKET_THROTTLING.md:258 says an update is sent if the check fails;
  flushPendingUpdates (bid-update-throttler.service.ts:128) drops the batch, so the
  room may miss the update until the next one.
* AuthContext.jsx:50 and :75: a login and a registration that overlap leave the first
  user's bids or inventory on the page under the second user until the second's
  arrive, and until the page is left if the request for them fails or is overtaken
  by an earlier one.
* AuctionsPage.jsx:40: a failed request for the bids of an auction shows 0 as its
  highest bid, without an error; AuctionsPage.jsx:55: of two loads the older answer
  may be shown last, and stays until an event or the user loads the list again.

## 4. Proofs

TLAPS proves the following for every value of the constants, from the named
assumptions on them (amounts and deposits are natural numbers, MinBid,
TotalGifts, TotalRounds, MaxRetries and Overlap are positive, sessions of requests and
workers are disjoint, the sets of requests and bids are finite).

* `BalancesSafe`, `LedgerExplains`, `CallsTypeCorrect` (BidServicesProofs): types,
  LedgerExplainsBalances and BalancesNonNegative. The invariant says of every
  open transaction that its version of the user document is the committed one
  unless it is marked stale, and that at most one transaction is writing a user.
* `MoneySafe`, with `LockedIsTheBid`, `SettlementsCovered` and `TransactionsTypeCorrect`
  (AuctionTransactionsProofs): OneActiveBid, LockedIsActiveBid,
  LedgerExplainsBalances, BalancesNonNegative and SettlementCovered. None is
  inductive: what a commit publishes was computed on an old snapshot. The
  invariant `IInv` therefore states, for every transaction that is neither closed
  nor doomed, that the database *as it would be after its commit* satisfies the
  same facts for every user it writes (`TxnSound`). A commit of another
  transaction either shares a document with it, and dooms it, or leaves every
  document `TxnSound` mentions alone; the only unprotected read, "the user has no
  active bid", is saved by the user document both would write.
* `BidsLiveOnce` and `ImplementsEscrow` (AuctionTransactionsProofs): BidLifecycle, and
  the refinement of Escrow (RefinesEscrow), every step a step of Escrow or a stutter.
  `MovesSound` is added to `IInv` for them: of the bids in the database a
  transaction writes only active ones, and it has moved the money of a user
  once, as Escrow allows, or not at all while a bid of the user is still to be
  settled. Only `Commit` changes the database, so a commit publishes exactly the
  move the transaction has prepared.
* `BidsSettledOnce` (AuctionTransactionsProofs): SettledOnce, which equates the
  ledger's totals of payouts and refunds with sums over the user's won and
  refunded bids. `SettledSound` adds to it what a live transaction sees with its
  own writes: at every step of its loops the ledger with its entries accounts for
  the bids as it has settled them so far, for every user it writes. With MoneySafe it gives
  `MoneyFollowsBids`: what is free, and the active bid, and the won bids, add up
  to the deposit.
* `ImplementsLifecycle`, `GiftsNeverOverAwarded` and `ClosedRoundsStay`
  (AuctionTransactionsProofs): the refinement of RoundLifecycle, step by step,
  GiftsNotOverAwarded, and that a closed round is never written again. `LifeSound`
  says of every live transaction of a worker which step of RoundLifecycle its
  commit would be (a start, a closing that awards at most the gifts left, an
  advance after a closed round, an end). That this stays true when another
  worker commits is the heart of it (`WorkersOverlap`): whatever two workers are
  doing, both would write the auction or the current round, so the later one is
  doomed. Requests cannot disturb it, since they write neither (`RequestCommits`).
  `WinnersSound` ties the count of a round to the won bids that carry its number.
* `RoundsSafe`, `RoundsOrdered`, `SchedulerTypeCorrect` and `DecisionsSafe`
  (RoundSchedulerProofs): OneHolder, RoundsInSequence, CompletedWhenDone, and the
  inductive `IInv`. Added for induction: a job never carries an index beyond the
  current round, a round is open only while gifts are left, and a decision to
  advance or finalize stays right until the job acts on it. The last is what
  makes it harmless that the scheduler decides outside any transaction.
* `SchedulerImplementsLifecycle` (RoundSchedulerProofs): the refinement of
  RoundLifecycle by the scheduler's calls, with retries, lost answers and
  crashes. `GiftsLeft` is added to `IInv`: the gifts awarded are a sum over the
  rounds and never more than there are, and a round that opens finds some left.
* `SumRemove` (SumTheorems): the community modules define a sum over a finite set
  by a recursive function that takes the elements in the order of a CHOOSE. The
  sum over S is f[x] and the sum over the rest, whichever x is taken. The library
  has induction over finite sets only for operators, so the module goes back to
  its well-founded orderings and a minimal counterexample (`SubsetInduction`).
* `LockSafe`, `LeasesHold`, `LockTypeCorrect` (RedisLockProofs): Exclusion and
  LeaseHoldsKey. Added for induction: a call under way has a token drawn once,
  and two calls never have the same.
* `ThrottlerSafe`, `ThrottlerTypeCorrect` (BidServicesProofs): BaselineIsShown, the
  baseline is what was sent, inductive with the types.
* `DashboardsOrdered`, `PageTypeCorrect` (AuctionPageProofs): BidsNotOlder. Added for
  induction: every request's half-read dashboard is in order, and neither it nor
  the cache is of the future.
* `RegistrationSafe` for Registration by itself, and `NamesUnique`, `GrantsHonoured`,
  `TokensForPasswords` with the load test at work (BotLoadProofs). Added for
  induction: every document belongs to the call that inserted it and has that
  call's name and, while the call is under way, its password; of the users a call
  has made only those still unpaid lack the grant, unless the call has failed or
  is a batch that met a duplicate. `PoolKeepsLimit`, `LoadTypeCorrect`: the tasks
  before `next` are the ones started, and the places of the pool are counted by
  the tasks under way.
* `OwnDataShown`, `TabTypeCorrect` (FrontendProofs): OwnDataOnly, for any number of
  sign-ins under way at once. Added for induction: a request that is still wanted is
  about a user of `held` (`RequestsHeld`), the session the tab shows is of one of them
  (`SessionHeld`), and a sign-in is of a user and is answered with a session (`SignInsOpen`).
  The two ways a session arrives are the lemmas on a page mounted anew
  (`MountIInv`), which starts `held` afresh, and on one that stays (`StayIInv`), which
  extends it.
* `ListCatchesUp`, `ListTypeCorrect` (FrontendProofs): ListCurrent, overtaking and
  silently failed bids included. Added for induction: no answer is of a future state
  (`NothingAhead`), the bids of a load are as new as its list or missing
  (`BidsAfterList`), an answer still wanted, and the list shown once one has come, is as
  new as `asked.since` (`SinceAsked`), there are at most two events for a change, and
  (`CatchingUp`) once all events have been sent and handled and none was missed, the
  load asked for last brings the present list (`Renewing`) or has brought it
  (`Renewed`).

With these every invariant the runs check is also a theorem, and so are the three
refinements and every action property.

Only model-checked: liveness, which needs fairness and ENABLED, beyond the
prover (EveryCallAnswered, UndisturbedRoundsEnd, DoneAuctionCompletes,
EveryLockEnds, QueueDrains, VisiblePageCatchesUp, LoadTestEnds,
RefusedSessionEnds, ForeignBalanceEnds). The three statements of the repository that do not hold
have counterexamples from TLC (section 3).

## 5. Not modelled

The gift inventory (`addGiftToInventory` writes a won bid without a payment, for
demonstrations; AuctionsList has only that it announces nothing), the catalogue of gifts, the rooms of the gateway (no page joins
one), metrics, configuration, the fields of forms and the text of messages; the
cache entry of anonymous users, whom no page is shown to. Amounts are natural
numbers: JavaScript's fractions and the limit of exact integers are not
modelled. The clock is one event per round. The FINALIZING status is written
and overwritten in one transaction, so no other transaction ever reads it, and
the recovery's branch for it is unreachable; both are left out. `createdAt` is
left out: equal bids are ranked in any order, which covers every tie break.
Hashing and signatures are left out: a token is whom it stands for.

## 6. Plan

Done: the modules above, in the order Accounts, BalanceService,
AuctionTransactions, RoundScheduler, RedisLock, BidUpdateThrottler, AuctionPage,
Registration, BotLoad, Session, AuctionsList, all with proofs.

Next, in this order:

1. Rooms and subscriptions of the gateway, composed with BidUpdateThrottler and
   AuctionPage, for the day the page joins its room: what a page shows when
   polled dashboards and sent tops interleave.
2. The dashboard entry `:all` under write, delete and a late store.
3. The inventory beside the auction: what a bid created as won means for the
   counts of a running auction of the same gift.

Runs and mapped definitions are kept few: a new question replaces a weaker one.
