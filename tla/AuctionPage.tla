---------------------------- MODULE AuctionPage ----------------------------
(***************************************************************************)
(* AuctionDetailPage.jsx of one user against GET /auctions/:id/dashboard.  *)
(* The page asks for its dashboard every second while it is visible, not   *)
(* waiting for earlier answers; the server answers from the cache entry    *)
(* dashboard:<auction>:<user>, or puts a dashboard together from several   *)
(* queries and stores it with a TTL.  Bids and closings delete only the    *)
(* entry dashboard:<auction>:all, so this one goes by its TTL alone.       *)
(***************************************************************************)
EXTENDS Naturals, Sequences

CONSTANTS Requests,    \* bound: requests under way at a time
          MaxVersion,  \* bound: states of the auction
          MaxFaults    \* bound: failed requests

ASSUME PageAssumption == MaxVersion \in Nat \ {0} /\ MaxFaults \in Nat

VARIABLES
    version,  \* the state of the auction in the database, counted
    cache,    \* the user's cache entry
    request,  \* each request of the page
    visible,  \* the tab is visible and has the focus
    page,     \* dashboardData
    faults

vars == <<version, cache, request, visible, page, faults>>

\* getAuctionById, getCurrentRound, calculateGiftsPerRoundForDisplay,
\* getTopActiveBids and getUserPosition, each an await.
Queries == 5

\* A dashboard: of each query, in order, the version it has read.
Dashboard == [1..Queries -> 1..MaxVersion]
HalfRead  == UNION {[1..n -> 1..MaxVersion] : n \in 0..Queries}
NoData    == <<>>

\* wanted: the page still waits for the answer.
Request == [at : {"idle", "sent", "reading", "answered"},
            data : HalfRead, wanted : BOOLEAN]
Idle    == [at |-> "idle", data |-> NoData, wanted |-> FALSE]

Init ==
    /\ version = 1
    /\ cache = NoData /\ page = NoData
    /\ request = [r \in Requests |-> Idle]
    /\ visible \in BOOLEAN
    /\ faults = 0
-----------------------------------------------------------------------------
\* A bid, a closing, ... commits.
Change ==
    /\ version < MaxVersion
    /\ version' = version + 1
    /\ UNCHANGED <<cache, request, visible, page, faults>>

\* setInterval while the page is visible; the first load and the event
\* refresh-auction at any time.
LoadDashboard(r) ==
    /\ request[r].at = "idle"
    /\ request' = [request EXCEPT ![r].at = "sent", ![r].wanted = TRUE]
    /\ UNCHANGED <<version, cache, visible, page, faults>>

\* Mutant: a missing entry is returned like one that is there.
ReadCacheUntested(r) ==
    /\ request[r].at = "sent"
    /\ request' = [request EXCEPT ![r].at = "answered", ![r].data = cache]
    /\ UNCHANGED <<version, cache, visible, page, faults>>

\* cacheManager.get
ReadCache(r) ==
    /\ request[r].at = "sent"
    /\ request' = [request EXCEPT ![r].at = IF cache = NoData THEN "reading" ELSE "answered",
                                  ![r].data = cache]
    /\ UNCHANGED <<version, cache, visible, page, faults>>

\* Mutant: the bids are read first, the auction last.
ReadBackwards(r) ==
    /\ request[r].at = "reading" /\ Len(request[r].data) < Queries
    /\ request' = [request EXCEPT ![r].data = <<version>> \o @]
    /\ UNCHANGED <<version, cache, visible, page, faults>>

\* The next query is answered.
ReadAuction(r) ==
    /\ request[r].at = "reading" /\ Len(request[r].data) < Queries
    /\ request' = [request EXCEPT ![r].data = Append(@, version)]
    /\ UNCHANGED <<version, cache, visible, page, faults>>

\* cacheManager.set, which replaces what another request has stored.
StoreDashboard(r) ==
    /\ request[r].at = "reading" /\ Len(request[r].data) = Queries
    /\ cache' = request[r].data
    /\ request' = [request EXCEPT ![r].at = "answered"]
    /\ UNCHANGED <<version, visible, page, faults>>

\* The answer arrives, in any order with others: setDashboardData(data).
ShowDashboard(r) ==
    /\ request[r].at = "answered"
    /\ page' = IF request[r].wanted THEN request[r].data ELSE page
    /\ request' = [request EXCEPT ![r] = Idle]
    /\ UNCHANGED <<version, cache, visible, faults>>

\* The request fails and the page shows an error instead; the handler has
\* failed too, or goes on for nobody.
RequestFails(r) ==
    /\ request[r].at # "idle" /\ request[r].wanted /\ faults < MaxFaults
    /\ faults' = faults + 1
    /\ page' = NoData
    /\ \/ request' = [request EXCEPT ![r] = Idle]
       \/ request' = [request EXCEPT ![r].wanted = FALSE]
    /\ UNCHANGED <<version, cache, visible>>

\* Mutant: the entry is stored without a TTL.
NeverExpire == FALSE /\ UNCHANGED vars

\* The entry's TTL is over.
Expire ==
    /\ cache # NoData
    /\ cache' = NoData
    /\ UNCHANGED <<version, request, visible, page, faults>>

\* visibilitychange, blur and focus: polling stops, starts again.
ChangeVisibility ==
    /\ visible' = ~visible
    /\ UNCHANGED <<version, cache, request, page, faults>>

Serve(r) == ReadCache(r) \/ ReadAuction(r) \/ StoreDashboard(r) \/ ShowDashboard(r)

Next ==
    \/ Change \/ Expire \/ ChangeVisibility
    \/ \E r \in Requests : LoadDashboard(r) \/ Serve(r) \/ RequestFails(r)

Spec == Init /\ [][Next]_vars

\* The interval timer of a visible page fires, requests are served, the TTL runs out.
FairSpec ==
    /\ Spec
    /\ WF_vars(visible /\ \E r \in Requests : LoadDashboard(r))
    /\ \A r \in Requests : WF_vars(Serve(r))
    /\ WF_vars(Expire)
-----------------------------------------------------------------------------
\* Types; what is answered is a whole dashboard.
TypeOK ==
    /\ version \in 1..MaxVersion
    /\ cache \in Dashboard \cup {NoData}
    /\ page \in Dashboard \cup {NoData}
    /\ request \in [Requests -> Request]
    /\ \A r \in Requests :
          request[r].at = "answered" => request[r].data \in Dashboard
    /\ visible \in BOOLEAN /\ faults \in 0..MaxFaults

\* What a later query of a dashboard has read is not older than what the
\* earlier ones have.
InOrder(data) == \A i, j \in DOMAIN data : i < j => data[i] <= data[j]

\* A dashboard is put together from several queries while bids are placed
\* and rounds close.  It may mix several states, but never shows bids older
\* than the round beside them, nor a round older than its auction: not on
\* the page, nor in the cache.
BidsNotOlder == InOrder(page) /\ InOrder(cache)

\* A page that stays visible ends up showing the auction as it is, although
\* answers overtake one another, a slow request may store an old dashboard
\* over a newer one, requests fail, and nothing ever deletes the entry.
VisiblePageCatchesUp ==
    <>[]visible => <>[](page = [i \in 1..Queries |-> version])
=============================================================================
