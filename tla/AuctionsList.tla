---------------------------- MODULE AuctionsList ----------------------------
(***************************************************************************)
(* The page with the list of auctions and the events that keep it up to    *)
(* date: most handlers that change the database emit them when they have   *)
(* committed, the gateway sends them to every socket of its process, and   *)
(* WebSocketWrapper loads the list again for each.  The page does not      *)
(* poll.  Loads overlap, and the answer that arrives last is the one       *)
(* shown.  Three changes are announced to nobody: the scheduler's advance  *)
(* to the next round (whose number the list shows), bids of the bulk       *)
(* simulation, and a gift put into an inventory by hand, with a completed  *)
(* auction and a won bid of its own.                                       *)
(*                                                                         *)
(* A load asks for the list and, when it has it, for the bids of each      *)
(* auction (here: of one), to show the highest.  Without the list it       *)
(* fails; without the bids it shows 0, as if there were none, and no       *)
(* error.  Gifts, asked for beside the bids, do not change.                *)
(*                                                                         *)
(* The socket is opened once, when the tab is, with the token found then:  *)
(* in production a tab opened before the login stays without events until  *)
(* it is loaded again.  WebSocketWrapper is outside the routes and has no  *)
(* params, so no room is joined: the page gets what is sent to all, which  *)
(* is all the list needs.  The database is the number of its changes, the  *)
(* session a Boolean (see Session).                                        *)
(***************************************************************************)
EXTENDS Naturals

CONSTANTS
    RequireAuth,  \* the gateway asks for a token (production)
    Loads,        \* bound: loads of the list under way at a time
    MaxVersion,   \* bound: changes of the database
    MaxListFaults     \* bound: failed requests, lost events, disconnections

ASSUME ListAssumption ==
    /\ RequireAuth \in BOOLEAN /\ Loads # {}
    /\ MaxVersion \in Nat /\ MaxListFaults \in Nat

VARIABLES
    version,      \* changes of the database so far
    unannounced,  \* events whose handler has committed and not emitted yet
    page,         \* where the user is
    socket,       \* token: offered when connecting; news: events on their way
    load,         \* load[r]: a load of the list
    form,         \* createAuction, sent from the page's modal
    shown,        \* the versions of the list and of the bids on the page
    asked,        \* (history) what the page has asked for, see Asked
    listFaults

listVars == <<version, unannounced, page, socket, load, form, shown, asked, listFaults>>

Version == 0 .. MaxVersion

\* bids: 0 also where the request for them failed.
Load == [at : {"idle", "sent", "listed", "answered"}, wanted : BOOLEAN,
         list : Version, bids : Version]

NoLoad == [at |-> "idle", wanted |-> FALSE, list |-> 0, bids |-> 0]

NoLoads == [r \in Loads |-> NoLoad]

Empty == [list |-> 0, bids |-> 0]

\* since: the version when the first of its overlapping loads was asked for;
\* last: the load asked for last; shown: what is on the page is its answer;
\* missed: since that load was asked for, the page has missed an event, a
\* change came without one, or a load failed.
Asked == [since : Version, last : Loads, shown : BOOLEAN, missed : BOOLEAN]

NeverAsked == [since |-> 0, last |-> CHOOSE r \in Loads : TRUE, shown |-> FALSE,
               missed |-> FALSE]

Form == {"none", "sent", "created", "failed"}

ListTypeOK ==
    /\ version \in Version
    /\ unannounced \in 0 .. 2 * MaxVersion
    /\ page \in {"login", "auctions", "elsewhere"}
    /\ socket \in [token : BOOLEAN, connected : BOOLEAN, news : 0 .. 2 * MaxVersion]
    /\ load \in [Loads -> Load]
    /\ form \in Form
    /\ shown \in [list : Version, bids : Version]
    /\ asked \in Asked
    /\ listFaults \in 0 .. MaxListFaults

Opened(token) == [token |-> token, connected |-> FALSE, news |-> 0]

ListInit ==
    /\ version = 0 /\ unannounced = 0
    /\ page = "login" /\ socket = Opened(FALSE)
    /\ load = NoLoads /\ form = "none"
    /\ shown = Empty /\ asked = NeverAsked /\ listFaults = 0

Fail == listFaults < MaxListFaults /\ listFaults' = listFaults + 1

\* The page misses something, if it is so.
Missing(so) == asked' = [asked EXCEPT !.missed = @ \/ so]
-----------------------------------------------------------------------------
\* The server.

\* A change commits; its handler is going to emit so many events.
Commit(events) ==
    /\ version < MaxVersion
    /\ version' = version + 1
    /\ unannounced' = unannounced + events

\* createAuction: auctions_list_update
CreateAuction == Commit(1)

\* startAuction: auction_update and auctions_list_update
StartAuction == Commit(2)

\* placeBid, placeBidBot: auctions_list_update
PlaceBid == Commit(1)

\* closeRoundWithRetry, once the round is closed: both (round_closed goes to
\* the room only).
CloseRound == Commit(2)

\* closeRoundWithRetry and the recovery, once the auction is completed: both
FinalizeAuction == Commit(2)

\* By anybody.
Change ==
    /\ CreateAuction \/ StartAuction \/ PlaceBid \/ CloseRound \/ FinalizeAuction
    /\ UNCHANGED <<page, socket, load, form, shown, asked, listFaults>>

\* closeRoundWithRetry, for the next round
AdvanceRound == Commit(0)

\* runBulkSimulation
SimulateBid == Commit(0)

\* addGiftToInventory, each of its writes
AddGiftToInventory == Commit(0)

SilentChange ==
    /\ AdvanceRound \/ SimulateBid \/ AddGiftToInventory
    /\ Missing(TRUE)
    /\ UNCHANGED <<page, socket, load, form, shown, listFaults>>

\* Mutant: a handler emits again and again.
EmitAgain ==
    /\ unannounced > 0 /\ socket.connected
    /\ socket' = [socket EXCEPT !.news = @ + 1]
    /\ UNCHANGED <<version, unannounced, page, load, form, shown, asked, listFaults>>

\* server.emit.  An event is lost when the process stops before, or is not
\* the one the tab is connected to.
Emit ==
    /\ unannounced > 0
    /\ unannounced' = unannounced - 1
    /\ \/ socket.connected /\ socket' = [socket EXCEPT !.news = @ + 1] /\ UNCHANGED <<asked, listFaults>>
       \/ ~ socket.connected /\ Missing(TRUE) /\ UNCHANGED <<socket, listFaults>>
       \/ socket.connected /\ Fail /\ Missing(TRUE) /\ UNCHANGED socket
    /\ UNCHANGED <<version, page, load, form, shown>>

\* GET /auctions
AnswerList(r) ==
    /\ load[r].at = "sent"
    /\ load' = [load EXCEPT ![r].at = "listed", ![r].list = version]
    /\ UNCHANGED <<version, unannounced, page, socket, form, shown, asked, listFaults>>

\* GET /auctions/:id/bids, once the page has the list
AnswerBids(r) ==
    /\ load[r].at = "listed"
    /\ \/ load' = [load EXCEPT ![r].at = "answered", ![r].bids = version] /\ UNCHANGED listFaults
       \/ load' = [load EXCEPT ![r].at = "answered"] /\ Fail
    /\ UNCHANGED <<version, unannounced, page, socket, form, shown, asked>>

\* POST /auctions
AnswerForm ==
    /\ form = "sent"
    /\ \/ CreateAuction /\ form' = "created" /\ UNCHANGED listFaults
       \/ Fail /\ form' = "failed" /\ UNCHANGED <<version, unannounced>>
    /\ UNCHANGED <<page, socket, load, shown, asked>>

\* The gateway's middleware lets the socket in.
Connect ==
    /\ ~ socket.connected
    /\ RequireAuth => socket.token
    /\ socket' = [socket EXCEPT !.connected = TRUE]
    /\ UNCHANGED <<version, unannounced, page, load, form, shown, asked, listFaults>>

\* The connection is lost, with the events on their way.
Disconnect ==
    /\ socket.connected /\ Fail
    /\ socket' = Opened(socket.token)
    /\ Missing(socket.news > 0)
    /\ UNCHANGED <<version, unannounced, page, load, form, shown>>

\* The token expires: it will not do for another connection.
TokenExpires ==
    /\ socket.token /\ Fail
    /\ socket' = [socket EXCEPT !.token = FALSE]
    /\ UNCHANGED <<version, unannounced, page, load, form, shown, asked>>
-----------------------------------------------------------------------------
\* The page.

\* loadAuctions is called: the loads L, with one more.
Loading(L, r) ==
    /\ L[r].at = "idle"
    /\ load' = [L EXCEPT ![r] = [NoLoad EXCEPT !.at = "sent", !.wanted = TRUE]]
    /\ asked' = [since |-> IF \E x \in Loads : L[x].wanted THEN asked.since ELSE version,
                 last |-> r, shown |-> FALSE, missed |-> FALSE]

Unwanted == [r \in Loads |-> [load[r] EXCEPT !.wanted = FALSE]]

\* The buttons of the page, and its modal that creates a gift.
AskAgain(r) ==
    /\ page = "auctions"
    /\ Loading(load, r)
    /\ UNCHANGED <<version, unannounced, page, socket, form, shown, listFaults>>

\* The page is mounted, after a login or from another page.
Mount(r) ==
    /\ page # "auctions" /\ page' = "auctions"
    /\ Loading(load, r)
    /\ UNCHANGED <<version, unannounced, socket, form, shown, listFaults>>

\* Another page, or the logout: answers to come are not wanted any more.
Unmount ==
    /\ page = "auctions"
    /\ page' \in {"login", "elsewhere"}
    /\ load' = Unwanted
    /\ form' = "none" /\ shown' = Empty /\ asked' = NeverAsked
    /\ UNCHANGED <<version, unannounced, socket, listFaults>>

\* The tab is loaded anew, with the session's token.
ReloadTab(r) ==
    /\ page = "auctions" /\ shown' = Empty
    /\ Loading(NoLoads, r)
    /\ form' = "none"
    /\ socket' = Opened(TRUE)
    /\ UNCHANGED <<version, unannounced, page, listFaults>>

\* The same on another page, or on the login page once the session is refused.
Reopen ==
    /\ page' \in {"login", "elsewhere"}
    /\ load' = NoLoads /\ form' = "none"
    /\ socket' = Opened(page' = "elsewhere")
    /\ shown' = Empty /\ asked' = NeverAsked
    /\ UNCHANGED <<version, unannounced, listFaults>>

SubmitForm ==
    /\ page = "auctions" /\ form = "none"
    /\ form' = "sent"
    /\ UNCHANGED <<version, unannounced, page, socket, load, shown, asked, listFaults>>

\* onCreated, or an error in the modal.
FormAnswered(r) ==
    /\ form \in {"created", "failed"}
    /\ form' = "none"
    /\ IF form = "created" THEN Loading(load, r) ELSE UNCHANGED <<load, asked>>
    /\ UNCHANGED <<version, unannounced, page, socket, shown, listFaults>>

\* Mutant: an event that arrives during a load does not start another.
HandleEventUnlessLoading(r) ==
    /\ socket.news > 0
    /\ socket' = [socket EXCEPT !.news = @ - 1]
    /\ IF page = "auctions" /\ \A x \in Loads : load[x].at = "idle"
       THEN Loading(load, r) ELSE UNCHANGED <<load, asked>>
    /\ UNCHANGED <<version, unannounced, page, form, shown, listFaults>>

\* WebSocketWrapper, for auctions_list_update and auction_update.
HandleEvent(r) ==
    /\ socket.news > 0
    /\ socket' = [socket EXCEPT !.news = @ - 1]
    /\ IF page = "auctions" THEN Loading(load, r) ELSE UNCHANGED <<load, asked>>
    /\ UNCHANGED <<version, unannounced, page, form, shown, listFaults>>

\* setAuctions, whichever load it is of.
ShowList(r) ==
    /\ load[r].at = "answered"
    /\ load' = [load EXCEPT ![r] = NoLoad]
    /\ IF load[r].wanted
       THEN /\ shown' = [list |-> load[r].list, bids |-> load[r].bids]
            /\ asked' = [asked EXCEPT !.shown = (r = asked.last)]
       ELSE UNCHANGED <<shown, asked>>
    /\ UNCHANGED <<version, unannounced, page, socket, form, listFaults>>

\* GET /auctions fails: what is shown stays, under an error.
LoadFails(r) ==
    /\ load[r].at = "sent" /\ Fail
    /\ load' = [load EXCEPT ![r] = NoLoad]
    /\ Missing(load[r].wanted)
    /\ UNCHANGED <<version, unannounced, page, socket, form, shown>>
-----------------------------------------------------------------------------
ListNext ==
    \/ Change \/ SilentChange \/ Emit \/ AnswerForm \/ Connect \/ Disconnect \/ TokenExpires
    \/ Unmount \/ Reopen \/ SubmitForm
    \/ \E r \in Loads :
          \/ Mount(r) \/ AskAgain(r) \/ ReloadTab(r) \/ FormAnswered(r) \/ HandleEvent(r)
          \/ AnswerList(r) \/ AnswerBids(r) \/ ShowList(r) \/ LoadFails(r)

ListSpec == ListInit /\ [][ListNext]_listVars
-----------------------------------------------------------------------------
\* No load and no event is to come, and the page has missed nothing.
Settled ==
    /\ page = "auctions" /\ ~ asked.missed
    /\ \A r \in Loads : ~ load[r].wanted
    /\ unannounced = 0 /\ socket.news = 0

(* The list catches up with the database: once its loads are done and no   *)
(* event is to come, and the page has missed neither an event nor a change *)
(* without one nor a load since it last asked, the list shown is the       *)
(* present one if the load asked for last was answered last, and in any    *)
(* case is as new as the first of the loads that overlapped.  The highest  *)
(* bids are as new as the list, or are not shown at all.                   *)
ListCurrent ==
    Settled =>
        /\ shown.list >= asked.since
        /\ asked.shown => shown.list = version
        /\ shown.bids = 0 \/ shown.bids >= shown.list
=============================================================================
