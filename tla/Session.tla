------------------------------ MODULE Session ------------------------------
(***************************************************************************)
(* The session of a user in a tab of a browser: AuthContext, the pages     *)
(* that show what is the user's own, and the interceptors of the HTTP      *)
(* client, against the endpoints that ask for a token.  The tab remembers  *)
(* the user it logged in, while every request carries the token found in   *)
(* localStorage, which all tabs share, when it is sent: another tab may    *)
(* have logged out, or another user in, since.  An answer 401 clears       *)
(* localStorage and reloads the tab.  Of the other tabs there is what they *)
(* do to localStorage.                                                     *)
(*                                                                         *)
(* "bids" stands for the pages of the bids and of the inventory, whose     *)
(* request names the user it is about, "auctions" for the others, "login"  *)
(* for the forms of login and registration.  The header with the balance   *)
(* is on every page but these, and polls.  A form disables only itself, so *)
(* several may be under way; AuthContext, which is never unmounted, takes  *)
(* their answers wherever the tab is by then.                              *)
(***************************************************************************)
EXTENDS Naturals

CONSTANTS
    Users,
    Nobody,
    NoToken,
    SignIns,        \* bound: logins and registrations at a time
    BalanceCalls,   \* bound: requests for the balance at a time
    BidsCalls,      \* bound: requests of the page at a time
    MaxTokens,  \* bound: logins
    MaxFaults   \* bound: requests that fail

ASSUME SessionAssumption ==
    /\ Nobody \notin Users
    /\ BalanceCalls \cap BidsCalls = {}
    /\ SignIns \cap (BalanceCalls \cup BidsCalls) = {}
    /\ MaxTokens \in Nat /\ MaxFaults \in Nat

\* A JWT carries the id of its user; every login makes a new one.
Token == [user : Users, number : 1 .. MaxTokens]

ASSUME NoTokenAssumption == NoToken \notin Token

VARIABLES
    storage,  \* auth_token in localStorage
    issued,   \* number of tokens issued
    expired,  \* the tokens up to this number are past their expiration
    tab,
    request,  \* request[s]: what the tab has asked for
    faults

vars == <<storage, issued, expired, tab, request, faults>>

MaybeToken == Token \cup {NoToken}

Page == {"auctions", "bids"}

Private == {"balance", "bids"}

Read == BalanceCalls \cup BidsCalls

\* The component that asks, and shows the answer.
Shower(s) == IF s \in BalanceCalls THEN "balance" ELSE "bids"

Slot == SignIns \cup Read

\* token: of AuthContext; own: whose data the header and the page show;
\* held (history): the users of the sessions the tab has had since its page
\* was mounted.
Tab == [page : Page \cup {"login"}, token : MaybeToken, leaving : BOOLEAN,
        own : [Private -> Users \cup {Nobody}], held : SUBSET Users]

\* user: whom it is about; token: sent with it, or the one answered;
\* wanted: the component that asked is still mounted.
Request == [at : {"idle", "sent", "ok", "401", "failed"}, user : Users \cup {Nobody},
            token : MaybeToken, wanted : BOOLEAN]

NoRequest == [at |-> "idle", user |-> Nobody, token |-> NoToken, wanted |-> FALSE]

TypeOK ==
    /\ storage \in MaybeToken
    /\ issued \in 0 .. MaxTokens
    /\ expired \in 0 .. issued
    /\ tab \in Tab
    /\ request \in [Slot -> Request]
    /\ faults \in 0 .. MaxFaults

\* A page just mounted.
Fresh(page, token) == [page |-> page, token |-> token, leaving |-> FALSE,
                       own |-> [p \in Private |-> Nobody],
                       held |-> IF token = NoToken THEN {} ELSE {token.user}]

NoRequests == [s \in Slot |-> NoRequest]

Init ==
    /\ storage = NoToken /\ issued = 0 /\ expired = 0
    /\ tab = Fresh("login", NoToken)
    /\ request = NoRequests
    /\ faults = 0
-----------------------------------------------------------------------------
\* apiRequest: the token in localStorage goes into the header; those who sign
\* in are not asked for one.
Sent(s, user) == [at |-> "sent", user |-> user,
                  token |-> IF s \in SignIns THEN NoToken ELSE storage,
                  wanted |-> TRUE]

\* Another page of the tab is mounted, header and all.
Remounted(page, token) == [Fresh(page, token) EXCEPT !.leaving = tab.leaving]

\* Nobody wants what the components of the former page asked for.
Abandoned == [s \in Slot |-> IF s \in Read THEN [request[s] EXCEPT !.wanted = FALSE]
                                         ELSE request[s]]

Remount(page, token) == tab' = Remounted(page, token) /\ request' = Abandoned

Ask(s, user) ==
    /\ request[s].at = "idle"
    /\ request' = [request EXCEPT ![s] = Sent(s, user)]
    /\ UNCHANGED <<storage, issued, expired, tab, faults>>

\* login and register send their form; the other form, or the same one
\* visited again, can be sent as well.
SubmitCredentials(s, u) == s \in SignIns /\ tab.page = "login" /\ Ask(s, u)

\* Mutant: the header goes on asking for the user it shows.
LoadShownBalance ==
    /\ tab.page # "login"
    /\ \E s \in BalanceCalls :
          Ask(s, IF tab.own["balance"] = Nobody THEN tab.token.user ELSE tab.own["balance"])

\* The header asks for the balance when it is mounted, when the user changes
\* and every five seconds, whatever is still under way.
LoadBalance == tab.page # "login" /\ \E s \in BalanceCalls : Ask(s, tab.token.user)

\* The page asks when it is mounted, when the user changes and when the
\* user tells it to.
LoadOwn == tab.page = "bids" /\ \E s \in BidsCalls : Ask(s, tab.token.user)

Navigate(page) ==
    /\ tab.page \notin {"login", page}
    /\ Remount(page, tab.token)
    /\ UNCHANGED <<storage, issued, expired, faults>>

\* What signs in goes on.
Logout ==
    /\ tab.page # "login"
    /\ storage' = NoToken
    /\ Remount("login", NoToken)
    /\ UNCHANGED <<issued, expired, faults>>

\* The tab is loaded anew: its requests are forgotten, its session is the
\* one in localStorage; without one the user is led to the login page.
Open(page) ==
    /\ tab' = Fresh(IF storage = NoToken THEN "login" ELSE page, storage)
    /\ request' = NoRequests
    /\ UNCHANGED <<storage, issued, expired, faults>>

\* handleUnauthorized: to /login, and on to the list if there is a session.
LeaveForLogin == tab.leaving /\ Open("auctions")

\* The user loads the page again.
Refresh == Open(IF tab.page = "bids" THEN "bids" ELSE "auctions")
-----------------------------------------------------------------------------
\* The server.

Authenticated(token) == token # NoToken /\ token.number > expired

\* An error is answered: it says nothing of the user.
Rejected(s, answer) == request' = [request EXCEPT ![s] = [NoRequest EXCEPT !.at = answer]]

Fails(s) ==
    /\ faults < MaxFaults
    /\ faults' = faults + 1
    /\ Rejected(s, "failed")
    /\ UNCHANGED issued

\* A session of the user: the credentials are right (or a new user's).
Issue(s) ==
    /\ issued < MaxTokens
    /\ issued' = issued + 1
    /\ request' = [request EXCEPT
                     ![s].at = "ok",
                     ![s].token = [user |-> request[s].user, number |-> issued + 1]]
    /\ UNCHANGED faults

\* POST /auth/login and /auth/register
AnswerCredentials(s) ==
    /\ request[s].at = "sent"
    /\ \/ Issue(s)
       \/ Rejected(s, "401") /\ UNCHANGED <<issued, faults>>
       \/ Fails(s)
    /\ UNCHANGED <<storage, expired, tab>>

\* GET /users/:id/balance, /bids and /inventory: JwtAuthGuard, and a user
\* may only ask for himself (403).
AnswerPrivate(s) ==
    LET r == request[s] IN
    /\ r.at = "sent"
    /\ \/ ~ Authenticated(r.token) /\ Rejected(s, "401") /\ UNCHANGED <<issued, faults>>
       \/ /\ Authenticated(r.token)
          /\ IF r.token.user = r.user
                THEN request' = [request EXCEPT ![s].at = "ok", ![s].token = NoToken]
                ELSE Rejected(s, "failed")
          /\ UNCHANGED <<issued, faults>>
       \/ Fails(s)
    /\ UNCHANGED <<storage, expired, tab>>

\* Another tab logs in, or its session ends.
Elsewhere ==
    /\ \/ /\ issued < MaxTokens
          /\ issued' = issued + 1
          /\ \E u \in Users : storage' = [user |-> u, number |-> issued + 1]
       \/ storage' = NoToken /\ UNCHANGED issued
    /\ UNCHANGED <<expired, tab, request, faults>>

\* Mutant: of tokens that were never issued.
ExpireAny ==
    /\ expired < MaxTokens
    /\ expired' = expired + 1
    /\ UNCHANGED <<storage, issued, tab, request, faults>>

\* The expiration of a token comes: all are valid for the same time.
Expire ==
    /\ expired < issued
    /\ expired' = expired + 1
    /\ UNCHANGED <<storage, issued, tab, request, faults>>
-----------------------------------------------------------------------------
\* The tab receives an answer.

Done(s) == request' = [request EXCEPT ![s] = NoRequest]

\* Mutant: the interceptor leaves the token in localStorage.
TokenKept == storage

TokenAfter401 == NoToken

\* The response interceptor, whoever asked.
ReceiveUnauthorized(s) ==
    /\ request[s].at = "401"
    /\ storage' = TokenAfter401
    /\ tab' = [tab EXCEPT !.leaving = TRUE]
    /\ Done(s)
    /\ UNCHANGED <<issued, expired, faults>>

\* The session is stored, and the user led to where he wanted to go: a page
\* mounted anew, or the one another sign-in has led to before, which stays
\* as it is.
ReceiveSession(s) ==
    LET r == request[s] IN
    /\ r.at = "ok"
    /\ storage' = r.token
    /\ \/ /\ \E page \in Page : tab' = Remounted(page, r.token)
          /\ request' = [Abandoned EXCEPT ![s] = NoRequest]
       \/ /\ tab.page # "login"
          /\ tab' = [tab EXCEPT !.token = r.token, !.held = @ \cup {r.token.user}]
          /\ Done(s)
    /\ UNCHANGED <<issued, expired, faults>>

\* Mutant: an unmounted component takes the answer.
TakenByAny(r) == r.at = "ok"

Taken(r) == r.at = "ok" /\ r.wanted

ReceivePrivate(s) ==
    /\ Taken(request[s])
    /\ tab' = [tab EXCEPT !.own[Shower(s)] = request[s].user]
    /\ Done(s)
    /\ UNCHANGED <<storage, issued, expired, faults>>

\* An error is shown, and what was there before stays; nobody takes the
\* answer an unmounted component asked for.
Discard(s) ==
    LET r == request[s] IN
    /\ r.at = "failed" \/ (s \in Read /\ r.at = "ok" /\ ~ r.wanted)
    /\ Done(s)
    /\ UNCHANGED <<storage, issued, expired, tab, faults>>
-----------------------------------------------------------------------------
Answer(s) == IF s \in SignIns THEN AnswerCredentials(s) ELSE AnswerPrivate(s)

Receive(s) ==
    \/ ReceiveUnauthorized(s)
    \/ s \in SignIns /\ ReceiveSession(s)
    \/ s \in Read /\ ReceivePrivate(s)
    \/ Discard(s)

Next ==
    \/ \E s \in SignIns, u \in Users : SubmitCredentials(s, u)
    \/ \E page \in Page : Navigate(page)
    \/ LoadBalance \/ LoadOwn \/ Logout \/ Refresh \/ LeaveForLogin
    \/ \E s \in Slot : Answer(s) \/ Receive(s)
    \/ Elsewhere \/ Expire

Spec == Init /\ [][Next]_vars

\* The header of a visible tab polls, a tab told to leave does, and a user
\* who loads pages again and again lets one be answered now and then.
Fairness ==
    /\ WF_vars(LoadBalance) /\ WF_vars(LeaveForLogin)
    /\ \A s \in BalanceCalls : SF_vars(Answer(s)) /\ SF_vars(Receive(s))

FairSpec == Spec /\ Fairness
-----------------------------------------------------------------------------
(* What a tab shows as the user's own (balance, bids, inventory) is the    *)
(* data of a user whose session the tab has had since that page was        *)
(* mounted: of the one user whose session it shows, unless a second        *)
(* sign-in was answered meanwhile.  Other tabs may open and close sessions *)
(* and answers may come however late.                                      *)
OwnDataOnly ==
    \A p \in Private :
        tab.own[p] # Nobody =>
            /\ tab.page # "login" /\ tab.token # NoToken
            /\ tab.own[p] \in tab.held

ForeignBalance ==
    tab.own["balance"] # Nobody /\ tab.own["balance"] # tab.token.user

SessionStored == storage # NoToken /\ storage.user = tab.token.user

(* Where a second sign-in has left the balance of the first user under the *)
(* session of the second, it does not stay: the poll of the header brings  *)
(* that of the user who is signed in, unless another tab opens another     *)
(* session or the session ends.                                            *)
ForeignBalanceEnds ==
    (ForeignBalance /\ SessionStored) ~> ~ (ForeignBalance /\ SessionStored)

Refused == tab.page # "login" /\ ~ Authenticated(storage)

(* A session that has ended (its token expired, or another tab logged out) *)
(* does not linger in a tab: the tab ends on the login page, or a new      *)
(* session is opened.                                                      *)
RefusedSessionEnds == Refused ~> ~ Refused
=============================================================================
