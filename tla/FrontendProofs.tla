--------------------------- MODULE FrontendProofs ---------------------------
(***************************************************************************)
(* Two parts of the frontend, each by itself: the session of a tab, and    *)
(* the list of auctions with the events that keep it up to date.           *)
(***************************************************************************)
EXTENDS Session, AuctionsList, Integers, TLAPS

-----------------------------------------------------------------------------
(* The session, for any users and any number of sessions, sign-ins and     *)
(* requests at a time.  What makes a tab show only what its page has a     *)
(* session for is said of the requests on their way: one still wanted is   *)
(* about a user of those sessions (RequestsHeld), because every action     *)
(* that forgets one unmounts who asked.                                    *)

RequestsHeld ==
    \A s \in Read :
        request[s].wanted => tab.page # "login" /\ request[s].user \in tab.held

SessionHeld ==
    /\ tab.page # "login" => tab.token # NoToken
    /\ tab.token # NoToken => tab.token.user \in tab.held

\* A sign-in is of a user, and what it is answered is a session.
SignInsOpen ==
    \A s \in SignIns :
        /\ request[s].at \in {"sent", "ok"} => request[s].user \in Users
        /\ request[s].at = "ok" => request[s].token # NoToken

IInv == TypeOK /\ RequestsHeld /\ SessionHeld /\ SignInsOpen /\ OwnDataOnly

LEMMA SlotSplit == Slot = SignIns \cup Read /\ SignIns \cap Read = {}
BY SessionAssumption DEF Slot, Read

LEMMA NoRequestType ==
    NoRequest \in Request /\ NoRequest.at = "idle" /\ NoRequest.wanted = FALSE
BY DEF NoRequest, Request, MaybeToken

\* A page just mounted shows nothing, and holds the session it is given.
MountedWith(t, p, token) ==
    /\ t \in Tab /\ t.page = p /\ t.token = token
    /\ \A q \in Private : t.own[q] = Nobody
    /\ token # NoToken => token.user \in t.held

LEMMA FreshFacts ==
    ASSUME NEW p \in Page \cup {"login"}, NEW token \in MaybeToken
    PROVE  MountedWith(Fresh(p, token), p, token)
<1> DEFINE held == IF token = NoToken THEN {} ELSE {token.user}
           own == [q \in Private |-> Nobody]
<1>1. held \in SUBSET Users /\ (token # NoToken => token.user \in held)
  BY DEF MaybeToken, Token
<1>2. Fresh(p, token) = [page |-> p, token |-> token, leaving |-> FALSE,
                         own |-> own, held |-> held]
  BY DEF Fresh
<1>3. own \in [Private -> Users \cup {Nobody}] /\ \A q \in Private : own[q] = Nobody
  OBVIOUS
<1> HIDE DEF held, own
<1>4. Fresh(p, token) \in Tab
  BY <1>1, <1>2, <1>3 DEF Tab
<1> QED
  BY <1>1, <1>2, <1>3, <1>4 DEF MountedWith

LEMMA RemountedFacts ==
    ASSUME NEW p \in Page \cup {"login"}, NEW token \in MaybeToken, tab \in Tab
    PROVE  MountedWith(Remounted(p, token), p, token)
<1>1. tab.leaving \in BOOLEAN
  BY DEF Tab
<1> QED
  BY <1>1, FreshFacts DEF MountedWith, Remounted, Tab

LEMMA InitIInv == Init => IInv
<1> SUFFICES ASSUME Init PROVE IInv
  OBVIOUS
<1>1. /\ NoToken \in MaybeToken /\ "login" \in Page \cup {"login"}
      /\ tab = Fresh("login", NoToken)
  BY DEF MaybeToken, Init
<1>2. tab \in Tab /\ tab.page = "login" /\ tab.token = NoToken
      /\ \A q \in Private : tab.own[q] = Nobody
  BY <1>1, FreshFacts DEF MountedWith
<1>3. request \in [Slot -> Request] /\ \A s \in Slot : request[s] = NoRequest
  BY NoRequestType DEF Init, NoRequests
<1>4. TypeOK
  BY <1>1, <1>2, <1>3, SessionAssumption DEF Init, TypeOK
<1>5. RequestsHeld /\ SessionHeld /\ SignInsOpen /\ OwnDataOnly
  BY <1>2, <1>3, NoRequestType, SlotSplit
     DEF RequestsHeld, SessionHeld, SignInsOpen, OwnDataOnly
<1> QED
  BY <1>4, <1>5 DEF IInv

\* Another page is mounted, with a session or without.
LEMMA MountIInv ==
    ASSUME IInv, NEW p \in Page \cup {"login"}, NEW token \in MaybeToken,
           p # "login" => token # NoToken,
           MountedWith(tab', p, token),
           request' \in [Slot -> Request],
           \A s \in Read : ~ request'[s].wanted,
           \A s \in SignIns : request'[s] \in {request[s], NoRequest},
           storage' \in MaybeToken, UNCHANGED <<issued, expired, faults>>
    PROVE  IInv'
<1>1. /\ tab' \in Tab /\ tab'.page = p /\ tab'.token = token
      /\ \A q \in Private : tab'.own[q] = Nobody
      /\ token # NoToken => token.user \in tab'.held
  BY DEF MountedWith
<1>2. TypeOK'
  BY <1>1 DEF IInv, TypeOK
<1>3. RequestsHeld' /\ SessionHeld' /\ OwnDataOnly'
  BY <1>1 DEF RequestsHeld, SessionHeld, OwnDataOnly
<1>4. SignInsOpen'
  BY NoRequestType DEF IInv, SignInsOpen
<1> QED
  BY <1>2, <1>3, <1>4 DEF IInv

LEMMA OpenIInv ==
    ASSUME IInv, NEW p \in Page, Open(p) PROVE IInv'
<1> DEFINE q == IF storage = NoToken THEN "login" ELSE p
<1>1. /\ tab' = Fresh(q, storage)
      /\ request' = NoRequests /\ UNCHANGED <<storage, issued, expired, faults>>
  BY DEF Open
<1>2. /\ q \in Page \cup {"login"} /\ (q # "login" => storage # NoToken)
      /\ storage \in MaybeToken
  BY DEF IInv, TypeOK
<1> HIDE DEF q
<1>3. MountedWith(tab', q, storage)
  BY <1>1, <1>2, FreshFacts
<1>4. request' \in [Slot -> Request] /\ \A s \in Slot : request'[s] = NoRequest
  BY <1>1, NoRequestType DEF NoRequests
<1> QED
  BY <1>1, <1>2, <1>3, <1>4, NoRequestType, SlotSplit, MountIInv

LEMMA AbandonedFacts ==
    ASSUME IInv
    PROVE  /\ Abandoned \in [Slot -> Request]
           /\ \A s \in Read : ~ Abandoned[s].wanted
           /\ \A s \in SignIns : Abandoned[s] = request[s]
<1>1. request \in [Slot -> Request]
  BY DEF IInv, TypeOK
<1> QED
  BY <1>1, SlotSplit DEF Abandoned, Request

LEMMA LeavesIInv ==
    ASSUME IInv, (\E p \in Page : Navigate(p)) \/ Logout PROVE IInv'
<1>1. tab \in Tab /\ tab.token \in MaybeToken /\ NoToken \in MaybeToken
  BY DEF IInv, TypeOK, Tab, MaybeToken
<1>2. ASSUME NEW p \in Page, Navigate(p) PROVE IInv'
  <2>1. /\ tab' = Remounted(p, tab.token)
        /\ request' = Abandoned /\ UNCHANGED <<storage, issued, expired, faults>>
    BY <1>2 DEF Navigate, Remount
  <2>2. storage' \in MaybeToken /\ tab.token # NoToken /\ p \in Page \cup {"login"}
    BY <1>2, <2>1 DEF Navigate, IInv, TypeOK, SessionHeld
  <2> QED
    BY <1>1, <2>1, <2>2, RemountedFacts, AbandonedFacts, MountIInv
<1>3. ASSUME Logout PROVE IInv'
  <2>1. /\ tab' = Remounted("login", NoToken)
        /\ storage' = NoToken /\ request' = Abandoned /\ UNCHANGED <<issued, expired, faults>>
    BY <1>3 DEF Logout, Remount
  <2>2. "login" \in Page \cup {"login"}
    OBVIOUS
  <2> QED
    BY <1>1, <2>1, <2>2, RemountedFacts, AbandonedFacts, MountIInv
<1> QED
  BY <1>2, <1>3

(* A form is sent, or a component sends a request about the user.          *)
LEMMA AskIInv ==
    ASSUME IInv, NEW s \in Slot, NEW u \in Users, Ask(s, u),
           s \in Read => tab.page # "login" /\ u \in tab.held
    PROVE  IInv'
<1>1. Sent(s, u) \in Request /\ Sent(s, u).user = u /\ Sent(s, u).at = "sent"
  BY DEF Sent, Request, IInv, TypeOK, MaybeToken
<1>2. /\ request' = [request EXCEPT ![s] = Sent(s, u)]
      /\ UNCHANGED <<storage, issued, expired, tab, faults>>
  BY DEF Ask
<1>3. TypeOK'
  BY <1>1, <1>2 DEF IInv, TypeOK
<1>4. RequestsHeld' /\ SessionHeld' /\ SignInsOpen' /\ OwnDataOnly'
  BY <1>1, <1>2, SlotSplit
     DEF IInv, TypeOK, RequestsHeld, SessionHeld, SignInsOpen, OwnDataOnly
<1> QED
  BY <1>3, <1>4 DEF IInv

LEMMA AsksIInv ==
    ASSUME IInv,
           (\E s \in SignIns, u \in Users : SubmitCredentials(s, u)) \/ LoadBalance \/ LoadOwn
    PROVE  IInv'
<1>1. tab.page # "login" => tab.token.user \in tab.held /\ tab.token.user \in Users
  BY DEF IInv, TypeOK, SessionHeld, Tab, MaybeToken, Token
<1>2. "bids" # "login" /\ BalanceCalls \subseteq Read /\ BidsCalls \subseteq Read
  BY DEF Read
<1> QED
  BY <1>1, <1>2, AskIInv, SlotSplit DEF SubmitCredentials, LoadBalance, LoadOwn

(* The server answers.  Whom a request is about stays as it is, or is      *)
(* forgotten with the request.                                             *)
LEMMA AnswerIInv ==
    ASSUME IInv, NEW s \in Slot, Answer(s) PROVE IInv'
<1>1. UNCHANGED <<storage, expired, tab>>
  BY DEF Answer, AnswerCredentials, AnswerPrivate
<1>2. request \in [Slot -> Request] /\ request[s].at = "sent" /\ request[s] \in Request
  BY DEF IInv, TypeOK, Answer, AnswerCredentials, AnswerPrivate
<1>3. ASSUME NEW r \in Request, request' = [request EXCEPT ![s] = r],
             r.wanted => r.user = request[s].user /\ request[s].wanted,
             s \in SignIns /\ r.at \in {"sent", "ok"} => r.user \in Users /\ r.token # NoToken,
             issued' \in 0 .. MaxTokens, issued' >= issued, faults' \in 0 .. MaxFaults
      PROVE  IInv'
  <2>1. request' \in [Slot -> Request]
    BY <1>2, <1>3
  <2>2. expired' \in 0 .. issued'
    BY <1>1, <1>3, SessionAssumption DEF IInv, TypeOK
  <2>3. TypeOK'
    BY <1>1, <1>3, <2>1, <2>2 DEF IInv, TypeOK
  <2>4. RequestsHeld' /\ SessionHeld' /\ SignInsOpen' /\ OwnDataOnly'
    BY <1>1, <1>2, <1>3, SlotSplit
       DEF IInv, RequestsHeld, SessionHeld, SignInsOpen, OwnDataOnly
  <2> QED
    BY <2>3, <2>4 DEF IInv
<1>4. issued \in 0 .. MaxTokens /\ issued >= issued /\ faults \in 0 .. MaxFaults
  BY SessionAssumption DEF IInv, TypeOK
<1>5. ASSUME NEW how \in {"401", "failed"}, Rejected(s, how), issued' = issued,
             faults' \in 0 .. MaxFaults
      PROVE  IInv'
  <2> DEFINE r == [NoRequest EXCEPT !.at = how]
  <2>1. r \in Request /\ r.at = how /\ ~ r.wanted
    BY NoRequestType DEF Request
  <2>2. request' = [request EXCEPT ![s] = r]
    BY <1>5 DEF Rejected
  <2> HIDE DEF r
  <2> QED
    BY <1>3, <1>4, <1>5, <2>1, <2>2
<1>6. ASSUME Fails(s) PROVE IInv'
  <2>1. faults' \in 0 .. MaxFaults /\ issued' = issued /\ Rejected(s, "failed")
    BY <1>4, <1>6, SessionAssumption DEF Fails
  <2> QED
    BY <1>5, <2>1
<1>7. CASE s \in SignIns
  <2>1. ASSUME Issue(s) PROVE IInv'
    <3> DEFINE token == [user |-> request[s].user, number |-> issued + 1]
               r == [request[s] EXCEPT !.at = "ok", !.token = token]
    <3>1. issued' = issued + 1 /\ issued' \in 1 .. MaxTokens /\ UNCHANGED faults
      BY <2>1, SessionAssumption DEF Issue, IInv, TypeOK
    <3>2. request[s].user \in Users
      BY <1>2, <1>7 DEF IInv, SignInsOpen
    <3>3. token \in Token
      BY <3>1, <3>2 DEF Token
    <3>4. token \in MaybeToken /\ token # NoToken
      BY <3>3, NoTokenAssumption DEF MaybeToken
    <3>5. request' = [request EXCEPT ![s] = r]
      BY <1>2, <2>1 DEF Issue, Request
    <3> HIDE DEF token
    <3>6. r \in Request /\ r.user = request[s].user /\ r.at = "ok" /\ r.token = token
          /\ r.wanted = request[s].wanted
      BY <1>2, <3>4 DEF Request
    <3> HIDE DEF r
    <3>7. issued' \in 0 .. MaxTokens /\ issued' >= issued
      BY <1>4, <3>1
    <3> QED
      BY <1>3, <1>4, <3>1, <3>2, <3>4, <3>5, <3>6, <3>7
  <2> QED
    BY <1>4, <1>5, <1>6, <1>7, <2>1 DEF Answer, AnswerCredentials
<1>8. CASE s \notin SignIns
  <2>1. ASSUME request' = [request EXCEPT ![s].at = "ok", ![s].token = NoToken],
               UNCHANGED <<issued, faults>>
        PROVE  IInv'
    <3> DEFINE r == [request[s] EXCEPT !.at = "ok", !.token = NoToken]
    <3>1. r \in Request /\ r.user = request[s].user /\ r.wanted = request[s].wanted
      BY <1>2 DEF Request, MaybeToken
    <3>2. request' = [request EXCEPT ![s] = r]
      BY <1>2, <2>1 DEF Request
    <3> HIDE DEF r
    <3> QED
      BY <1>3, <1>4, <1>8, <2>1, <3>1, <3>2
  <2> QED
    BY <1>4, <1>5, <1>6, <1>8, <2>1 DEF Answer, AnswerPrivate
<1> QED
  BY <1>7, <1>8

-----------------------------------------------------------------------------
(* The tab receives what was answered.                                     *)

LEMMA DoneFacts ==
    ASSUME IInv, NEW s \in Slot, Done(s)
    PROVE  /\ request' \in [Slot -> Request]
           /\ request'[s] = NoRequest
           /\ \A o \in Slot \ {s} : request'[o] = request[o]
BY NoRequestType DEF Done, IInv, TypeOK

\* The page stays; what it shows anew is of a session it has had.
LEMMA StayIInv ==
    ASSUME IInv, NEW s \in Slot, Done(s), NEW t \in Tab, tab' = t,
           storage' \in MaybeToken, UNCHANGED <<issued, expired, faults>>,
           t.page = tab.page, tab.held \subseteq t.held,
           t.token = tab.token \/ (t.token # NoToken /\ t.token.user \in t.held),
           \A p \in Private : t.own[p] = tab.own[p]
                              \/ (tab.page # "login" /\ t.own[p] \in t.held)
    PROVE  IInv'
<1>1. TypeOK'
  BY DoneFacts DEF IInv, TypeOK
<1>2. RequestsHeld' /\ SignInsOpen'
  BY NoRequestType, DoneFacts, SlotSplit DEF IInv, RequestsHeld, SignInsOpen
<1>3. SessionHeld' /\ OwnDataOnly'
  BY DEF IInv, SessionHeld, OwnDataOnly
<1> QED
  BY <1>1, <1>2, <1>3 DEF IInv

LEMMA ReceiveSessionIInv ==
    ASSUME IInv, NEW s \in SignIns, ReceiveSession(s) PROVE IInv'
<1> DEFINE token == request[s].token
<1>1. /\ s \in Slot /\ token \in MaybeToken /\ token # NoToken /\ token.user \in Users
      /\ tab \in Tab
      /\ storage' = token /\ UNCHANGED <<issued, expired, faults>>
  BY SlotSplit DEF ReceiveSession, IInv, TypeOK, SignInsOpen, Request, Tab, MaybeToken, Token
<1>2. ASSUME NEW p \in Page, tab' = Remounted(p, token), request' = [Abandoned EXCEPT ![s] = NoRequest]
      PROVE  IInv'
  <2>1. MountedWith(tab', p, token) /\ p \in Page \cup {"login"}
    BY <1>1, <1>2, RemountedFacts
  <2>2. /\ request' \in [Slot -> Request]
        /\ \A o \in Read : ~ request'[o].wanted
        /\ \A o \in SignIns : request'[o] \in {request[o], NoRequest}
    BY <1>1, <1>2, AbandonedFacts, NoRequestType, SlotSplit
  <2> QED
    BY <1>1, <2>1, <2>2, MountIInv
<1>3. ASSUME tab.page # "login", Done(s),
             tab' = [tab EXCEPT !.token = token, !.held = @ \cup {token.user}]
      PROVE  IInv'
  <2>1. /\ tab' \in Tab /\ tab'.page = tab.page /\ tab'.token = token /\ tab'.own = tab.own
        /\ tab'.held = tab.held \cup {token.user}
    BY <1>1, <1>3 DEF Tab
  <2> QED
    BY <1>1, <1>3, <2>1, StayIInv
<1> QED
  BY <1>2, <1>3 DEF ReceiveSession

LEMMA ReceiveIInv ==
    ASSUME IInv, NEW s \in Slot, Receive(s) PROVE IInv'
<1>1. tab \in Tab /\ storage \in MaybeToken /\ NoToken \in MaybeToken
  BY DEF IInv, TypeOK, MaybeToken
<1>2. CASE ReceiveUnauthorized(s)
  <2>1. /\ tab' \in Tab /\ tab'.page = tab.page /\ tab'.token = tab.token
        /\ tab'.own = tab.own /\ tab'.held = tab.held
    BY <1>1, <1>2 DEF ReceiveUnauthorized, Tab
  <2> QED
    BY <1>1, <1>2, <2>1, StayIInv DEF ReceiveUnauthorized, TokenAfter401
<1>3. CASE s \in Read /\ ReceivePrivate(s)
  <2>1. /\ tab' = [tab EXCEPT !.own[Shower(s)] = request[s].user] /\ Done(s)
        /\ request[s].wanted /\ UNCHANGED <<storage, issued, expired, faults>>
    BY <1>3 DEF ReceivePrivate, Taken
  <2>2. tab.page # "login" /\ request[s].user \in tab.held
        /\ request[s].user \in Users \cup {Nobody} /\ Shower(s) \in Private
    BY <1>3, <2>1 DEF IInv, TypeOK, RequestsHeld, Request, Shower, Private
  <2>3. /\ tab' \in Tab /\ tab'.page = tab.page /\ tab'.token = tab.token
        /\ tab'.held = tab.held
        /\ \A p \in Private : tab'.own[p] = IF p = Shower(s) THEN request[s].user ELSE tab.own[p]
    BY <1>1, <2>1, <2>2 DEF Tab
  <2> QED
    BY <1>1, <2>1, <2>2, <2>3, StayIInv
<1>4. CASE Discard(s)
  BY <1>1, <1>4, StayIInv DEF Discard
<1> QED
  BY <1>2, <1>3, <1>4, ReceiveSessionIInv DEF Receive

(* Other tabs, and the clock.                                              *)
LEMMA OutsideIInv ==
    ASSUME IInv, Elsewhere \/ Expire PROVE IInv'
<1>1. tab' = tab /\ request' = request /\ faults' = faults
  BY DEF Elsewhere, Expire
<1>2. TypeOK'
  <2>1. CASE Expire
    BY <2>1, SessionAssumption DEF Expire, IInv, TypeOK
  <2>2. CASE Elsewhere
    <3>1. CASE storage' = NoToken /\ UNCHANGED issued
      BY <1>1, <2>2, <3>1 DEF Elsewhere, IInv, TypeOK, MaybeToken
    <3>2. ASSUME issued < MaxTokens, issued' = issued + 1,
                 \E u \in Users : storage' = [user |-> u, number |-> issued + 1]
          PROVE  TypeOK'
      <4>1. issued' \in 1 .. MaxTokens /\ issued' >= issued /\ issued \in Nat
        BY <3>2, SessionAssumption DEF IInv, TypeOK
      <4>2. storage' \in MaybeToken
        BY <3>2, <4>1 DEF MaybeToken, Token
      <4>3. expired' \in 0 .. issued'
        BY <2>2, <4>1 DEF Elsewhere, IInv, TypeOK
      <4> QED
        BY <1>1, <4>1, <4>2, <4>3 DEF IInv, TypeOK
    <3> QED
      BY <2>2, <3>1, <3>2 DEF Elsewhere
  <2> QED
    BY <2>1, <2>2
<1> QED
  BY <1>1, <1>2 DEF IInv, RequestsHeld, SessionHeld, SignInsOpen, OwnDataOnly

LEMMA NextIInv == IInv /\ [Next]_vars => IInv'
<1>1. ASSUME IInv, UNCHANGED vars PROVE IInv'
  BY <1>1 DEF vars, IInv, TypeOK, RequestsHeld, SessionHeld, SignInsOpen, OwnDataOnly
<1>2. ASSUME IInv, LeaveForLogin \/ Refresh PROVE IInv'
  BY <1>2, OpenIInv DEF LeaveForLogin, Refresh, Page
<1> QED
  BY <1>1, <1>2, AsksIInv, LeavesIInv, AnswerIInv, ReceiveIInv, OutsideIInv DEF Next

(* The state of a tab has its type.                                        *)
THEOREM TabTypeCorrect == Spec => []TypeOK
<1>1. IInv => TypeOK
  BY DEF IInv
<1> QED
  BY <1>1, InitIInv, NextIInv, PTL DEF Spec

(* A tab shows as its user's own only what is of a user whose session it   *)
(* has had since its page was mounted, whatever other tabs do to the       *)
(* session, however many sign-ins overlap and however late an answer is.   *)
THEOREM OwnDataShown == Spec => []OwnDataOnly
<1>1. IInv => OwnDataOnly
  BY DEF IInv
<1> QED
  BY <1>1, InitIInv, NextIInv, PTL DEF Spec

-----------------------------------------------------------------------------
(* The list of auctions, for any number of overlapping loads.  Once no     *)
(* event is to come and the page has missed nothing, the load asked for    *)
(* last is about to bring the present list (Renewing), or is done, and     *)
(* the page shows its answer or one that came after it (Renewed).          *)

\* No event comes without a change, and no change has more than two.
EventsCounted == unannounced + socket.news <= 2 * version

\* Nothing shown, asked for or on its way is of the future.
NothingAhead ==
    /\ shown.list <= version /\ shown.bids <= version /\ asked.since <= version
    /\ \A r \in Loads : load[r].list <= version /\ load[r].bids <= version

\* The bids are asked for once the list is there.
BidsAfterList ==
    /\ shown.bids = 0 \/ shown.list <= shown.bids
    /\ \A r \in Loads :
          load[r].bids = 0 \/ (load[r].at = "answered" /\ load[r].list <= load[r].bids)

\* No load that is wanted is older than the first of them.
SinceAsked ==
    \A r \in Loads :
        load[r].wanted /\ load[r].at \in {"listed", "answered"} => asked.since <= load[r].list

Renewing ==
    /\ load[asked.last].wanted
    /\ \/ load[asked.last].at = "sent"
       \/ load[asked.last].at \in {"listed", "answered"} /\ load[asked.last].list = version

Renewed ==
    /\ ~ load[asked.last].wanted
    /\ asked.since <= shown.list
    /\ asked.shown => shown.list = version

CatchingUp ==
    page = "auctions" /\ ~ asked.missed /\ unannounced = 0 /\ socket.news = 0 =>
        (Renewing \/ Renewed)

ListInv ==
    /\ ListTypeOK /\ EventsCounted /\ NothingAhead
    /\ BidsAfterList /\ SinceAsked /\ CatchingUp

LEMMA LoadType ==
    /\ 0 \in Version /\ NoLoad \in Load /\ NoLoads \in [Loads -> Load]
    /\ Empty \in [list : Version, bids : Version] /\ NeverAsked \in Asked
<1>1. 0 \in Version
  BY ListAssumption DEF Version
<1>2. (CHOOSE r \in Loads : TRUE) \in Loads
  BY ListAssumption
<1> QED
  BY <1>1, <1>2 DEF NoLoad, NoLoads, Load, Empty, NeverAsked, Asked

LEMMA ListFacts ==
    ASSUME ListInv
    PROVE  /\ version \in Version /\ version \in Nat /\ version <= MaxVersion
           /\ unannounced \in Nat /\ socket.news \in Nat
           /\ load \in [Loads -> Load] /\ asked \in Asked
           /\ asked.since \in Nat /\ asked.last \in Loads
           /\ shown \in [list : Version, bids : Version]
           /\ shown.list \in Nat /\ shown.bids \in Nat
           /\ \A r \in Loads : load[r].list \in Nat /\ load[r].bids \in Nat
BY ListAssumption DEF ListInv, ListTypeOK, Version, Asked, Load

LEMMA ListInitInv == ListInit => ListInv
<1> SUFFICES ASSUME ListInit PROVE ListInv
  OBVIOUS
<1>1. /\ socket = [token |-> FALSE, connected |-> FALSE, news |-> 0]
      /\ version = 0 /\ unannounced = 0 /\ shown = Empty /\ load = NoLoads
      /\ asked = NeverAsked /\ page = "login"
  BY DEF ListInit, Opened
<1>2. ListTypeOK
  <2>1. socket \in [token : BOOLEAN, connected : BOOLEAN, news : 0 .. 2 * MaxVersion]
    BY <1>1, ListAssumption
  <2>2. 0 \in 0 .. 2 * MaxVersion /\ 0 \in 0 .. MaxListFaults
    BY ListAssumption
  <2> QED
    BY <1>1, <2>1, <2>2, LoadType DEF ListInit, ListTypeOK, Form
<1>3. EventsCounted
  BY <1>1 DEF EventsCounted
<1>4. NothingAhead /\ BidsAfterList /\ SinceAsked
  BY <1>1 DEF NothingAhead, BidsAfterList, SinceAsked, NoLoads, NoLoad, Empty, NeverAsked
<1>5. CatchingUp
  BY <1>1 DEF CatchingUp
<1> QED
  BY <1>2, <1>3, <1>4, <1>5 DEF ListInv

\* What the invariant says of the loads, but for the type of the whole.
LoadsInOrder(L, since) ==
    \A x \in Loads :
        /\ L[x].list <= version /\ L[x].bids <= version
        /\ L[x].bids = 0 \/ (L[x].at = "answered" /\ L[x].list <= L[x].bids)
        /\ L[x].wanted /\ L[x].at \in {"listed", "answered"} => since <= L[x].list

\* Asking for the list, whatever else is asked for.
LEMMA LoadingAsks ==
    ASSUME ListInv, NEW L \in [Loads -> Load], LoadsInOrder(L, asked.since),
           NEW r \in Loads, Loading(L, r), UNCHANGED version
    PROVE  /\ load' \in [Loads -> Load] /\ asked' \in Asked
           /\ LoadsInOrder(load', asked'.since) /\ asked'.since <= version
           /\ Renewing'
<1> DEFINE sent == [NoLoad EXCEPT !.at = "sent", !.wanted = TRUE]
           since == IF \E x \in Loads : L[x].wanted THEN asked.since ELSE version
<1>1. sent \in Load /\ sent.at = "sent" /\ sent.wanted = TRUE /\ sent.list = 0 /\ sent.bids = 0
  BY LoadType DEF NoLoad, Load
<1>2. since \in Version /\ since <= version
      /\ (since # asked.since => \A x \in Loads : ~ L[x].wanted)
  BY ListFacts DEF Asked, ListInv, NothingAhead
<1>3. load' = [L EXCEPT ![r] = sent]
      /\ asked' = [since |-> since, last |-> r, shown |-> FALSE, missed |-> FALSE]
  BY DEF Loading
<1> HIDE DEF sent, since
<1>4. load' \in [Loads -> Load] /\ load'[r] = sent
      /\ \A x \in Loads \ {r} : load'[x] = L[x]
  BY <1>1, <1>3
<1>5. asked' \in Asked /\ asked'.since = since /\ asked'.last = r
  BY <1>2, <1>3 DEF Asked
<1>6. LoadsInOrder(load', since)
  <2>1. \A x \in Loads \ {r} :
            /\ load'[x].list <= version /\ load'[x].bids <= version
            /\ load'[x].bids = 0 \/ (load'[x].at = "answered" /\ load'[x].list <= load'[x].bids)
            /\ load'[x].wanted /\ load'[x].at \in {"listed", "answered"} => since <= load'[x].list
    BY <1>2, <1>4 DEF LoadsInOrder
  <2>2. load'[r].list <= version /\ load'[r].bids <= version /\ load'[r].bids = 0
        /\ load'[r].at = "sent"
    BY <1>1, <1>4, ListFacts
  <2> QED
    BY <2>1, <2>2 DEF LoadsInOrder
<1>7. Renewing'
  BY <1>1, <1>4, <1>5 DEF Renewing
<1> QED
  BY <1>2, <1>4, <1>5, <1>6, <1>7

LEMMA LoadsOrdered == ListInv => LoadsInOrder(load, asked.since)
BY DEF ListInv, NothingAhead, BidsAfterList, SinceAsked, LoadsInOrder

\* A step that asks for the list and consumes at most one event.
LEMMA AskingStep ==
    ASSUME ListInv, NEW r \in Loads, NEW L \in [Loads -> Load],
           LoadsInOrder(L, asked.since), Loading(L, r),
           page' \in {"login", "auctions", "elsewhere"}, form' \in Form,
           shown' \in {Empty, shown},
           socket' \in [token : BOOLEAN, connected : BOOLEAN, news : 0 .. 2 * MaxVersion],
           socket'.news <= socket.news,
           UNCHANGED <<version, unannounced, listFaults>>
    PROVE  ListInv'
<1>1. /\ load' \in [Loads -> Load] /\ asked' \in Asked
      /\ LoadsInOrder(load', asked'.since) /\ asked'.since <= version
      /\ Renewing'
  BY LoadingAsks
<1>2. /\ shown' \in [list : Version, bids : Version]
      /\ shown'.list <= version /\ shown'.bids <= version
      /\ shown'.bids = 0 \/ shown'.list <= shown'.bids
  <2>1. Empty.list = 0 /\ Empty.bids = 0
    BY DEF Empty
  <2> QED
    BY <2>1, ListFacts, LoadType DEF ListInv, NothingAhead, BidsAfterList
<1>3. ListTypeOK'
  BY <1>1, <1>2 DEF ListInv, ListTypeOK
<1>4. EventsCounted'
  <2>1. socket'.news \in Nat
    BY ListAssumption
  <2> QED
    BY <2>1, ListFacts DEF ListInv, EventsCounted
<1>5. NothingAhead' /\ BidsAfterList' /\ SinceAsked'
  BY <1>1, <1>2 DEF NothingAhead, BidsAfterList, SinceAsked, LoadsInOrder
<1>6. CatchingUp'
  BY <1>1 DEF CatchingUp
<1> QED
  BY <1>3, <1>4, <1>5, <1>6 DEF ListInv

LEMMA AsksStep ==
    ASSUME ListInv, NEW r \in Loads,
           Mount(r) \/ AskAgain(r) \/ ReloadTab(r)
    PROVE  ListInv'
<1> USE DEF ListInv, ListTypeOK
<1>0. /\ load \in [Loads -> Load] /\ LoadsInOrder(load, asked.since)
      /\ page \in {"login", "auctions", "elsewhere"} /\ form \in Form
      /\ socket \in [token : BOOLEAN, connected : BOOLEAN, news : 0 .. 2 * MaxVersion]
      /\ socket.news <= socket.news
  BY ListFacts, LoadsOrdered
<1>1. CASE Mount(r)
  <2>1. page' = "auctions" /\ Loading(load, r)
        /\ UNCHANGED <<version, unannounced, socket, form, shown, listFaults>>
    BY <1>1 DEF Mount
  <2> QED
    BY <1>0, <2>1, AskingStep
<1>2. CASE AskAgain(r)
  <2>1. Loading(load, r)
        /\ UNCHANGED <<version, unannounced, page, socket, form, shown, listFaults>>
    BY <1>2 DEF AskAgain
  <2> QED
    BY <1>0, <2>1, AskingStep
<1>3. CASE ReloadTab(r)
  <2>1. socket' = [token |-> TRUE, connected |-> FALSE, news |-> 0]
    BY <1>3 DEF ReloadTab, Opened
  <2>2. LoadsInOrder(NoLoads, asked.since)
    BY ListFacts DEF NoLoads, NoLoad, LoadsInOrder
  <2>3. form' \in Form /\ shown' = Empty /\ page' = page
        /\ UNCHANGED <<version, unannounced, listFaults>> /\ Loading(NoLoads, r)
    BY <1>3 DEF ReloadTab, Form
  <2>4. /\ socket' \in [token : BOOLEAN, connected : BOOLEAN, news : 0 .. 2 * MaxVersion]
        /\ socket'.news <= socket.news
    BY <2>1, ListAssumption
  <2> QED
    BY <2>2, <2>3, <2>4, LoadType, AskingStep
<1> QED
  BY <1>1, <1>2, <1>3

\* Noticing that something is missed leaves the rest of the history.
LEMMA MissingFacts ==
    ASSUME asked \in Asked, Missing(TRUE)
    PROVE  asked' \in Asked /\ asked'.missed /\ asked'.since = asked.since
           /\ asked'.last = asked.last /\ asked'.shown = asked.shown
BY DEF Missing, Asked

\* A change in the database: either events are to come, or it is missed.
LEMMA CommitStep ==
    ASSUME ListInv, NEW n \in 0 .. 2, Commit(n),
           form' \in Form, listFaults' \in 0 .. MaxListFaults,
           IF n = 0 THEN Missing(TRUE) ELSE asked' = asked,
           UNCHANGED <<page, socket, load, shown>>
    PROVE  ListInv'
<1>1. /\ version \in Nat /\ version < MaxVersion /\ version' = version + 1
      /\ unannounced \in Nat /\ unannounced' = unannounced + n
      /\ socket.news \in Nat
  BY ListFacts DEF Commit
<1>2. asked' \in Asked /\ asked'.since = asked.since /\ (n = 0 => asked'.missed)
  BY ListFacts, MissingFacts
<1>3. EventsCounted'
  BY <1>1 DEF ListInv, EventsCounted
<1>4. ListTypeOK'
  <2>1. version' \in Version
    BY <1>1, ListAssumption DEF Version
  <2>2. unannounced' \in 0 .. 2 * MaxVersion
    BY <1>1, ListAssumption DEF ListInv, EventsCounted
  <2> QED
    BY <1>2, <2>1, <2>2 DEF ListInv, ListTypeOK
<1>5. NothingAhead' /\ BidsAfterList' /\ SinceAsked'
  BY <1>1, <1>2, ListFacts DEF ListInv, NothingAhead, BidsAfterList, SinceAsked
<1>6. CatchingUp'
  BY <1>1, <1>2 DEF CatchingUp
<1> QED
  BY <1>3, <1>4, <1>5, <1>6 DEF ListInv

LEMMA ChangesStep ==
    ASSUME ListInv, Change \/ SilentChange
    PROVE  ListInv'
<1>1. form' \in Form /\ listFaults' \in 0 .. MaxListFaults
      /\ UNCHANGED <<page, socket, load, shown>>
  BY DEF Change, SilentChange, ListInv, ListTypeOK
<1>2. CASE Change
  <2>1. (Commit(1) \/ Commit(2)) /\ asked' = asked
    BY <1>2 DEF Change, CreateAuction, StartAuction, PlaceBid, CloseRound, FinalizeAuction
  <2> QED
    BY <1>1, <2>1, CommitStep
<1>3. CASE SilentChange
  <2>1. Commit(0) /\ Missing(TRUE)
    BY <1>3 DEF SilentChange, AdvanceRound, SimulateBid, AddGiftToInventory
  <2> QED
    BY <1>1, <2>1, CommitStep
<1> QED
  BY <1>2, <1>3

\* Steps that leave the database and the loads as they are.
LEMMA EventsStep ==
    ASSUME ListInv,
           UNCHANGED <<version, load, shown>>,
           page' \in {"login", "auctions", "elsewhere"}, form' \in Form,
           listFaults' \in 0 .. MaxListFaults,
           socket' \in [token : BOOLEAN, connected : BOOLEAN, news : 0 .. 2 * MaxVersion],
           unannounced' \in Nat,
           unannounced' + socket'.news <= unannounced + socket.news,
           asked' \in Asked, asked'.since = asked.since, CatchingUp'
    PROVE  ListInv'
<1>1. unannounced \in Nat /\ socket.news \in Nat /\ socket'.news \in Nat
  BY ListAssumption, ListFacts
<1>2. EventsCounted'
  BY <1>1, ListFacts DEF ListInv, EventsCounted
<1>3. ListTypeOK'
  <2>1. unannounced' \in 0 .. 2 * MaxVersion
    BY <1>1, ListAssumption, ListFacts DEF ListInv, EventsCounted
  <2> QED
    BY <2>1 DEF ListInv, ListTypeOK
<1>4. NothingAhead' /\ BidsAfterList' /\ SinceAsked'
  BY DEF ListInv, NothingAhead, BidsAfterList, SinceAsked
<1> QED
  BY <1>2, <1>3, <1>4 DEF ListInv

\* Nothing is missed: an event may have gone from the server to its way.
LEMMA EventStep ==
    ASSUME ListInv,
           UNCHANGED <<version, load, shown, asked>>,
           page' \in {"login", "auctions", "elsewhere"}, form' \in Form,
           listFaults' \in 0 .. MaxListFaults,
           socket' \in [token : BOOLEAN, connected : BOOLEAN, news : 0 .. 2 * MaxVersion],
           unannounced' \in Nat,
           unannounced' + socket'.news <= unannounced + socket.news,
           page' = "auctions" =>
              /\ page = "auctions"
              /\ unannounced' + socket'.news = unannounced + socket.news
    PROVE  ListInv'
<1>1. unannounced \in Nat /\ socket.news \in Nat /\ socket'.news \in Nat
  BY ListAssumption, ListFacts
<1>2. asked' \in Asked /\ asked'.since = asked.since
  BY ListFacts
<1>3. CatchingUp'
  BY <1>1 DEF ListInv, CatchingUp, Renewing, Renewed
<1> QED
  BY <1>2, <1>3, EventsStep

\* Something is missed.
LEMMA MissedStep ==
    ASSUME ListInv, Missing(TRUE),
           UNCHANGED <<version, page, load, form, shown>>,
           listFaults' \in 0 .. MaxListFaults,
           socket' \in [token : BOOLEAN, connected : BOOLEAN, news : 0 .. 2 * MaxVersion],
           unannounced' \in Nat,
           unannounced' + socket'.news <= unannounced + socket.news
    PROVE  ListInv'
<1>1. asked' \in Asked /\ asked'.since = asked.since /\ asked'.missed
  BY ListFacts, MissingFacts
<1>2. CatchingUp'
  BY <1>1 DEF CatchingUp
<1>3. page' \in {"login", "auctions", "elsewhere"} /\ form' \in Form
  BY DEF ListInv, ListTypeOK
<1> QED
  BY <1>1, <1>2, <1>3, EventsStep

LEMMA ServerStep ==
    ASSUME ListInv, Emit \/ Connect \/ Disconnect \/ TokenExpires \/ SubmitForm
    PROVE  ListInv'
<1> DEFINE Socket == [token : BOOLEAN, connected : BOOLEAN, news : 0 .. 2 * MaxVersion]
<1> USE DEF ListInv, ListTypeOK
<1>1. unannounced \in Nat /\ socket.news \in Nat
  BY ListAssumption
<1>2. CASE Emit
  <2>1. /\ unannounced' = unannounced - 1 /\ unannounced > 0
        /\ UNCHANGED <<version, page, load, form, shown>>
        /\ UNCHANGED listFaults \/ Fail
    BY <1>2 DEF Emit
  <2>2. listFaults' \in 0 .. MaxListFaults
    BY <2>1, ListAssumption DEF Fail
  <2>3. CASE socket' = [socket EXCEPT !.news = @ + 1] /\ UNCHANGED asked
    <3>1. socket.news + 1 \in 0 .. 2 * MaxVersion
      BY <1>1, <2>1, ListAssumption DEF EventsCounted, Version
    <3>2. socket' \in Socket /\ socket'.news = socket.news + 1
      BY <2>3, <3>1
    <3> QED
      BY <1>1, <2>1, <2>3, <2>2, <3>2, EventStep
  <2>4. CASE Missing(TRUE) /\ UNCHANGED socket
    BY <1>1, <2>1, <2>4, <2>2, MissedStep
  <2> QED
    BY <1>2, <2>3, <2>4 DEF Emit
<1>3. CASE Connect
  <2>1. socket' \in Socket /\ socket'.news = socket.news
    BY <1>3 DEF Connect
  <2> QED
    BY <1>1, <1>3, <2>1, EventStep DEF Connect
<1>4. CASE Disconnect
  <2>1. socket' = [token |-> socket.token, connected |-> FALSE, news |-> 0]
    BY <1>4 DEF Disconnect, Opened
  <2>2. socket' \in Socket /\ socket'.news = 0
    BY <2>1, ListAssumption
  <2>3. /\ Missing(socket.news > 0)
        /\ UNCHANGED <<version, unannounced, page, load, form, shown>>
        /\ listFaults' \in 0 .. MaxListFaults
    BY <1>4, ListAssumption DEF Disconnect, Fail
  <2>4. CASE socket.news > 0
    <3>1. Missing(TRUE)
      BY <2>3, <2>4 DEF Missing
    <3> QED
      BY <1>1, <2>2, <2>3, <3>1, MissedStep
  <2>5. CASE ~ (socket.news > 0)
    <3>1. asked' = asked
      BY <2>3, <2>5 DEF Missing, Asked
    <3> QED
      BY <1>1, <2>2, <2>3, <2>5, <3>1, EventStep
  <2> QED
    BY <2>4, <2>5
<1>5. CASE TokenExpires
  <2>1. socket' \in Socket /\ socket'.news = socket.news
    BY <1>5 DEF TokenExpires
  <2>2. listFaults' \in 0 .. MaxListFaults
        /\ UNCHANGED <<version, unannounced, page, load, form, shown, asked>>
    BY <1>5, ListAssumption DEF TokenExpires, Fail
  <2> QED
    BY <1>1, <2>1, <2>2, EventStep
<1>6. CASE SubmitForm
  <2>1. form' \in Form
        /\ UNCHANGED <<version, unannounced, page, socket, load, shown, asked, listFaults>>
    BY <1>6 DEF SubmitForm, Form
  <2> QED
    BY <1>1, <2>1, EventStep
<1> QED
  BY <1>2, <1>3, <1>4, <1>5, <1>6

LEMMA HandleStep ==
    ASSUME ListInv, NEW r \in Loads, HandleEvent(r) \/ FormAnswered(r)
    PROVE  ListInv'
<1> DEFINE Socket == [token : BOOLEAN, connected : BOOLEAN, news : 0 .. 2 * MaxVersion]
<1>1. /\ unannounced \in Nat /\ socket.news \in Nat /\ socket \in Socket
      /\ load \in [Loads -> Load] /\ LoadsInOrder(load, asked.since)
      /\ page \in {"login", "auctions", "elsewhere"} /\ form \in Form
      /\ listFaults \in 0 .. MaxListFaults
  BY ListAssumption, LoadsOrdered DEF ListInv, ListTypeOK
<1>2. CASE HandleEvent(r)
  <2>1. /\ socket.news > 0 /\ socket' = [socket EXCEPT !.news = @ - 1]
        /\ UNCHANGED <<version, unannounced, page, form, shown, listFaults>>
    BY <1>2 DEF HandleEvent
  <2>2. socket' \in Socket /\ socket'.news = socket.news - 1
    BY <1>1, <2>1, ListAssumption
  <2>3. CASE page = "auctions"
    <3>1. Loading(load, r)
      BY <1>2, <2>3 DEF HandleEvent
    <3>2. /\ page' \in {"login", "auctions", "elsewhere"} /\ form' \in Form
          /\ shown' \in {Empty, shown} /\ socket'.news <= socket.news
      BY <1>1, <2>1, <2>2
    <3> QED
      BY <1>1, <2>1, <2>2, <3>1, <3>2, AskingStep
  <2>4. CASE page # "auctions"
    <3>1. UNCHANGED <<load, asked>>
      BY <1>2, <2>4 DEF HandleEvent
    <3> QED
      BY <1>1, <2>1, <2>2, <2>4, <3>1, EventStep
  <2> QED
    BY <2>3, <2>4
<1>3. CASE FormAnswered(r)
  <2>1. /\ form' \in Form
        /\ UNCHANGED <<version, unannounced, page, socket, shown, listFaults>>
    BY <1>3 DEF FormAnswered, Form
  <2>2. CASE form = "created"
    <3>1. Loading(load, r)
      BY <1>3, <2>2 DEF FormAnswered
    <3>2. socket.news <= socket.news /\ shown' \in {Empty, shown}
      BY <1>1, <2>1
    <3> QED
      BY <1>1, <2>1, <3>1, <3>2, AskingStep
  <2>3. CASE form # "created"
    <3>1. UNCHANGED <<load, asked>>
      BY <1>3, <2>3 DEF FormAnswered
    <3> QED
      BY <1>1, <2>1, <3>1, EventStep
  <2> QED
    BY <2>2, <2>3
<1> QED
  BY <1>2, <1>3

LEMMA AnswerFormStep ==
    ASSUME ListInv, AnswerForm
    PROVE  ListInv'
<1>1. /\ form' \in Form
      /\ UNCHANGED <<page, socket, load, shown, asked>>
  BY DEF AnswerForm, Form
<1>2. unannounced \in Nat /\ socket.news \in Nat
  BY ListFacts
<1>3. CASE Commit(1) /\ UNCHANGED listFaults
  <2>1. listFaults' \in 0 .. MaxListFaults /\ 1 \in 0 .. 2 /\ 1 # 0
    BY <1>3 DEF ListInv, ListTypeOK
  <2> QED
    BY <1>1, <1>3, <2>1, CommitStep
<1>4. CASE Fail /\ UNCHANGED <<version, unannounced>>
  <2>1. listFaults' \in 0 .. MaxListFaults
    BY <1>4, ListAssumption DEF Fail, ListInv, ListTypeOK
  <2> QED
    BY <1>1, <1>2, <1>4, <2>1, EventStep DEF ListInv, ListTypeOK
<1> QED
  BY <1>3, <1>4 DEF AnswerForm, CreateAuction

\* Another page: nothing is said of the list until it is mounted again.
LEMMA LeaveStep ==
    ASSUME ListInv, Unmount \/ Reopen
    PROVE  ListInv'
<1>1. /\ page' \in {"login", "elsewhere"} /\ form' = "none"
      /\ shown' = Empty /\ asked' = NeverAsked
      /\ UNCHANGED <<version, unannounced, listFaults>>
  BY DEF Unmount, Reopen
<1>2. /\ version \in Nat /\ unannounced \in Nat /\ socket.news \in Nat
  BY ListFacts
<1>3. load' \in [Loads -> Load] /\ LoadsInOrder(load', 0)
  <2>1. CASE Unmount
    <3>1. load' = [r \in Loads |-> [load[r] EXCEPT !.wanted = FALSE]]
      BY <2>1 DEF Unmount, Unwanted
    <3>2. load \in [Loads -> Load] /\ LoadsInOrder(load, asked.since)
      BY ListFacts, LoadsOrdered
    <3>3. \A r \in Loads :
             /\ load'[r] \in Load /\ ~ load'[r].wanted /\ load'[r].at = load[r].at
             /\ load'[r].list = load[r].list /\ load'[r].bids = load[r].bids
      BY <3>1, <3>2 DEF Load
    <3>4. load' \in [Loads -> Load]
      BY <3>1, <3>3
    <3> QED
      BY <3>2, <3>3, <3>4 DEF LoadsInOrder
  <2>2. CASE Reopen
    <3>1. load' = NoLoads
      BY <2>2 DEF Reopen
    <3> QED
      BY <1>2, <3>1, LoadType DEF NoLoads, NoLoad, LoadsInOrder
  <2> QED
    BY <2>1, <2>2
<1>4. /\ socket' \in [token : BOOLEAN, connected : BOOLEAN, news : 0 .. 2 * MaxVersion]
      /\ socket'.news \in Nat /\ socket'.news <= socket.news
  <2>1. CASE Unmount
    BY <1>2, <2>1 DEF Unmount, ListInv, ListTypeOK
  <2>2. CASE Reopen
    <3>1. socket' = [token |-> page' = "elsewhere", connected |-> FALSE, news |-> 0]
      BY <2>2 DEF Reopen, Opened
    <3>2. (page' = "elsewhere") \in BOOLEAN
      OBVIOUS
    <3>3. 0 \in 0 .. 2 * MaxVersion
      BY ListAssumption
    <3>4. socket' \in [token : BOOLEAN, connected : BOOLEAN, news : 0 .. 2 * MaxVersion]
      BY <3>1, <3>2, <3>3, Zenon
    <3> QED
      BY <1>2, <3>1, <3>4
  <2> QED
    BY <2>1, <2>2
<1>5. ListTypeOK'
  BY <1>1, <1>3, <1>4, LoadType DEF ListInv, ListTypeOK, Form
<1>6. EventsCounted'
  BY <1>1, <1>2, <1>4 DEF ListInv, EventsCounted
<1>7. NothingAhead' /\ BidsAfterList' /\ SinceAsked'
  <2>1. /\ shown'.list = 0 /\ shown'.bids = 0 /\ asked'.since = 0 /\ version' = version
    BY <1>1 DEF Empty, NeverAsked
  <2> QED
    BY <1>2, <1>3, <2>1 DEF NothingAhead, BidsAfterList, SinceAsked, LoadsInOrder
<1>8. CatchingUp'
  BY <1>1 DEF CatchingUp
<1> QED
  BY <1>5, <1>6, <1>7, <1>8 DEF ListInv

\* The answers a load waits for.
LEMMA ReadStep ==
    ASSUME ListInv, NEW r \in Loads, AnswerList(r) \/ AnswerBids(r)
    PROVE  ListInv'
<1>1. /\ UNCHANGED <<version, unannounced, page, socket, form, shown, asked>>
      /\ listFaults' \in 0 .. MaxListFaults
  BY ListAssumption DEF AnswerList, AnswerBids, Fail, ListInv, ListTypeOK
<1>2. load[r] \in Load /\ load \in [Loads -> Load] /\ LoadsInOrder(load, asked.since)
  BY ListFacts, LoadsOrdered
<1>3. ASSUME NEW l \in Load, load' = [load EXCEPT ![r] = l], l.wanted = load[r].wanted,
             l.list <= version, l.bids <= version,
             l.bids = 0 \/ (l.at = "answered" /\ l.list <= l.bids),
             l.at \in {"listed", "answered"},
             l.list = version \/ (load[r].at # "sent" /\ l.list = load[r].list),
             l.wanted => asked.since <= l.list, load[r].at \in {"sent", "listed"}
      PROVE  ListInv'
  <2>1. load' \in [Loads -> Load] /\ load'[r] = l
        /\ \A x \in Loads \ {r} : load'[x] = load[x]
    BY <1>2, <1>3
  <2>2. ListTypeOK' /\ EventsCounted'
    BY <1>1, <2>1 DEF ListInv, ListTypeOK, EventsCounted
  <2>3. NothingAhead' /\ BidsAfterList' /\ SinceAsked'
    BY <1>1, <1>3, <2>1 DEF ListInv, NothingAhead, BidsAfterList, SinceAsked
  <2>4. CatchingUp'
    BY <1>1, <1>3, <2>1, ListFacts DEF ListInv, CatchingUp, Renewing, Renewed
  <2> QED
    BY <2>2, <2>3, <2>4 DEF ListInv
<1>4. asked.since <= version /\ load[r].list <= version /\ load[r].bids <= version
      /\ version \in Nat /\ version \in Version /\ version <= version
  BY <1>2, ListFacts DEF LoadsInOrder, ListInv, NothingAhead
<1>5. CASE AnswerList(r)
  <2> DEFINE l == [load[r] EXCEPT !.at = "listed", !.list = version]
  <2>1. load[r].at = "sent" /\ load' = [load EXCEPT ![r] = l]
    BY <1>2, <1>5 DEF AnswerList, Load
  <2>2. l \in Load /\ l.list = version /\ l.bids = load[r].bids /\ l.at = "listed"
        /\ l.wanted = load[r].wanted
    BY <1>2, <1>4 DEF Load
  <2> HIDE DEF l
  <2>3. load[r].bids = 0
    BY <1>2, <2>1 DEF LoadsInOrder
  <2> QED
    BY <1>3, <1>4, <2>1, <2>2, <2>3
<1>6. CASE AnswerBids(r)
  <2>1. load[r].at = "listed"
    BY <1>6 DEF AnswerBids
  <2>2. load[r].bids = 0 /\ (load[r].wanted => asked.since <= load[r].list)
    BY <1>2, <2>1 DEF LoadsInOrder
  <2>3. CASE load' = [load EXCEPT ![r].at = "answered", ![r].bids = version]
    <3> DEFINE l == [load[r] EXCEPT !.at = "answered", !.bids = version]
    <3>1. load' = [load EXCEPT ![r] = l]
      BY <1>2, <2>3 DEF Load
    <3>2. l \in Load /\ l.list = load[r].list /\ l.bids = version /\ l.at = "answered"
          /\ l.wanted = load[r].wanted
      BY <1>2, <1>4 DEF Load
    <3> HIDE DEF l
    <3> QED
      BY <1>3, <1>4, <2>1, <2>2, <3>1, <3>2
  <2>4. CASE load' = [load EXCEPT ![r].at = "answered"]
    <3> DEFINE l == [load[r] EXCEPT !.at = "answered"]
    <3>1. load' = [load EXCEPT ![r] = l]
      BY <1>2, <2>4 DEF Load
    <3>2. l \in Load /\ l.list = load[r].list /\ l.bids = load[r].bids /\ l.at = "answered"
          /\ l.wanted = load[r].wanted
      BY <1>2 DEF Load
    <3> HIDE DEF l
    <3> QED
      BY <1>3, <1>4, <2>1, <2>2, <3>1, <3>2
  <2> QED
    BY <1>6, <2>3, <2>4 DEF AnswerBids
<1> QED
  BY <1>5, <1>6

\* The end of a load: it is shown, or fails.
LEMMA EndStep ==
    ASSUME ListInv, NEW r \in Loads, ShowList(r) \/ LoadFails(r)
    PROVE  ListInv'
<1>1. /\ UNCHANGED <<version, unannounced, page, socket, form>>
      /\ listFaults' \in 0 .. MaxListFaults
      /\ load' = [load EXCEPT ![r] = NoLoad]
  BY ListAssumption DEF ShowList, LoadFails, Fail, ListInv, ListTypeOK
<1>2. load[r] \in Load /\ load \in [Loads -> Load] /\ LoadsInOrder(load, asked.since)
      /\ asked \in Asked
  BY ListFacts, LoadsOrdered
<1>3. /\ load' \in [Loads -> Load] /\ load'[r] = NoLoad
      /\ \A x \in Loads \ {r} : load'[x] = load[x]
      /\ NoLoad.at = "idle" /\ ~ NoLoad.wanted /\ NoLoad.list = 0 /\ NoLoad.bids = 0
  BY <1>1, <1>2, LoadType DEF NoLoad
<1>4. /\ shown' \in [list : Version, bids : Version]
      /\ shown'.list <= version /\ shown'.bids <= version
      /\ shown'.bids = 0 \/ shown'.list <= shown'.bids
      /\ asked' \in Asked /\ asked'.since = asked.since /\ asked'.last = asked.last
  <2>1. CASE ShowList(r) /\ load[r].wanted
    <3>1. /\ shown' = [list |-> load[r].list, bids |-> load[r].bids]
          /\ asked' = [asked EXCEPT !.shown = (r = asked.last)]
      BY <2>1 DEF ShowList
    <3>2. asked' \in Asked /\ asked'.since = asked.since /\ asked'.last = asked.last
      <4>1. (r = asked.last) \in BOOLEAN
        OBVIOUS
      <4> QED
        BY <1>2, <3>1, <4>1, Zenon DEF Asked
    <3> QED
      BY <1>2, <3>1, <3>2 DEF Load, LoadsInOrder
  <2>2. CASE ShowList(r) /\ ~ load[r].wanted
    <3>1. shown' = shown /\ asked' = asked
      BY <2>2 DEF ShowList
    <3> QED
      BY <1>2, <3>1, ListFacts DEF ListInv, NothingAhead, BidsAfterList
  <2>3. CASE LoadFails(r)
    <3>1. shown' = shown /\ Missing(load[r].wanted) /\ load[r].wanted \in BOOLEAN
      BY <1>2, <2>3 DEF LoadFails, Load
    <3>2. asked' \in Asked /\ asked'.since = asked.since /\ asked'.last = asked.last
      BY <1>2, <3>1 DEF Missing, Asked
    <3> QED
      BY <1>2, <3>1, <3>2, ListFacts DEF ListInv, NothingAhead, BidsAfterList
  <2> QED
    BY <2>1, <2>2, <2>3
<1>5. ListTypeOK' /\ EventsCounted'
  BY <1>1, <1>3, <1>4 DEF ListInv, ListTypeOK, EventsCounted
<1>6. NothingAhead' /\ BidsAfterList' /\ SinceAsked'
  BY <1>1, <1>3, <1>4, ListFacts DEF ListInv, NothingAhead, BidsAfterList, SinceAsked
<1>7. CatchingUp'
  <2> SUFFICES ASSUME page = "auctions", ~ asked'.missed, unannounced = 0, socket.news = 0
               PROVE  Renewing' \/ Renewed'
    BY <1>1 DEF CatchingUp
  <2>1. CASE ShowList(r) /\ load[r].wanted
    <3>1. /\ shown'.list = load[r].list /\ load[r].at = "answered"
          /\ asked' = [asked EXCEPT !.shown = (r = asked.last)]
      BY <2>1 DEF ShowList
    <3>2. asked'.missed = asked.missed /\ (asked'.shown <=> r = asked.last)
      BY <1>2, <3>1, Zenon DEF Asked
    <3>3. Renewing \/ Renewed
      BY <3>2 DEF ListInv, CatchingUp
    <3>4. asked.since <= load[r].list
      BY <1>2, <2>1, <3>1 DEF LoadsInOrder
    <3>5. CASE r = asked.last
      BY <1>1, <1>3, <1>4, <2>1, <3>1, <3>3, <3>4, <3>5 DEF Renewing, Renewed
    <3>6. CASE r # asked.last
      BY <1>1, <1>3, <1>4, <3>1, <3>2, <3>3, <3>4, <3>6, ListFacts DEF Renewing, Renewed
    <3> QED
      BY <3>5, <3>6
  <2>2. CASE (ShowList(r) \/ LoadFails(r)) /\ ~ load[r].wanted
    <3>1. shown' = shown /\ asked' = asked
      <4>1. CASE ShowList(r)
        BY <2>2, <4>1 DEF ShowList
      <4>2. CASE LoadFails(r)
        BY <1>2, <2>2, <4>2 DEF LoadFails, Missing, Asked
      <4> QED
        BY <2>2, <4>1, <4>2
    <3>2. Renewing \/ Renewed
      BY <3>1 DEF ListInv, CatchingUp
    <3> QED
      BY <1>1, <1>3, <2>2, <3>1, <3>2, ListFacts DEF Renewing, Renewed
  <2>3. CASE LoadFails(r) /\ load[r].wanted
    <3>1. Missing(TRUE)
      BY <2>3 DEF LoadFails, Missing
    <3> QED
      BY <1>2, <3>1, MissingFacts
  <2> QED
    BY <2>1, <2>2, <2>3
<1> QED
  BY <1>5, <1>6, <1>7 DEF ListInv

LEMMA ListNextInv == ListInv /\ [ListNext]_listVars => ListInv'
<1> SUFFICES ASSUME ListInv, [ListNext]_listVars PROVE ListInv'
  OBVIOUS
<1>1. CASE UNCHANGED listVars
  BY <1>1 DEF listVars, ListInv, ListTypeOK, EventsCounted, NothingAhead, BidsAfterList,
     SinceAsked, CatchingUp, Renewing, Renewed
<1>2. CASE ListNext
  BY <1>2, ChangesStep, ServerStep, AnswerFormStep, LeaveStep, AsksStep, HandleStep,
     ReadStep, EndStep DEF ListNext
<1> QED
  BY <1>1, <1>2

(* However loads overlap and overtake one another, bids fail to be read    *)
(* and events are lost or come late: once no load and no event is to come  *)
(* and the page has missed nothing since it last asked, what it shows is   *)
(* as new as its overlapping loads, the present list if the last of them   *)
(* was answered last, with bids as new or none (loadAuctions,              *)
(* WebSocketWrapper).                                                      *)
THEOREM ListCatchesUp == ListSpec => []ListCurrent
<1>1. ListInv => ListCurrent
  <2> SUFFICES ASSUME ListInv, Settled PROVE ListCurrent
    BY DEF ListCurrent
  <2>1. Renewed
    BY ListFacts DEF ListInv, Settled, CatchingUp, Renewing
  <2> QED
    BY <2>1, ListFacts DEF ListInv, Renewed, BidsAfterList, ListCurrent
<1> QED
  BY <1>1, ListInitInv, ListNextInv, PTL DEF ListSpec

(* The events under way stay within two for each change of the database,   *)
(* and the loads, the form and the list on the page keep their shape.      *)
THEOREM ListTypeCorrect == ListSpec => []ListTypeOK
<1>1. ListInv => ListTypeOK
  BY DEF ListInv
<1> QED
  BY <1>1, ListInitInv, ListNextInv, PTL DEF ListSpec
=============================================================================
