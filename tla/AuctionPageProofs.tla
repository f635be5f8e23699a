-------------------------- MODULE AuctionPageProofs --------------------------
(***************************************************************************)
(* A dashboard never shows bids older than its round, for any number of    *)
(* overlapping requests.  Inductive once it is said of every request too,  *)
(* and nothing read or cached is of the future (InFlight).                 *)
(***************************************************************************)
EXTENDS AuctionPage, SequenceTheorems, TLAPS

Past(data) == \A i \in DOMAIN data : data[i] <= version

InFlight ==
    /\ Past(cache)
    /\ \A r \in Requests :
        /\ InOrder(request[r].data) /\ Past(request[r].data)
        /\ request[r].at = "idle" => request[r] = Idle

IInv == TypeOK /\ InFlight /\ BidsNotOlder

(* What has been read so far is a sequence, and nothing is one, too.       *)
LEMMA HalfReadSeq ==
    /\ NoData \in HalfRead /\ InOrder(NoData) /\ DOMAIN NoData = {}
    /\ Dashboard \subseteq HalfRead
    /\ \A data \in HalfRead :
          /\ data \in Seq(1..MaxVersion)
          /\ Len(data) \in 0..Queries /\ DOMAIN data = 1..Len(data)
          /\ \A i \in DOMAIN data : data[i] \in 1..MaxVersion
          /\ Len(data) = Queries => data \in Dashboard
<1>1. NoData \in [1..0 -> 1..MaxVersion] /\ DOMAIN NoData = {}
  BY DEF NoData
<1>2. NoData \in HalfRead /\ InOrder(NoData)
  BY <1>1 DEF HalfRead, InOrder, Queries
<1>3. Dashboard \subseteq HalfRead
  BY DEF Dashboard, HalfRead, Queries
<1>4. ASSUME NEW data \in HalfRead
      PROVE  /\ data \in Seq(1..MaxVersion)
             /\ Len(data) \in 0..Queries /\ DOMAIN data = 1..Len(data)
             /\ \A i \in DOMAIN data : data[i] \in 1..MaxVersion
             /\ Len(data) = Queries => data \in Dashboard
  <2>1. PICK n \in 0..Queries : data \in [1..n -> 1..MaxVersion]
    BY DEF HalfRead
  <2>2. data \in Seq(1..MaxVersion)
    <3>1. n \in Nat
      BY DEF Queries
    <3>2. data \in UNION {[1..k -> 1..MaxVersion] : k \in Nat}
      BY <2>1, <3>1
    <3> QED
      BY <3>2, SeqDef
  <2>3. Len(data) = n
    BY <2>1, <2>2, LenProperties DEF Queries
  <2> QED
    BY <2>1, <2>2, <2>3 DEF Dashboard
<1> QED
  BY <1>1, <1>2, <1>3, <1>4

(* One more query answered by the present keeps the order.                 *)
LEMMA AppendOrdered ==
    ASSUME NEW data \in HalfRead, Len(data) < Queries, InOrder(data),
           NEW v \in 1..MaxVersion, \A i \in DOMAIN data : data[i] <= v
    PROVE  /\ Append(data, v) \in HalfRead /\ InOrder(Append(data, v))
           /\ \A i \in DOMAIN Append(data, v) : Append(data, v)[i] <= v
<1> DEFINE n == Len(data)
           more == Append(data, v)
<1>1. data \in Seq(1..MaxVersion) /\ n \in 0..Queries /\ DOMAIN data = 1..n
  BY HalfReadSeq
<1>2. /\ more \in [1..(n + 1) -> 1..MaxVersion]
      /\ more[n + 1] = v /\ \A i \in 1..n : more[i] = data[i]
  <2>1. more \in Seq(1..MaxVersion) /\ Len(more) = n + 1
    BY <1>1, AppendProperties
  <2>2. more \in [1..(n + 1) -> 1..MaxVersion]
    BY <2>1, LenProperties, ElementOfSeq
  <2> QED
    BY <1>1, <2>2, AppendProperties
<1>3. n + 1 \in 0..Queries
  BY <1>1 DEF Queries
<1>4. more \in HalfRead
  BY <1>2, <1>3 DEF HalfRead
<1>5. \A i \in 1..(n + 1) : more[i] <= v
  <2> TAKE i \in 1..(n + 1)
  <2>1. CASE i = n + 1
    BY <1>2, <2>1 DEF Queries
  <2>2. CASE i \in 1..n
    BY <1>1, <1>2, <2>2
  <2> QED
    BY <1>1, <2>1, <2>2 DEF Queries
<1>6. InOrder(more)
  <2> SUFFICES ASSUME NEW i \in 1..(n + 1), NEW j \in 1..(n + 1), i < j
               PROVE  more[i] <= more[j]
    BY <1>2 DEF InOrder
  <2>1. CASE j = n + 1
    BY <1>2, <1>5, <2>1
  <2>2. CASE j \in 1..n
    <3>1. i \in 1..n
      BY <1>1, <2>2 DEF Queries
    <3> QED
      BY <1>1, <1>2, <2>2, <3>1 DEF InOrder
  <2> QED
    BY <1>1, <2>1, <2>2 DEF Queries
<1> QED
  BY <1>2, <1>4, <1>5, <1>6

LEMMA InitSafe == Init => IInv
BY PageAssumption, HalfReadSeq
DEF Init, IInv, TypeOK, InFlight, Past, BidsNotOlder, Request, Idle

LEMMA NextSafe == IInv /\ [Next]_vars => IInv'
<1> SUFFICES ASSUME IInv, [Next]_vars
             PROVE  IInv'
  OBVIOUS
<1> USE PageAssumption DEF IInv, TypeOK, InFlight, BidsNotOlder
<1>n. /\ NoData \in HalfRead /\ InOrder(NoData) /\ DOMAIN NoData = {}
      /\ Dashboard \subseteq HalfRead
      /\ \A data \in HalfRead : Len(data) = Queries => data \in Dashboard
  BY HalfReadSeq
<1>a. ASSUME NEW data \in HalfRead, Past(data), Change
      PROVE  \A i \in DOMAIN data : data[i] <= version'
  <2>1. version' = version + 1
    BY <1>a DEF Change
  <2>2. ASSUME NEW i \in DOMAIN data
        PROVE  data[i] \in 1..MaxVersion
    BY HalfReadSeq
  <2> QED
    BY <1>a, <2>1, <2>2 DEF Past
<1>1. CASE Change
  <2>1. version' \in 1..MaxVersion /\ UNCHANGED <<cache, request, visible, page, faults>>
    BY <1>1 DEF Change
  <2>2. cache \in HalfRead /\ \A r \in Requests : request[r].data \in HalfRead
    BY <1>n DEF Request
  <2>3. Past(cache)'
    <3>1. \A i \in DOMAIN cache : cache[i] <= version'
      BY <1>1, <1>a, <2>2
    <3> QED
      BY <2>1, <3>1 DEF Past
  <2>4. ASSUME NEW r \in Requests
        PROVE  Past(request[r].data)'
    <3>1. \A i \in DOMAIN request[r].data : request[r].data[i] <= version'
      BY <1>1, <1>a, <2>2
    <3> QED
      BY <2>1, <3>1 DEF Past
  <2> QED
    BY <2>1, <2>3, <2>4
<1>2. CASE Expire
  BY <1>n, <1>2 DEF Expire, Past
<1>3. CASE ChangeVisibility
  BY <1>3 DEF ChangeVisibility, Past
<1>4. ASSUME NEW r \in Requests, LoadDashboard(r)
      PROVE  IInv'
  BY <1>4 DEF LoadDashboard, Request, Past
<1>5. ASSUME NEW r \in Requests, ReadCache(r)
      PROVE  IInv'
  BY <1>n, <1>5 DEF ReadCache, Request, Past
<1>6. ASSUME NEW r \in Requests, ReadAuction(r)
      PROVE  IInv'
  <2> DEFINE data == request[r].data
  <2>1. data \in HalfRead /\ Len(data) < Queries /\ request[r].at = "reading"
    BY <1>6 DEF ReadAuction, Request
  <2>2. /\ Append(data, version) \in HalfRead /\ InOrder(Append(data, version))
        /\ \A i \in DOMAIN Append(data, version) : Append(data, version)[i] <= version
    BY <2>1, AppendOrdered DEF Past
  <2>3. request' = [request EXCEPT ![r].data = Append(data, version)]
    BY <1>6 DEF ReadAuction
  <2>4. UNCHANGED <<version, cache, visible, page, faults>>
    BY <1>6 DEF ReadAuction
  <2> HIDE DEF data
  <2> QED
    BY <2>1, <2>2, <2>3, <2>4 DEF Request, Past
<1>7. ASSUME NEW r \in Requests, StoreDashboard(r)
      PROVE  IInv'
  BY <1>n, <1>7 DEF StoreDashboard, Request, Past
<1>8. ASSUME NEW r \in Requests, ShowDashboard(r)
      PROVE  IInv'
  BY <1>n, <1>8 DEF ShowDashboard, Request, Idle, Past
<1>9. ASSUME NEW r \in Requests, RequestFails(r)
      PROVE  IInv'
  <2>1. /\ UNCHANGED <<version, cache, visible>> /\ page' = NoData
        /\ faults' \in 0..MaxFaults
    BY <1>9 DEF RequestFails
  <2>2. CASE request' = [request EXCEPT ![r] = Idle]
    <3>1. Idle \in Request /\ Idle.data = NoData /\ Past(NoData)
      BY <1>n DEF Idle, Request, Past
    <3>2. request' \in [Requests -> Request] /\ TypeOK'
      BY <2>1, <2>2, <3>1 DEF Idle
    <3>3. InFlight'
      BY <1>n, <2>1, <2>2, <3>1 DEF Past, Idle
    <3> QED
      BY <1>n, <2>1, <3>2, <3>3
  <2>3. CASE request' = [request EXCEPT ![r].wanted = FALSE]
    <3>1. request[r].at # "idle"
      BY <1>9 DEF RequestFails
    <3>2. request' \in [Requests -> Request]
      BY <2>3 DEF Request
    <3>3. \A s \in Requests : /\ request'[s].at = request[s].at
                              /\ request'[s].data = request[s].data
                              /\ request[s].at = "idle" => request'[s] = request[s]
      BY <2>3, <3>1 DEF Request
    <3>4. TypeOK'
      BY <2>1, <3>2, <3>3
    <3>5. InFlight'
      BY <2>1, <3>3 DEF Past
    <3> QED
      BY <1>n, <2>1, <3>4, <3>5
  <2> QED
    BY <1>9, <2>2, <2>3 DEF RequestFails
<1>10. CASE UNCHANGED vars
  BY <1>10 DEF vars, Past
<1> QED
  BY <1>1, <1>2, <1>3, <1>4, <1>5, <1>6, <1>7, <1>8, <1>9, <1>10 DEF Next, Serve

(***************************************************************************)
(* getAuctionDashboard and the page: what one dashboard shows has been     *)
(* read in order, whatever is cached, overtaken or failed.                 *)
(***************************************************************************)
THEOREM DashboardsOrdered == Spec => [](TypeOK /\ BidsNotOlder)
<1>1. IInv => TypeOK /\ BidsNotOlder
  BY DEF IInv
<1> QED
  BY InitSafe, NextSafe, <1>1, PTL DEF Spec

(* However requests overlap, fail or find the cache, what they carry, what *)
(* is cached and what the page shows are whole dashboards or none.         *)
THEOREM PageTypeCorrect == Spec => []TypeOK
BY DashboardsOrdered, PTL
=============================================================================
