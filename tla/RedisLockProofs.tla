-------------------------- MODULE RedisLockProofs --------------------------
(***************************************************************************)
(* The exclusion withLock promises holds for any number of processes,      *)
(* calls, retries and faults and for every TTL.  It is inductive together  *)
(* with two facts: a token belongs to one call (TokensUnique), and the     *)
(* time of a lease is the time of the key (LeaseHoldsKey).                 *)
(***************************************************************************)
EXTENDS RedisLock, TLAPS

TokensUnique ==
    /\ \A c \in Callers :
          /\ call[c].token <= issued
          /\ call[c].at \in {"acquiring", "locked", "releasing"} <=> call[c].token > 0
    /\ \A c, d \in Callers :
          call[c].token = call[d].token /\ call[c].token > 0 => c = d

\* The key carries a token already drawn, has time left exactly when it is
\* there, and never the token of a call that has not set it yet.
KeyIssued ==
    /\ key <= issued
    /\ key = 0 <=> ttl = 0
    /\ \A c \in Callers : call[c].at = "acquiring" => key # call[c].token

IInv == TypeOK /\ TokensUnique /\ KeyIssued /\ LeaseHoldsKey

-----------------------------------------------------------------------------
LEMMA InitSafe == Init => IInv
BY LockAssumption
DEF Init, IInv, TypeOK, TokensUnique, KeyIssued, LeaseHoldsKey, Call, Idle

(* One caller's step, whatever it does to the key.                         *)
LEMMA StepSafe ==
    ASSUME IInv, NEW c \in Callers,
           Request(c) \/ Step(c) \/ AcquireError(c) \/ ReleaseError(c)
    PROVE  IInv'
<1> USE LockAssumption DEF IInv, TypeOK, Call, Idle, Unlocked
<1>h. Home(c) \in Processes
  BY DEF Callers, Home
<1>1. CASE Request(c)
  BY <1>1, <1>h DEF Request, TokensUnique, KeyIssued, LeaseHoldsKey
<1>2. CASE Acquire(c)
  BY <1>2 DEF Acquire, SetKey, TokensUnique, KeyIssued, LeaseHoldsKey
<1>3. CASE Busy(c)
  <2>1. TypeOK'
    BY <1>3, <1>h DEF Busy, WithoutLock
  <2>2. TokensUnique'
    BY <1>3, <1>h DEF Busy, WithoutLock, TokensUnique
  <2>3. KeyIssued'
    BY <1>3, <1>h DEF Busy, WithoutLock, TokensUnique, KeyIssued
  <2>4. LeaseHoldsKey'
    BY <1>3, <1>h DEF Busy, WithoutLock, TokensUnique, KeyIssued, LeaseHoldsKey
  <2> QED
    BY <2>1, <2>2, <2>3, <2>4
<1>4. CASE AcquireError(c)
  BY <1>4, <1>h DEF AcquireError, SetKey, WithoutLock, TokensUnique, KeyIssued, LeaseHoldsKey
<1>5. CASE Finish(c)
  <2>1. TypeOK'
    BY <1>5 DEF Finish
  <2>2. TokensUnique'
    BY <1>5 DEF Finish, TokensUnique
  <2>3. KeyIssued'
    BY <1>5 DEF Finish, TokensUnique, KeyIssued
  <2>4. LeaseHoldsKey'
    BY <1>5 DEF Finish, TokensUnique, KeyIssued, LeaseHoldsKey
  <2> QED
    BY <2>1, <2>2, <2>3, <2>4
<1>6. CASE Release(c)
  BY <1>6, <1>h DEF Release, DeleteOwnKey, TokensUnique, KeyIssued, LeaseHoldsKey
<1>7. CASE ReleaseError(c)
  BY <1>7 DEF ReleaseError, DeleteOwnKey, TokensUnique, KeyIssued, LeaseHoldsKey
<1> QED
  BY <1>1, <1>2, <1>3, <1>4, <1>5, <1>6, <1>7 DEF Step

(* The environment's steps.                                                *)
LEMMA EnvironmentSafe ==
    ASSUME IInv,
           \/ \E p \in Processes : Disconnect(p) \/ Connect(p) \/ Crash(p)
           \/ Tick \/ LoseKey
    PROVE  IInv'
<1> USE LockAssumption DEF IInv, TypeOK, Call, Idle
<1>1. ASSUME NEW p \in Processes, Disconnect(p) \/ Connect(p)
      PROVE  IInv'
  <2>1. enabled' \in [Processes -> BOOLEAN]
    BY <1>1, Zenon DEF Disconnect, Connect
  <2>2. faults' \in 0..MaxFaults
    BY <1>1 DEF Disconnect, Connect
  <2>3. UNCHANGED <<key, ttl, call, lease, issued>>
    BY <1>1 DEF Disconnect, Connect
  <2> QED
    BY <2>1, <2>2, <2>3 DEF TokensUnique, KeyIssued, LeaseHoldsKey
<1>2. ASSUME NEW p \in Processes, Crash(p)
      PROVE  IInv'
  BY <1>2 DEF Crash, TokensUnique, KeyIssued, LeaseHoldsKey
<1>3. CASE Tick
  BY <1>3 DEF Tick, TokensUnique, KeyIssued, LeaseHoldsKey
<1>4. CASE LoseKey
  BY <1>4 DEF LoseKey, TokensUnique, KeyIssued, LeaseHoldsKey
<1> QED
  BY <1>1, <1>2, <1>3, <1>4

LEMMA NextSafe == IInv /\ [Next]_vars => IInv'
<1> SUFFICES ASSUME IInv, [Next]_vars
             PROVE  IInv'
  OBVIOUS
<1>1. CASE UNCHANGED vars
  BY <1>1 DEF vars, IInv, TypeOK, TokensUnique, KeyIssued, LeaseHoldsKey
<1>2. CASE Next
  BY <1>2, StepSafe, EnvironmentSafe DEF Next
<1> QED
  BY <1>1, <1>2

(* Two calls with a lease both hold the token under the key.               *)
LEMMA LeasesExclude == IInv => Exclusion
BY DEF IInv, TypeOK, Call, TokensUnique, LeaseHoldsKey, Exclusion

(***************************************************************************)
(* RedisLockService.withLock: functions that run under the lock exclude    *)
(* one another while their time lasts, and the key is theirs for that      *)
(* time, whatever expires, fails, reconnects or crashes.                   *)
(***************************************************************************)
THEOREM LockSafe == Spec => [](TypeOK /\ LeaseHoldsKey /\ Exclusion)
<1>1. IInv => TypeOK /\ LeaseHoldsKey /\ Exclusion
  BY LeasesExclude DEF IInv
<1> QED
  BY InitSafe, NextSafe, <1>1, PTL DEF Spec

(* Calls, tokens, leases and the key keep their shape.                     *)
THEOREM LockTypeCorrect == Spec => []TypeOK
BY LockSafe, PTL

(* While the time of a granted lock runs, the key holds the token of the   *)
(* call it was granted to: no release deletes another call's (releaseLock).*)
THEOREM LeasesHold == Spec => []LeaseHoldsKey
BY LockSafe, PTL
=============================================================================
