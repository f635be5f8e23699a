----------------------------- MODULE RedisLock -----------------------------
(***************************************************************************)
(* RedisLockService.withLock around one key, "lock:<key>", as placeBid     *)
(* (user:<id>, 5 s) and closeCurrentRound (round:<id>, 60 s) use it.       *)
(* Calls run in several processes, each with its own Redis client.  The    *)
(* key expires, the connection comes and goes, an answer may get lost, the *)
(* server may lose the key (allkeys-lru, fsync once a second) and a        *)
(* process may stop.                                                       *)
(***************************************************************************)
EXTENDS Naturals

CONSTANTS Processes,   \* servers of the backend
          Slots,       \* calls a process may have under way at a time
          MaxRetries,  \* retryOptions.maxRetries
          TTL,         \* ttlSeconds, in steps of Tick
          MaxCalls,    \* bound: tokens drawn
          MaxFaults    \* bound: errors, lost keys, crashes

ASSUME LockAssumption ==
    /\ MaxRetries \in Nat /\ MaxCalls \in Nat /\ MaxFaults \in Nat
    /\ TTL \in Nat \ {0}

Callers == Processes \X Slots
Home(c) == c[1]

VARIABLES
    key,      \* the token stored under the key, 0 if there is none
    ttl,      \* what is left of the key's time
    enabled,  \* isEnabled of each process
    call,     \* each call: where it is, its token, the attempt it is at
    lease,    \* what is left of the time each call was granted the key for
    issued,   \* tokens drawn so far: `${Date.now()}-${random}` never repeats
    faults

vars == <<key, ttl, enabled, call, lease, issued, faults>>

Call == [at : {"idle", "acquiring", "locked", "unlocked", "releasing"},
         token : 0..MaxCalls, attempt : 0..MaxRetries]
Idle     == [at |-> "idle", token |-> 0, attempt |-> 0]
Unlocked == [Idle EXCEPT !.at = "unlocked"]

Init ==
    /\ key = 0 /\ ttl = 0 /\ issued = 0 /\ faults = 0
    /\ enabled \in [Processes -> BOOLEAN]
    /\ call = [c \in Callers |-> Idle]
    /\ lease = [c \in Callers |-> 0]

\* The caller asks for the lock; with Redis unavailable it runs without one.
Request(c) ==
    /\ call[c].at = "idle"
    /\ \/ /\ ~enabled[Home(c)]
          /\ call' = [call EXCEPT ![c] = Unlocked]
          /\ UNCHANGED issued
       \/ /\ enabled[Home(c)] /\ issued < MaxCalls
          /\ issued' = issued + 1
          /\ call' = [call EXCEPT ![c] =
                        [at |-> "acquiring", token |-> issued + 1, attempt |-> 0]]
    /\ UNCHANGED <<key, ttl, enabled, lease, faults>>

\* Mutants: SET without NX, and without EX.
SetKeyAlways(c) == key' = call[c].token /\ ttl' = TTL
SetKeyForever(c) == key = 0 /\ key' = call[c].token /\ ttl' = 0

\* SET key token NX EX ttl finds no key.
SetKey(c) ==
    /\ key = 0
    /\ key' = call[c].token /\ ttl' = TTL

Acquire(c) ==
    /\ call[c].at = "acquiring"
    /\ SetKey(c)
    /\ call' = [call EXCEPT ![c].at = "locked"]
    /\ lease' = [lease EXCEPT ![c] = TTL]
    /\ UNCHANGED <<enabled, issued, faults>>

\* acquireLock has returned null: withLock runs the function all the same
\* if Redis has become unavailable, and throws if not.
WithoutLock(c) ==
    call' = [call EXCEPT ![c] = IF enabled[Home(c)] THEN Idle ELSE Unlocked]

\* Mutant: the attempt is counted after the test (attempt <= maxRetries).
BusyOnceMore(c) ==
    /\ call[c].at = "acquiring" /\ key # 0
    /\ IF call[c].attempt <= MaxRetries
       THEN call' = [call EXCEPT ![c].attempt = @ + 1]
       ELSE WithoutLock(c)
    /\ UNCHANGED <<key, ttl, enabled, lease, issued, faults>>

\* The key is taken: sleep and try again, or give up.
Busy(c) ==
    /\ call[c].at = "acquiring" /\ key # 0
    /\ IF call[c].attempt < MaxRetries
       THEN call' = [call EXCEPT ![c].attempt = @ + 1]
       ELSE WithoutLock(c)
    /\ UNCHANGED <<key, ttl, enabled, lease, issued, faults>>

\* SET fails, or has its effect and the answer is lost.
AcquireError(c) ==
    /\ call[c].at = "acquiring" /\ faults < MaxFaults
    /\ faults' = faults + 1
    /\ SetKey(c) \/ UNCHANGED <<key, ttl>>
    /\ WithoutLock(c)
    /\ UNCHANGED <<enabled, lease, issued>>

\* The function has returned or thrown.
Finish(c) ==
    /\ \/ /\ call[c].at = "locked"
          /\ call' = [call EXCEPT ![c].at = "releasing"]
       \/ /\ call[c].at = "unlocked"
          /\ call' = [call EXCEPT ![c] = Idle]
    /\ UNCHANGED <<key, ttl, enabled, lease, issued, faults>>

\* Mutant: a plain DEL.
DeleteAnyKey(c) == key' = 0 /\ ttl' = 0

\* releaseLock's script: delete the key if it holds this token.
DeleteOwnKey(c) ==
    IF key = call[c].token THEN key' = 0 /\ ttl' = 0 ELSE UNCHANGED <<key, ttl>>

Release(c) ==
    /\ call[c].at = "releasing"
    /\ IF enabled[Home(c)] THEN DeleteOwnKey(c) ELSE UNCHANGED <<key, ttl>>
    /\ call' = [call EXCEPT ![c] = Idle]
    /\ lease' = [lease EXCEPT ![c] = 0]
    /\ UNCHANGED <<enabled, issued, faults>>

\* The script fails, or runs and its answer is lost; the error is swallowed.
ReleaseError(c) ==
    /\ call[c].at = "releasing" /\ faults < MaxFaults
    /\ faults' = faults + 1
    /\ DeleteOwnKey(c) \/ UNCHANGED <<key, ttl>>
    /\ call' = [call EXCEPT ![c] = Idle]
    /\ lease' = [lease EXCEPT ![c] = 0]
    /\ UNCHANGED <<enabled, issued>>

Step(c) == Acquire(c) \/ Busy(c) \/ Finish(c) \/ Release(c)

\* Time passes; a key whose time is up is gone.
Tick ==
    /\ ttl > 0
    /\ ttl' = ttl - 1
    /\ key' = IF ttl = 1 THEN 0 ELSE key
    /\ lease' = [c \in Callers |-> IF lease[c] = 0 THEN 0 ELSE lease[c] - 1]
    /\ UNCHANGED <<enabled, call, issued, faults>>

\* Eviction, or a restart of Redis that has not written the key out.
LoseKey ==
    /\ key # 0 /\ faults < MaxFaults
    /\ faults' = faults + 1
    /\ key' = 0 /\ ttl' = 0
    /\ lease' = [c \in Callers |-> 0]
    /\ UNCHANGED <<enabled, call, issued>>

\* The client's "error" and "connect" events.
Disconnect(p) ==
    /\ enabled[p] /\ faults < MaxFaults
    /\ faults' = faults + 1
    /\ enabled' = [enabled EXCEPT ![p] = FALSE]
    /\ UNCHANGED <<key, ttl, call, lease, issued>>

Connect(p) ==
    /\ ~enabled[p]
    /\ enabled' = [enabled EXCEPT ![p] = TRUE]
    /\ UNCHANGED <<key, ttl, call, lease, issued, faults>>

\* The process stops; it comes back with no calls and not yet connected.
Crash(p) ==
    /\ faults < MaxFaults
    /\ faults' = faults + 1
    /\ enabled' = [enabled EXCEPT ![p] = FALSE]
    /\ call' = [c \in Callers |-> IF Home(c) = p THEN Idle ELSE call[c]]
    /\ lease' = [c \in Callers |-> IF Home(c) = p THEN 0 ELSE lease[c]]
    /\ UNCHANGED <<key, ttl, issued>>

Next ==
    \/ \E c \in Callers : \/ Request(c) \/ Step(c)
                          \/ AcquireError(c) \/ ReleaseError(c)
    \/ \E p \in Processes : Disconnect(p) \/ Connect(p) \/ Crash(p)
    \/ Tick \/ LoseKey

Spec == Init /\ [][Next]_vars

\* The event loop runs what a call awaits, and time passes.
FairSpec == Spec /\ (\A c \in Callers : WF_vars(Step(c))) /\ WF_vars(Tick)
-----------------------------------------------------------------------------
\* Types: tokens and attempts stay within their bounds.
TypeOK ==
    /\ key \in 0..MaxCalls /\ issued \in 0..MaxCalls
    /\ ttl \in 0..TTL
    /\ enabled \in [Processes -> BOOLEAN]
    /\ call \in [Callers -> Call]
    /\ lease \in [Callers -> 0..TTL]
    /\ faults \in 0..MaxFaults

\* As long as its time is not up and Redis keeps the key, a function that
\* runs under the lock has it: nobody overwrites it (NX) and no late
\* release of an earlier holder deletes it (the token check).
LeaseHoldsKey ==
    \A c \in Callers : lease[c] > 0 =>
        /\ call[c].at \in {"locked", "releasing"}
        /\ key = call[c].token /\ lease[c] = ttl

\* Two functions never run under the lock at the same time within their
\* times, across processes, expiry, lost answers, reconnects and crashes.
Exclusion ==
    \A c, d \in Callers : lease[c] > 0 /\ lease[d] > 0 => c = d

\* Whoever set the key, and whether or not that caller still knows or lives,
\* the key does not keep this token for ever: no user and no round is
\* locked out for good.
EveryLockEnds == \A t \in 1..MaxCalls : (key = t) ~> (key # t)
=============================================================================
