------------------------------ MODULE CacheAside ------------------------------
(***************************************************************************)
(* The cache in Redis and the readers of it                                *)
(* (src/src/infrastructure/cache/cache.service.ts).                        *)
(*                                                                         *)
(* getOrSet reads a key; after a miss it takes a lock that lapses, and     *)
(* whoever has the lock fetches and stores.  The others wait for the       *)
(* message that the lock is released, or for a time limit.  What a fetch   *)
(* returns, and who invalidates which keys, is up to the module that       *)
(* extends this one.                                                       *)
(***************************************************************************)
EXTENDS Naturals, FiniteSets

CONSTANTS
  Keys,
  Readers,    \* calls of getOrSet in progress at a time
  Stamps,     \* lock values: the clock in milliseconds, so two readers may have the same
  None,       \* nothing there: no cached value, no lock
  MaxFaults   \* bound on failures

ASSUME CacheAssumption == None \notin Stamps /\ MaxFaults \in Nat

VARIABLES
  cache,   \* cache[k]: the cached value
  lock,    \* lock[k]: the value of the lock key
  read,    \* read[c]: what reader c is doing
  faults,
  lost     \* (history) readers whose lock was taken from them

cacheVars == <<cache, lock, read, faults, lost>>

\* `held` is the value with which a reader took its lock, `got` what it has fetched.
\* `null` is stored as JSON and reads as a miss: it is None here.
NotReading == [pc |-> "idle", key |-> None, held |-> None, got |-> None]

AtRead(c, stage) == read[c].pc = stage

Holds(c) == read[c].held # None

\* A reader that has the lock and has not released it.
Holder(c, k) == read[c].key = k /\ Holds(c) /\ read[c].pc \in {"fetch", "store", "release"}

Step(c, stage) == read' = [read EXCEPT ![c].pc = stage]

Return(c) ==
  /\ read' = [read EXCEPT ![c] = NotReading]
  /\ lost' = lost \ {c}

-----------------------------------------------------------------------------
(***************************************************************************)
(* getOrSet.  A hit returns at once and changes nothing.                   *)
(***************************************************************************)
Miss(c, k) ==
  /\ read[c] = NotReading /\ cache[k] = None
  /\ read' = [read EXCEPT ![c] = [NotReading EXCEPT !.pc = "lock", !.key = k]]
  /\ UNCHANGED <<cache, lock, faults, lost>>

\* Slip: SET without NX.
AlwaysFree(k) == TRUE

Free(k) == lock[k] = None

AcquireLock(c) ==
  LET k == read[c].key IN
  /\ AtRead(c, "lock")
  /\ \/ /\ Free(k)
        /\ \E s \in Stamps :
             /\ lock' = [lock EXCEPT ![k] = s]
             /\ read' = [read EXCEPT ![c] = [@ EXCEPT !.pc = "fetch", !.held = s]]
     \/ /\ ~Free(k)
        /\ Step(c, "subscribe")
        /\ UNCHANGED lock
  /\ UNCHANGED <<cache, faults, lost>>

\* The fetcher returns v.  Only with the lock is it stored.
Fetched(c, v) ==
  /\ AtRead(c, "fetch")
  /\ \/ /\ Holds(c)
        /\ read' = [read EXCEPT ![c] = [@ EXCEPT !.pc = "store", !.got = v]]
        /\ UNCHANGED lost
     \/ ~Holds(c) /\ Return(c)
  /\ UNCHANGED <<cache, lock, faults>>

\* The fetcher throws: the lock is released all the same.
FetchThrows(c) ==
  /\ AtRead(c, "fetch")
  /\ \/ Holds(c) /\ Step(c, "release") /\ UNCHANGED lost
     \/ ~Holds(c) /\ Return(c)
  /\ UNCHANGED <<cache, lock, faults>>

Store(c) ==
  /\ AtRead(c, "store")
  /\ cache' = [cache EXCEPT ![read[c].key] = read[c].got]
  /\ read' = [read EXCEPT ![c] = [@ EXCEPT !.pc = "release", !.got = None]]
  /\ UNCHANGED <<lock, faults, lost>>

\* Slip: DEL without comparing.
Whoever(k, s) == TRUE

OwnLock(k, s) == lock[k] = s

\* Those who lose their lock when it is deleted by somebody else.
HoldersOf(k) == {d \in Readers : Holder(d, k)}

Release(c) ==
  LET k == read[c].key IN
  /\ AtRead(c, "release")
  /\ \/ /\ OwnLock(k, read[c].held)
        /\ lock' = [lock EXCEPT ![k] = None]
        \* (a reader with the same lock value loses its lock here)
        /\ lost' = lost \cup {d \in HoldersOf(k) \ {c} : read[d].held = read[c].held}
     \/ ~OwnLock(k, read[c].held) /\ UNCHANGED <<lock, lost>>
  /\ Step(c, "publish")
  /\ UNCHANGED <<cache, faults>>

\* Those who have subscribed by now are woken.
Publish(c) ==
  /\ AtRead(c, "publish")
  /\ read' = [d \in Readers |->
                IF d = c THEN NotReading
                ELSE IF AtRead(d, "wait") /\ read[d].key = read[c].key
                THEN [read[d] EXCEPT !.pc = "reread"] ELSE read[d]]
  /\ lost' = lost \ {c}
  /\ UNCHANGED <<cache, lock, faults>>

(***************************************************************************)
(* waitForCache: the clock is set before the subscription.                 *)
(***************************************************************************)
Subscribe(c) ==
  /\ AtRead(c, "subscribe")
  /\ Step(c, "wait")
  /\ UNCHANGED <<cache, lock, faults, lost>>

\* Slip: the clock is set when the subscription is through, and only if it fails.
InTime(c) == AtRead(c, "subscribe")

Waits(c) == AtRead(c, "subscribe") \/ AtRead(c, "wait")

TimeOut(c) ==
  /\ Waits(c)
  /\ Step(c, "reread")
  /\ UNCHANGED <<cache, lock, faults, lost>>

\* After the wait: a hit, or a fetch whose result is not stored.
Reread(c) ==
  /\ AtRead(c, "reread")
  /\ IF cache[read[c].key] # None THEN Return(c) ELSE Step(c, "fetch") /\ UNCHANGED lost
  /\ UNCHANGED <<cache, lock, faults>>

-----------------------------------------------------------------------------
(***************************************************************************)
(* Faults, and keys that lapse.                                            *)
(***************************************************************************)

\* What a reader does after an error of Redis, which it only logs.
AfterError ==
  [lock |-> "subscribe", subscribe |-> "reread", reread |-> "fetch", store |-> "release",
   release |-> "idle", publish |-> "idle"]

\* The command failed; or SET NX took the lock and its answer is lost.
RedisFails(c) ==
  /\ faults < MaxFaults /\ read[c].pc \in DOMAIN AfterError
  /\ faults' = faults + 1
  /\ \/ AfterError[read[c].pc] = "idle" /\ Return(c)
     \/ /\ AfterError[read[c].pc] # "idle"
        /\ read' = [read EXCEPT ![c] = [@ EXCEPT !.pc = AfterError[read[c].pc], !.got = None]]
        /\ UNCHANGED lost
  /\ \/ UNCHANGED lock
     \/ /\ AtRead(c, "lock") /\ Free(read[c].key)
        /\ \E s \in Stamps : lock' = [lock EXCEPT ![read[c].key] = s]
  /\ UNCHANGED cache

\* GET fails: whatever is cached, the reader takes it for a miss.
ReadFails(c, k) ==
  /\ read[c] = NotReading /\ faults < MaxFaults
  /\ faults' = faults + 1
  /\ read' = [read EXCEPT ![c] = [NotReading EXCEPT !.pc = "lock", !.key = k]]
  /\ UNCHANGED <<cache, lock, lost>>

\* The process dies; its lock stays.
ReaderDies(c) ==
  /\ read[c] # NotReading /\ faults < MaxFaults
  /\ faults' = faults + 1
  /\ Return(c)
  /\ UNCHANGED <<cache, lock>>

\* Slip: SET without EX.
NoTimeToLive(k) == FALSE

Outlived(k) == cache[k] # None

Lapse(k) ==
  /\ Outlived(k)
  /\ cache' = [cache EXCEPT ![k] = None]
  /\ UNCHANGED <<lock, read, faults, lost>>

\* (A lock that outlives its reader lapses in any case; that a reader outlasts its own
\* counts as a failure.)
LockLapses(k) ==
  /\ lock[k] # None
  /\ lock' = [lock EXCEPT ![k] = None]
  /\ lost' = lost \cup HoldersOf(k)
  /\ \/ HoldersOf(k) = {} /\ UNCHANGED faults
     \/ HoldersOf(k) # {} /\ faults < MaxFaults /\ faults' = faults + 1
  /\ UNCHANGED <<cache, read>>

-----------------------------------------------------------------------------
(***************************************************************************)
(* clear and clearByPattern, one operator for each command.                *)
(***************************************************************************)
Del(S) == cache' = [k \in Keys |-> IF k \in S THEN None ELSE cache[k]]

Unlock(S) ==
  /\ lock' = [k \in Keys |-> IF k \in S THEN None ELSE lock[k]]
  /\ lost' = lost \cup UNION {HoldersOf(k) : k \in S}

\* SCAN MATCH: a pattern that ends with * matches the locks of its keys too.
Found(S) == {k \in S : cache[k] # None}
FoundLocks(S) == {k \in S : lock[k] # None}

CacheInit ==
  /\ cache = [k \in Keys |-> None]
  /\ lock = [k \in Keys |-> None]
  /\ read = [c \in Readers |-> NotReading]
  /\ faults = 0
  /\ lost = {}

\* What a reader does by itself once its fetch is over.
Proceed(c) ==
  AcquireLock(c) \/ Store(c) \/ Release(c) \/ Publish(c) \/ Subscribe(c) \/ Reread(c)
=============================================================================
