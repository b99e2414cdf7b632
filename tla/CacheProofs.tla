----------------------------- MODULE CacheProofs -----------------------------
(***************************************************************************)
(* Theorems about the caches, for any readers, operations in progress,     *)
(* keys, lock values and failures: first the lock of getOrSet, whatever    *)
(* operations invalidate, then what operations on roles, users and         *)
(* categories leave in the database and in the cache, then that a cached   *)
(* value which differs from the database is about to be cleared or is one  *)
(* of the known exceptions, and that readers and operations come to an     *)
(* end.                                                                    *)
(***************************************************************************)
EXTENDS AdminCaches, SequenceTheorems, TLAPS

\* A reader that has not got the lock has no lock value.
ReadTyped(r) ==
  /\ r = [pc |-> r.pc, key |-> r.key, held |-> r.held, got |-> r.got]
  /\ r.pc \in {"idle", "lock", "fetch", "store", "release", "publish", "subscribe", "wait", "reread"}
  /\ r.held \in Stamps \cup {None}
  /\ r.pc # "idle" => r.key \in Keys
  /\ r.pc \in {"idle", "lock", "subscribe", "wait", "reread"} => r.held = None

LocksTyped ==
  /\ lock \in [Keys -> Stamps \cup {None}]
  /\ DOMAIN read = Readers
  /\ \A c \in Readers : ReadTyped(read[c])

\* A reader that has the lock and was not deprived of it.
Owns(c, k) == Holder(c, k) /\ c \notin lost

\* The key in Redis is its owner's.
OwnersMark == \A k \in Keys, c \in Readers : Owns(c, k) => lock[k] = read[c].held

LockInv == LocksTyped /\ OwnersMark /\ HoldersAlone

-----------------------------------------------------------------------------
(***************************************************************************)
(* Steps that make no new owner.                                           *)
(***************************************************************************)
NoNewOwner ==
  \A c \in Readers, k \in Keys : Owns(c, k)' => Owns(c, k) /\ read'[c].held = read[c].held

\* Nobody owns a lock that the step changes.
ChangesUnowned ==
  \A k \in Keys : lock'[k] # lock[k] => \A c \in Readers : ~Owns(c, k)'

\* Without new owners, and with the locks of the others left alone, the invariant stays.
LEMMA OwnersKept ==
  ASSUME LockInv, LocksTyped', NoNewOwner, ChangesUnowned
  PROVE  LockInv'
<1>1. OwnersMark'
  BY DEF LockInv, OwnersMark, NoNewOwner, ChangesUnowned
<1>2. HoldersAlone'
  BY DEF LockInv, HoldersAlone, NoNewOwner, Owns, HoldersOf
<1>3. QED BY <1>1, <1>2 DEF LockInv

\* A reader returns, and whoever was deprived of a lock stays so.
LEMMA ReturnKeeps ==
  ASSUME LockInv, NEW c \in Readers, Return(c), UNCHANGED lock
  PROVE  LockInv'
<1>1. /\ read'[c] = NotReading
      /\ \A d \in Readers \ {c} : read'[d] = read[d]
      /\ DOMAIN read' = Readers
  BY DEF LockInv, LocksTyped, Return
<1>2. LocksTyped'
  <2>1. ReadTyped(NotReading)
    BY DEF ReadTyped, NotReading
  <2>2. \A d \in Readers : ReadTyped(read'[d])
    BY <1>1, <2>1 DEF LockInv, LocksTyped
  <2>3. QED BY <1>1, <2>2 DEF LockInv, LocksTyped, ReadTyped
<1>3. NoNewOwner
  BY <1>1 DEF NoNewOwner, Owns, Holder, Holds, NotReading, Return
<1>4. QED BY <1>2, <1>3, OwnersKept DEF ChangesUnowned

\* A reader goes on with the lock value that it has, and nobody's lock is touched.
LEMMA MoveKeeps ==
  ASSUME LockInv, NEW c \in Readers, NEW r, ReadTyped(r),
         read' = [read EXCEPT ![c] = r], UNCHANGED <<lock, lost>>,
         \A k \in Keys : r.key = k /\ r.held # None /\ r.pc \in {"fetch", "store", "release"}
           => Holder(c, k) /\ read[c].held = r.held
  PROVE  LockInv'
<1>1. /\ read'[c] = r
      /\ \A d \in Readers \ {c} : read'[d] = read[d]
      /\ DOMAIN read' = Readers
  BY DEF LockInv, LocksTyped
<1>2. LocksTyped'
  BY <1>1 DEF LockInv, LocksTyped, ReadTyped
<1>3. NoNewOwner
  BY <1>1 DEF NoNewOwner, Owns, Holder, Holds
<1>4. QED BY <1>2, <1>3, OwnersKept DEF ChangesUnowned

\* An invalidation deletes locks: whoever had one has lost it.
LEMMA UnlockKeeps ==
  ASSUME LockInv, NEW S, UNCHANGED read,
         lock' = [k \in Keys |-> IF k \in S THEN None ELSE lock[k]],
         lost' = lost \cup UNION {HoldersOf(k) : k \in S}
  PROVE  LockInv'
<1>1. LocksTyped'
  BY DEF LockInv, LocksTyped, ReadTyped
<1>2. NoNewOwner
  BY DEF NoNewOwner, Owns, Holder, Holds
<1>3. ChangesUnowned
  BY DEF ChangesUnowned, Owns, Holder, Holds, HoldersOf, LockInv, LocksTyped
<1>4. QED BY <1>1, <1>2, <1>3, OwnersKept

\* Commands on the database and on cached values touch neither readers nor locks.
LEMMA NothingKeeps ==
  ASSUME LockInv, UNCHANGED <<read, lock, lost>>
  PROVE  LockInv'
<1>1. LocksTyped' /\ NoNewOwner /\ ChangesUnowned
  BY DEF LockInv, LocksTyped, ReadTyped, NoNewOwner, ChangesUnowned, Owns, Holder, Holds
<1>2. QED BY <1>1, OwnersKept

-----------------------------------------------------------------------------
(***************************************************************************)
(* Readers.                                                                *)
(***************************************************************************)

\* A step to another await, with the same key and lock value.
LEMMA StepKeeps ==
  ASSUME LockInv, NEW c \in Readers, NEW stage, Step(c, stage), UNCHANGED <<lock, lost>>,
         \/ stage \in {"subscribe", "wait", "reread"} /\ read[c].held = None /\ read[c].pc # "idle"
         \/ stage = "release" /\ read[c].pc \in {"fetch", "store"}
         \/ stage = "fetch" /\ read[c].pc = "reread"
         \/ stage = "publish" /\ read[c].pc = "release"
  PROVE  LockInv'
<1>1. ReadTyped(read[c])
  BY DEF LockInv, LocksTyped
<1>2. PICK r : r = [read[c] EXCEPT !.pc = stage]
  OBVIOUS
<1>3. r = [pc |-> stage, key |-> read[c].key, held |-> read[c].held, got |-> read[c].got]
  BY <1>1, <1>2 DEF ReadTyped
<1>4. read' = [read EXCEPT ![c] = r]
  BY <1>2 DEF Step
<1>5. ReadTyped(r)
  BY <1>1, <1>3 DEF ReadTyped
<1>6. r.pc = stage /\ r.key = read[c].key /\ r.held = read[c].held
  BY <1>3
<1>7. ASSUME r.held # None, r.pc \in {"fetch", "store", "release"}
      PROVE  read[c].pc \in {"fetch", "store", "release"}
  BY <1>1, <1>6, <1>7 DEF ReadTyped
<1>8. \A k \in Keys : r.key = k /\ r.held # None /\ r.pc \in {"fetch", "store", "release"}
        => Holder(c, k) /\ read[c].held = r.held
  BY <1>6, <1>7 DEF Holder, Holds
<1>9. QED BY <1>4, <1>5, <1>8, MoveKeeps

\* A miss sets out for the lock.
LEMMA MissKeeps ==
  ASSUME LockInv, NEW c \in Readers, NEW k \in Keys, UNCHANGED <<lock, lost>>,
         read' = [read EXCEPT ![c] = [NotReading EXCEPT !.pc = "lock", !.key = k]]
  PROVE  LockInv'
<1>1. PICK r : r = [NotReading EXCEPT !.pc = "lock", !.key = k]
  OBVIOUS
<1>2. r = [pc |-> "lock", key |-> k, held |-> None, got |-> None]
  BY <1>1 DEF NotReading
<1>3. ReadTyped(r)
  BY <1>2 DEF ReadTyped
<1>4. read' = [read EXCEPT ![c] = r]
  BY <1>1
<1>5. QED BY <1>2, <1>3, <1>4, MoveKeeps

\* SET NX succeeds only where nobody owns the lock.
LEMMA FreeUnowned ==
  ASSUME LockInv, NEW k \in Keys, Free(k), NEW d \in Readers
  PROVE  ~Owns(d, k)
  BY CacheAssumption DEF LockInv, LocksTyped, OwnersMark, Owns, Holder, Holds, ReadTyped, Free

\* ... and makes one owner.
LEMMA AcquireKeeps ==
  ASSUME LockInv, NEW c \in Readers, AcquireLock(c)
  PROVE  LockInv'
<1>1. ReadTyped(read[c]) /\ read[c].key \in Keys /\ read[c].held = None
  BY DEF LockInv, LocksTyped, ReadTyped, AcquireLock, AtRead
<1> DEFINE k == read[c].key
<1>2. CASE ~Free(k) /\ Step(c, "subscribe") /\ UNCHANGED lock
  BY <1>1, <1>2, StepKeeps DEF AcquireLock, AtRead
<1>3. ASSUME Free(k), NEW s \in Stamps, lock' = [lock EXCEPT ![k] = s],
             read' = [read EXCEPT ![c] = [@ EXCEPT !.pc = "fetch", !.held = s]]
      PROVE  LockInv'
  <2>1. PICK r : r = [read[c] EXCEPT !.pc = "fetch", !.held = s]
    OBVIOUS
  <2>2. r = [pc |-> "fetch", key |-> k, held |-> s, got |-> read[c].got] /\ ReadTyped(r)
    BY <1>1, <2>1 DEF ReadTyped
  <2>3. read' = [read EXCEPT ![c] = r]
    BY <1>3, <2>1
  <2>4. /\ read'[c] = r /\ DOMAIN read' = Readers
        /\ \A d \in Readers \ {c} : read'[d] = read[d]
    BY <2>3 DEF LockInv, LocksTyped
  <2>5. LocksTyped'
    BY <1>3, <2>2, <2>4 DEF LockInv, LocksTyped, ReadTyped
  <2>6. lost' = lost /\ lock'[k] = s /\ \A j \in Keys \ {k} : lock'[j] = lock[j]
    BY <1>1, <1>3 DEF AcquireLock, LockInv, LocksTyped
  <2>7. \A d \in Readers \ {c} : ~Owns(d, k)'
    BY <1>1, <1>3, <2>4, <2>6, FreeUnowned DEF Owns, Holder, Holds
  <2>8. \A d \in Readers, j \in Keys : (d # c \/ j # k) /\ Owns(d, j)' => Owns(d, j) /\ j # k
    BY <2>2, <2>4, <2>6, <2>7 DEF Owns, Holder, Holds
  <2>9. OwnersMark'
    <3> SUFFICES ASSUME NEW j \in Keys, NEW d \in Readers, Owns(d, j)'
                 PROVE  lock'[j] = read'[d].held
      BY DEF OwnersMark
    <3>1. CASE d = c /\ j = k
      BY <2>2, <2>4, <2>6, <3>1
    <3>2. CASE d # c \/ j # k
      <4>1. Owns(d, j) /\ j # k
        BY <2>8, <3>2
      <4>2. d # c
        BY <1>1, <4>1 DEF Owns, Holder, Holds
      <4>3. QED BY <2>4, <2>6, <4>1, <4>2 DEF LockInv, OwnersMark
    <3>3. QED BY <3>1, <3>2
  <2>10. HoldersAlone'
    <3> SUFFICES ASSUME NEW j \in Keys, NEW d \in Readers, NEW e \in Readers, d # e,
                        Owns(d, j)', Owns(e, j)'
                 PROVE  FALSE
      BY DEF HoldersAlone, HoldersOf, Owns
    <3>1. j # k
      BY <2>8
    <3>2. Owns(d, j) /\ Owns(e, j)
      BY <2>8, <3>1
    <3>3. QED BY <3>2 DEF LockInv, HoldersAlone, HoldersOf, Owns
  <2>11. QED BY <2>5, <2>9, <2>10 DEF LockInv
<1>4. QED BY <1>2, <1>3 DEF AcquireLock

\* A release deletes the lock of its own value: other owners have none.
LEMMA ReleaseKeeps ==
  ASSUME LockInv, NEW c \in Readers, Release(c)
  PROVE  LockInv'
<1>1. ReadTyped(read[c]) /\ read[c].pc = "release"
  BY DEF LockInv, LocksTyped, Release, AtRead
<1>0. PICK k : k = read[c].key
  OBVIOUS
<1>2. CASE ~OwnLock(k, read[c].held)
  BY <1>0, <1>1, <1>2, StepKeeps DEF Release
<1>3. CASE OwnLock(k, read[c].held)
  <2>1. PICK r : r = [read[c] EXCEPT !.pc = "publish"]
    OBVIOUS
  <2>2. r = [pc |-> "publish", key |-> k, held |-> read[c].held, got |-> read[c].got]
    BY <1>0, <1>1, <2>1 DEF ReadTyped
  <2>3. ReadTyped(r)
    BY <1>0, <1>1, <2>2 DEF ReadTyped
  <2>4. read' = [read EXCEPT ![c] = r]
    BY <2>1 DEF Release, Step
  <2>5. /\ read'[c] = r /\ DOMAIN read' = Readers
        /\ \A d \in Readers \ {c} : read'[d] = read[d]
    BY <2>4 DEF LockInv, LocksTyped
  <2>6. /\ lock' = [lock EXCEPT ![k] = None]
        /\ lost' = lost \cup {d \in HoldersOf(k) \ {c} : read[d].held = read[c].held}
    BY <1>0, <1>3 DEF Release
  <2>7. LocksTyped'
    <3>1. lock' \in [Keys -> Stamps \cup {None}]
      BY <2>6 DEF LockInv, LocksTyped
    <3>2. \A d \in Readers : ReadTyped(read'[d])
      BY <2>3, <2>5 DEF LockInv, LocksTyped
    <3>3. QED BY <2>5, <3>1, <3>2 DEF LocksTyped, ReadTyped
  <2>8. NoNewOwner
    BY <2>2, <2>5, <2>6 DEF NoNewOwner, Owns, Holder, Holds
  <2>9. \A d \in Readers : ~Owns(d, k)'
    <3> SUFFICES ASSUME NEW d \in Readers, Owns(d, k)' PROVE FALSE
      OBVIOUS
    <3>1. d # c
      BY <2>2, <2>5 DEF Owns, Holder
    <3>2. Owns(d, k) /\ k \in Keys
      BY <1>0, <1>1, <2>5, <2>6, <3>1 DEF Owns, Holder, Holds, ReadTyped
    <3>3. read[d].held = read[c].held
      BY <1>3, <3>2 DEF LockInv, OwnersMark, OwnLock
    <3>4. d \in lost'
      BY <2>6, <3>1, <3>2, <3>3 DEF HoldersOf, Owns
    <3>5. QED BY <3>4 DEF Owns
  <2>10. ChangesUnowned
    BY <2>6, <2>9 DEF ChangesUnowned, LockInv, LocksTyped
  <2>11. QED BY <2>7, <2>8, <2>10, OwnersKept
<1>4. QED BY <1>2, <1>3

\* The message wakes those who wait; they have no lock.
LEMMA PublishKeeps ==
  ASSUME LockInv, NEW c \in Readers, Publish(c)
  PROVE  LockInv'
<1> DEFINE Woken(d) == d # c /\ AtRead(d, "wait") /\ read[d].key = read[c].key
<1>1. /\ DOMAIN read' = Readers /\ read'[c] = NotReading
      /\ \A d \in Readers : Woken(d) => read'[d] = [read[d] EXCEPT !.pc = "reread"]
      /\ \A d \in Readers : d # c /\ ~Woken(d) => read'[d] = read[d]
  BY DEF Publish
<1>2. ASSUME NEW d \in Readers, Woken(d)
      PROVE  ReadTyped(read'[d]) /\ read'[d].pc = "reread"
  <2>1. ReadTyped(read[d]) /\ read[d].pc = "wait"
    BY <1>2 DEF LockInv, LocksTyped, AtRead
  <2>2. PICK r : r = [read[d] EXCEPT !.pc = "reread"]
    OBVIOUS
  <2>3. r = [pc |-> "reread", key |-> read[d].key, held |-> read[d].held, got |-> read[d].got]
    BY <2>1, <2>2 DEF ReadTyped
  <2>4. ReadTyped(r)
    BY <2>1, <2>3 DEF ReadTyped
  <2>5. read'[d] = r
    BY <1>1, <1>2, <2>2
  <2>6. QED BY <2>3, <2>4, <2>5
<1> HIDE DEF Woken
<1>3. \A d \in Readers : ReadTyped(read'[d])
  <2>1. ReadTyped(NotReading)
    BY DEF ReadTyped, NotReading
  <2>2. QED BY <1>1, <1>2, <2>1 DEF LockInv, LocksTyped
<1>4. LocksTyped'
  BY <1>1, <1>3 DEF Publish, LockInv, LocksTyped, ReadTyped
<1>5. NoNewOwner
  <2> SUFFICES ASSUME NEW d \in Readers, NEW k \in Keys, Owns(d, k)'
               PROVE  Owns(d, k) /\ read'[d].held = read[d].held
    BY DEF NoNewOwner
  <2>1. d # c
    BY <1>1 DEF Owns, Holder, Holds, NotReading
  <2>2. ~Woken(d)
    BY <1>2 DEF Owns, Holder
  <2>3. QED BY <1>1, <2>1, <2>2 DEF Owns, Holder, Holds, Publish
<1>6. QED BY <1>4, <1>5, OwnersKept DEF ChangesUnowned, Publish

\* Every step of a reader keeps the invariant.
LEMMA ReaderKeeps ==
  ASSUME LockInv, NEW c \in Readers, ReaderStep(c) \/ WaitEnds(c)
  PROVE  LockInv'
<1>1. ReadTyped(read[c])
  BY DEF LockInv, LocksTyped
<1>2. CASE AcquireLock(c) \/ Release(c) \/ Publish(c)
  BY <1>2, AcquireKeeps, ReleaseKeeps, PublishKeeps
<1>3. CASE Store(c)
  <2>1. PICK r : r = [read[c] EXCEPT !.pc = "release", !.got = None]
    OBVIOUS
  <2>2. r = [pc |-> "release", key |-> read[c].key, held |-> read[c].held, got |-> None]
    BY <1>1, <2>1 DEF ReadTyped
  <2>3. read' = [read EXCEPT ![c] = r]
    BY <1>3, <2>1 DEF Store
  <2>4. ReadTyped(r)
    BY <1>1, <1>3, <2>2 DEF ReadTyped, Store, AtRead
  <2>5. QED BY <1>1, <1>3, <2>2, <2>3, <2>4, MoveKeeps DEF Store, AtRead, Holder, Holds
<1>4. ASSUME NEW v, Fetched(c, v) PROVE LockInv'
  <2>1. CASE ~Holds(c)
    BY <1>4, <2>1, ReturnKeeps DEF Fetched
  <2>2. CASE Holds(c)
    <3>1. PICK r : r = [read[c] EXCEPT !.pc = "store", !.got = v]
      OBVIOUS
    <3>2. r = [pc |-> "store", key |-> read[c].key, held |-> read[c].held, got |-> v]
      BY <1>1, <3>1 DEF ReadTyped
    <3>3. read' = [read EXCEPT ![c] = r]
      BY <1>4, <2>2, <3>1 DEF Fetched
    <3>4. ReadTyped(r)
      BY <1>1, <1>4, <3>2 DEF ReadTyped, Fetched, AtRead
    <3>5. QED
      BY <1>1, <1>4, <2>2, <3>2, <3>3, <3>4, MoveKeeps DEF Fetched, AtRead, Holder, Holds
  <2>3. QED BY <2>1, <2>2
<1>5. CASE FetchThrows(c)
  BY <1>5, ReturnKeeps, StepKeeps DEF FetchThrows, AtRead
<1>6. CASE Subscribe(c)
  BY <1>1, <1>6, StepKeeps DEF Subscribe, AtRead, ReadTyped
<1>7. CASE Reread(c)
  BY <1>1, <1>7, ReturnKeeps, StepKeeps DEF Reread, AtRead, ReadTyped
<1>8. CASE TimeOut(c)
  BY <1>1, <1>8, StepKeeps DEF TimeOut, Waits, AtRead, ReadTyped
<1>9. CASE Fetch(c)
  BY <1>4, <1>5, <1>9 DEF Fetch
<1>10. QED
  BY <1>2, <1>3, <1>6, <1>7, <1>8, <1>9 DEF ReaderStep, WaitEnds, Proceed

-----------------------------------------------------------------------------
(***************************************************************************)
(* Operations and faults.                                                  *)
(***************************************************************************)

\* Of an operation's commands only the deletion of locks matters here.
LEMMA CommandKeeps ==
  ASSUME LockInv, NEW w \in Writers, Command(w) \/ Break(w)
  PROVE  LockInv'
<1>1. CASE DelLock(w)
  <2>1. PICK S : S = KeysOf(w)
    OBVIOUS
  <2>2. QED BY <1>1, <2>1, UnlockKeeps DEF DelLock, Unlock
<1>2. CASE DelFound(w)
  <2>1. PICK S : S = write[w].locks
    OBVIOUS
  <2>2. QED BY <1>2, <2>1, UnlockKeeps DEF DelFound, Unlock
<1>3. CASE Create(w) \/ Put(w) \/ Cut(w) \/ Drop(w) \/ Wipe(w) \/ Insert(w) \/ Replace(w)
  BY <1>3, NothingKeeps DEF Create, Put, Cut, Drop, Wipe, Insert, Replace, Change, cacheVars
<1>4. CASE See(w) \/ Refused(w) \/ DelKey(w) \/ Scan(w) \/ Break(w)
  BY <1>4, NothingKeeps DEF See, Refused, DelKey, Scan, Break, cacheVars
<1>5. QED BY <1>1, <1>2, <1>3, <1>4 DEF Command

\* SET NX may have taken the lock although its answer is lost: then nobody owns it.
LEMMA RedisFailsKeeps ==
  ASSUME LockInv, NEW c \in Readers, RedisFails(c)
  PROVE  LockInv'
<1>1. ReadTyped(read[c]) /\ read[c].pc \in {"lock", "subscribe", "reread", "store", "release", "publish"}
  BY DEF LockInv, LocksTyped, RedisFails, AfterError
<1>2. CASE AfterError[read[c].pc] = "idle" /\ Return(c)
  BY <1>2, ReturnKeeps DEF RedisFails, AfterError, AtRead
<1>3. CASE AfterError[read[c].pc] # "idle"
  <2>1. PICK r : r = [read[c] EXCEPT !.pc = AfterError[read[c].pc], !.got = None]
    OBVIOUS
  <2>2. r = [pc |-> AfterError[read[c].pc], key |-> read[c].key, held |-> read[c].held, got |-> None]
    BY <1>1, <2>1 DEF ReadTyped
  <2>3. \/ read[c].pc = "store" /\ r.pc = "release"
        \/ read[c].held = None /\ r.pc \in {"subscribe", "reread", "fetch"}
    BY <1>1, <1>3, <2>2 DEF AfterError, ReadTyped
  <2>4. ReadTyped(r)
    BY <1>1, <2>2, <2>3 DEF ReadTyped
  <2>5. read' = [read EXCEPT ![c] = r] /\ lost' = lost
    BY <1>3, <2>1 DEF RedisFails
  <2>6. CASE UNCHANGED lock
    BY <2>2, <2>3, <2>4, <2>5, <2>6, MoveKeeps DEF Holder, Holds
  <2>7. ASSUME AtRead(c, "lock"), Free(read[c].key), NEW s \in Stamps,
               lock' = [lock EXCEPT ![read[c].key] = s]
        PROVE  LockInv'
    <3>0. PICK k \in Keys : k = read[c].key
      BY <1>1, <2>7 DEF ReadTyped, AtRead
    <3>1. /\ read'[c] = r /\ DOMAIN read' = Readers
          /\ \A d \in Readers \ {c} : read'[d] = read[d]
      BY <2>5 DEF LockInv, LocksTyped
    <3>2. LocksTyped'
      <4>1. lock' \in [Keys -> Stamps \cup {None}]
        BY <2>7 DEF LockInv, LocksTyped
      <4>2. \A d \in Readers : ReadTyped(read'[d])
        BY <2>4, <3>1 DEF LockInv, LocksTyped
      <4>3. QED BY <3>1, <4>1, <4>2 DEF LocksTyped, ReadTyped
    <3>3. NoNewOwner
      BY <2>2, <2>3, <2>5, <3>1 DEF NoNewOwner, Owns, Holder, Holds
    <3>4. \A d \in Readers : ~Owns(d, k)'
      BY <2>7, <3>0, <3>3, FreeUnowned DEF NoNewOwner
    <3>5. ChangesUnowned
      BY <2>7, <3>0, <3>4 DEF ChangesUnowned, LockInv, LocksTyped
    <3>6. QED BY <3>2, <3>3, <3>5, OwnersKept
  <2>8. QED BY <2>6, <2>7 DEF RedisFails
<1>4. QED BY <1>2, <1>3 DEF RedisFails

\* Readers ask for keys, the same all the time.
LEMMA AskedForKeys == Spec => [](asked \subseteq Keys)
<1>1. Init => asked \subseteq Keys
  BY AdminAssumption DEF Init
<1>2. asked \subseteq Keys /\ [Next]_vars => (asked \subseteq Keys)'
  <2> SUFFICES ASSUME [Next]_vars PROVE UNCHANGED asked
    OBVIOUS
  <2>1. ASSUME NEW w \in Writers, Command(w) \/ Break(w) PROVE UNCHANGED asked
    BY <2>1
    DEF Command, Create, Put, Cut, Drop, Wipe, Insert, Replace, Change, See, Refused, DelKey,
        DelLock, Scan, DelFound, Break
  <2>2. ASSUME NEW w \in Writers, NEW o \in Operations[asked], Begin(w, o) PROVE UNCHANGED asked
    BY <2>2 DEF Begin
  <2>3. QED
    BY <2>1, <2>2 DEF Next, ReaderStep, WaitEnds, ValueLapses, OnCache, adminVars, vars
<1>3. QED BY <1>1, <1>2, PTL DEF Spec

\* What happens to readers and keys keeps the invariant.
LEMMA HappeningKeeps ==
  ASSUME LockInv, asked \subseteq Keys, Happening
  PROVE  LockInv'
<1>1. ASSUME NEW c \in Readers, RedisFails(c) PROVE LockInv'
  BY <1>1, RedisFailsKeeps
<1>2. ASSUME NEW c \in Readers, ReaderDies(c) PROVE LockInv'
  BY <1>2, ReturnKeeps DEF ReaderDies
<1>3. ASSUME NEW c \in Readers, NEW k \in Keys, Miss(c, k) \/ ReadFails(c, k) PROVE LockInv'
  BY <1>3, MissKeeps DEF Miss, ReadFails
<1>4. ASSUME NEW k \in Keys, LockLapses(k) PROVE LockInv'
  <2>1. lock' = [j \in Keys |-> IF j \in {k} THEN None ELSE lock[j]]
    BY <1>4 DEF LockLapses, LockInv, LocksTyped
  <2>2. lost' = lost \cup UNION {HoldersOf(j) : j \in {k}} /\ read' = read
    BY <1>4 DEF LockLapses
  <2>3. QED BY <2>1, <2>2, UnlockKeeps
<1>5. QED BY <1>1, <1>2, <1>3, <1>4 DEF Happening

LEMMA LocksKept == Spec => []LockInv
<1>1. Init => LockInv
  <2> SUFFICES ASSUME Init PROVE LockInv
    OBVIOUS
  <2>1. ReadTyped(NotReading)
    BY DEF ReadTyped, NotReading
  <2>2. \A c \in Readers : read[c] = NotReading
    BY DEF Init, CacheInit
  <2>3. LocksTyped
    BY <2>1, <2>2 DEF Init, CacheInit, LocksTyped
  <2>4. \A c \in Readers, k \in Keys : ~Holder(c, k)
    BY <2>2 DEF Holder, Holds, NotReading
  <2>5. QED BY <2>3, <2>4 DEF LockInv, OwnersMark, HoldersAlone, HoldersOf, Owns
<1>2. LockInv /\ asked \subseteq Keys /\ [Next]_vars => LockInv'
  <2> SUFFICES ASSUME LockInv, asked \subseteq Keys, [Next]_vars PROVE LockInv'
    OBVIOUS
  <2>1. ASSUME NEW c \in Readers, ReaderStep(c) \/ WaitEnds(c) PROVE LockInv'
    BY <2>1, ReaderKeeps
  <2>2. ASSUME NEW k \in Keys, ValueLapses(k) PROVE LockInv'
    BY <2>2, NothingKeeps DEF ValueLapses, Lapse
  <2>3. CASE Happening
    BY <2>3, HappeningKeeps
  <2>4. ASSUME NEW w \in Writers, Command(w) \/ Break(w) PROVE LockInv'
    BY <2>4, CommandKeeps
  <2>5. ASSUME NEW w \in Writers, NEW o \in Operations[asked], Begin(w, o) PROVE LockInv'
    BY <2>5, NothingKeeps DEF Begin, cacheVars
  <2>6. CASE UNCHANGED vars
    BY <2>6, NothingKeeps DEF vars, cacheVars
  <2>7. QED BY <2>1, <2>2, <2>3, <2>4, <2>5, <2>6 DEF Next
<1>3. QED BY <1>1, <1>2, AskedForKeys, PTL DEF Spec

\* Two readers have the lock of a key only if one of them was deprived of it, by its
\* lapse, an invalidation or a reader with the same lock value: for any readers and keys.
THEOREM LockHeldAlone == Spec => []HoldersAlone
<1>1. LockInv => HoldersAlone
  BY DEF LockInv
<1>2. QED BY <1>1, LocksKept, PTL

-----------------------------------------------------------------------------
(***************************************************************************)
(* What operations on roles, users and categories leave behind.            *)
(***************************************************************************)
Clearing == {"del", "scanList", "scanName"}

KeyCommands == [cmd : Clearing \cup {"unlock", "delFound"}, keys : SUBSET Keys]

RowCommands ==
  [cmd : {"create", "put", "cut", "drop", "wipe", "insert", "see", "replace"}, cell : Cells]

\* Commands on keys in which what a SCAN finds is deleted next.
KeyLists ==
  {t \in Seq(KeyCommands) :
     \A i \in 1..Len(t) : t[i].cmd \in {"scanList", "scanName"} =>
       i + 1 \in 1..Len(t) /\ t[i + 1].cmd = "delFound"}

Clears(t, k) == \E i \in 1..Len(t) : t[i].cmd \in Clearing /\ k \in t[i].keys

OperationNames ==
  {"createRole", "updateRole", "deleteRole", "assignPermissions", "removePermission", "signUp",
   "createUser", "updateUser", "deleteUser", "assignRoles", "removeRole", "createCategory",
   "updateCategory", "deleteCategory"}

-----------------------------------------------------------------------------
(***************************************************************************)
(* Lists of commands.                                                      *)
(***************************************************************************)
LEMMA ListsJoin ==
  ASSUME NEW s \in KeyLists, NEW t \in KeyLists
  PROVE  /\ s \o t \in KeyLists
         /\ \A k : Clears(s \o t, k) <=> Clears(s, k) \/ Clears(t, k)
<1>1. s \in Seq(KeyCommands) /\ t \in Seq(KeyCommands)
  BY DEF KeyLists
<1>2. /\ s \o t \in Seq(KeyCommands)
      /\ Len(s \o t) = Len(s) + Len(t) /\ Len(s) \in Nat /\ Len(t) \in Nat
      /\ \A i \in 1..Len(s) : (s \o t)[i] = s[i]
      /\ \A i \in 1..Len(t) : (s \o t)[i + Len(s)] = t[i]
  BY <1>1, ConcatProperties, LenProperties
<1>3. ASSUME NEW i \in 1..Len(s \o t)
      PROVE  i \in 1..Len(s) \/ (i - Len(s) \in 1..Len(t) /\ (s \o t)[i] = t[i - Len(s)])
  BY <1>2
<1>4. ASSUME NEW i \in 1..Len(s \o t), (s \o t)[i].cmd \in {"scanList", "scanName"}
      PROVE  i + 1 \in 1..Len(s \o t) /\ (s \o t)[i + 1].cmd = "delFound"
  <2>1. CASE i \in 1..Len(s)
    BY <1>2, <1>4, <2>1 DEF KeyLists
  <2>2. CASE i - Len(s) \in 1..Len(t) /\ (s \o t)[i] = t[i - Len(s)]
    <3>1. i - Len(s) + 1 \in 1..Len(t) /\ t[i - Len(s) + 1].cmd = "delFound"
      BY <1>4, <2>2 DEF KeyLists
    <3>2. (s \o t)[i - Len(s) + 1 + Len(s)] = t[i - Len(s) + 1]
      BY <1>2, <3>1
    <3>3. i - Len(s) + 1 + Len(s) = i + 1
      BY <1>2
    <3>4. QED BY <1>2, <3>1, <3>2, <3>3
  <2>3. QED BY <1>3, <2>1, <2>2
<1>5. s \o t \in KeyLists
  BY <1>2, <1>4 DEF KeyLists
<1>6. ASSUME NEW k, Clears(s \o t, k) PROVE Clears(s, k) \/ Clears(t, k)
  BY <1>2, <1>3, <1>6 DEF Clears
<1>7. ASSUME NEW k, Clears(s, k) PROVE Clears(s \o t, k)
  BY <1>2, <1>7 DEF Clears
<1>8. ASSUME NEW k, Clears(t, k) PROVE Clears(s \o t, k)
  <2>1. PICK i \in 1..Len(t) : t[i].cmd \in Clearing /\ k \in t[i].keys
    BY <1>8 DEF Clears
  <2>2. i + Len(s) \in 1..Len(s \o t) /\ (s \o t)[i + Len(s)] = t[i]
    BY <1>2
  <2>3. QED BY <2>1, <2>2 DEF Clears
<1>9. QED BY <1>5, <1>6, <1>7, <1>8

\* The commands on one key.
LEMMA KeyCleared ==
  ASSUME asked \subseteq Keys, NEW k
  PROVE  /\ Clear(k) \in KeyLists /\ ClearList(k) \in KeyLists /\ ClearName(k) \in KeyLists
         /\ <<>> \in KeyLists
         /\ \A j : Clears(Clear(k), j) <=> j = k /\ k \in asked
         /\ \A j : Clears(ClearList(k), j) <=> j = k /\ k \in asked
         /\ \A j : Clears(ClearName(k), j) <=> j = k /\ k \in asked
         /\ \A j : ~Clears(<<>>, j)
<1>1. <<>> \in KeyLists /\ \A j : ~Clears(<<>>, j)
  BY DEF KeyLists, Clears
<1>2. ASSUME NEW a \in Clearing, NEW b \in {"unlock", "delFound"}, k \in asked,
             a = "del" \/ b = "delFound"
      PROVE  /\ <<OnKeys(a, {k}), OnKeys(b, {k})>> \in KeyLists
             /\ \A j : Clears(<<OnKeys(a, {k}), OnKeys(b, {k})>>, j) <=> j = k
  <2> DEFINE x == OnKeys(a, {k})
             y == OnKeys(b, {k})
  <2>1. /\ x \in KeyCommands /\ x.cmd = a /\ x.keys = {k}
        /\ y \in KeyCommands /\ y.cmd = b /\ y.keys = {k}
    BY <1>2 DEF OnKeys, KeyCommands, Clearing
  <2> HIDE DEF x, y
  <2>2. /\ <<x, y>> \in Seq(KeyCommands) /\ Len(<<x, y>>) = 2
        /\ <<x, y>>[1] = x /\ <<x, y>>[2] = y
    BY <2>1
  <2>3. <<x, y>> \in KeyLists
    BY <1>2, <2>1, <2>2 DEF KeyLists, Clearing
  <2>4. \A j : Clears(<<x, y>>, j) <=> j = k
    BY <2>1, <2>2 DEF Clears, Clearing
  <2>5. QED BY <2>3, <2>4 DEF x, y
<1>3. CASE k \in asked
  BY <1>1, <1>2, <1>3 DEF Clear, ClearList, ClearName, IfAsked, Clearing
<1>4. CASE k \notin asked
  BY <1>1, <1>4 DEF Clear, ClearList, ClearName, IfAsked
<1>5. QED BY <1>3, <1>4

\* What each operation clears: the keys of its service, if they are asked for.
LEMMA CachesAre ==
  ASSUME asked \subseteq Keys, NEW o \in OperationNames
  PROVE  /\ CachesOf(o) \in KeyLists
         /\ \A k \in asked :
              Clears(CachesOf(o), k) <=>
                \/ /\ o \in {"updateRole", "deleteRole", "assignPermissions", "removePermission"}
                   /\ k \in {"role", "roles"}
                \/ o = "createRole" /\ k = "roles"
                \/ o = "createUser" /\ k = "users"
                \/ o \in {"updateUser", "deleteUser", "removeRole"} /\ k \in {"user", "users"}
                \/ o = "assignRoles" /\ k \in {"user", "users", "userRoles"}
                \/ o = "createCategory" /\ k \in {"categories", "ids"}
                \/ o = "updateCategory" /\ k \in {"category", "categories"}
                \/ o = "deleteCategory" /\ k \in {"category", "categories", "ids"}
<1>1. /\ RoleChanged \in KeyLists
      /\ \A k \in asked : Clears(RoleChanged, k) <=> k \in {"role", "roles"}
  BY KeyCleared, ListsJoin DEF RoleChanged
<1>2. /\ UserChanged \in KeyLists
      /\ \A k \in asked : Clears(UserChanged, k) <=> k \in {"user", "users"}
  BY KeyCleared, ListsJoin DEF UserChanged
<1>3. /\ CategoryChanged \in KeyLists
      /\ \A k \in asked : Clears(CategoryChanged, k) <=> k \in {"category", "categories"}
  BY KeyCleared, ListsJoin DEF CategoryChanged
<1>4. CASE o \in {"updateRole", "deleteRole", "assignPermissions", "removePermission"}
  <2>1. CachesOf(o) = RoleChanged
    BY <1>4 DEF CachesOf
  <2>2. QED BY <1>1, <1>4, <2>1
<1>5. CASE o \in {"updateUser", "deleteUser", "removeRole"}
  <2>1. CachesOf(o) = UserChanged
    BY <1>5 DEF CachesOf
  <2>2. QED BY <1>2, <1>5, <2>1
<1>6. CASE o = "updateCategory"
  <2>1. CachesOf(o) = CategoryChanged
    BY <1>6 DEF CachesOf
  <2>2. QED BY <1>3, <1>6, <2>1
<1>7. CASE o = "assignRoles"
  <2>1. CachesOf(o) = UserChanged \o ClearName("userRoles")
    BY <1>7 DEF CachesOf
  <2>2. /\ ClearName("userRoles") \in KeyLists
        /\ \A k \in asked : Clears(ClearName("userRoles"), k) <=> k = "userRoles"
    BY KeyCleared
  <2>3. /\ CachesOf(o) \in KeyLists
        /\ \A k : Clears(CachesOf(o), k) <=> Clears(UserChanged, k) \/ Clears(ClearName("userRoles"), k)
    BY <1>2, <2>1, <2>2, ListsJoin
  <2>4. QED BY <1>2, <1>7, <2>2, <2>3
<1>8. CASE o = "createCategory"
  <2>1. CachesOf(o) = ClearList("categories") \o Clear("ids")
    BY <1>8 DEF CachesOf
  <2>2. /\ ClearList("categories") \in KeyLists /\ Clear("ids") \in KeyLists
        /\ \A k \in asked : Clears(ClearList("categories"), k) <=> k = "categories"
        /\ \A k \in asked : Clears(Clear("ids"), k) <=> k = "ids"
    BY KeyCleared
  <2>3. /\ CachesOf(o) \in KeyLists
        /\ \A k : Clears(CachesOf(o), k) <=> Clears(ClearList("categories"), k) \/ Clears(Clear("ids"), k)
    BY <2>1, <2>2, ListsJoin
  <2>4. QED BY <1>8, <2>2, <2>3
<1>9. CASE o = "deleteCategory"
  <2>1. CachesOf(o) = CategoryChanged \o Clear("ids")
    BY <1>9 DEF CachesOf
  <2>2. /\ Clear("ids") \in KeyLists
        /\ \A k \in asked : Clears(Clear("ids"), k) <=> k = "ids"
    BY KeyCleared
  <2>3. /\ CachesOf(o) \in KeyLists
        /\ \A k : Clears(CachesOf(o), k) <=> Clears(CategoryChanged, k) \/ Clears(Clear("ids"), k)
    BY <1>3, <2>1, <2>2, ListsJoin
  <2>4. QED BY <1>3, <1>9, <2>2, <2>3
<1>10. CASE o = "createRole"
  <2>1. CachesOf(o) = ClearList("roles")
    BY <1>10 DEF CachesOf
  <2>2. QED BY <1>10, <2>1, KeyCleared
<1>11. CASE o = "createUser"
  <2>1. CachesOf(o) = ClearList("users")
    BY <1>11 DEF CachesOf
  <2>2. QED BY <1>11, <2>1, KeyCleared
<1>12. CASE o = "signUp"
  <2>1. CachesOf(o) = <<>>
    BY <1>12 DEF CachesOf
  <2>2. QED BY <1>12, <2>1, KeyCleared
<1>13. QED
  BY <1>4, <1>5, <1>6, <1>7, <1>8, <1>9, <1>10, <1>11, <1>12 DEF OperationNames

\* One command on a row, then commands on keys.
LEMMA RowThenKeys ==
  ASSUME NEW x \in RowCommands, NEW c \in KeyLists
  PROVE  /\ <<x>> \o c # <<>> /\ Head(<<x>> \o c) = x /\ Tail(<<x>> \o c) = c
         /\ Len(<<x>> \o c) = Len(c) + 1 /\ DOMAIN (<<x>> \o c) = 1..Len(c) + 1
         /\ (<<x>> \o c)[1] = x /\ \A i \in 1..Len(c) : (<<x>> \o c)[i + 1] = c[i]
         /\ Len(<<x>> \o c) = 1 => c = <<>>
         /\ Len(<<x>> \o c) > 1 => "cell" \notin DOMAIN (<<x>> \o c)[2]
<1> DEFINE C == RowCommands \cup KeyCommands
           t == <<x>> \o c
<1>1. c \in Seq(C) /\ <<x>> \in Seq(C) /\ c \in Seq(KeyCommands) /\ Len(c) \in Nat
  BY DEF KeyLists
<1>2. /\ t \in Seq(C) /\ Len(t) = Len(c) + 1
      /\ t[1] = x /\ \A i \in 1..Len(c) : t[i + 1] = c[i]
  <2>1. Len(<<x>>) = 1 /\ <<x>>[1] = x
    OBVIOUS
  <2>2. \A i \in 1..1 + Len(c) : t[i] = IF i <= 1 THEN <<x>>[i] ELSE c[i - 1]
    BY <1>1, <2>1, ConcatProperties
  <2>3. t \in Seq(C) /\ Len(t) = 1 + Len(c)
    BY <1>1, <2>1, ConcatProperties
  <2>4. QED BY <1>1, <2>1, <2>2, <2>3
<1>3. t # <<>> /\ Head(t) = x /\ DOMAIN t = 1..Len(c) + 1
  BY <1>1, <1>2
<1>4. Tail(t) = c
  <2>1. /\ Tail(t) \in Seq(C) /\ Len(Tail(t)) = Len(c)
        /\ \A i \in 1..Len(Tail(t)) : Tail(t)[i] = t[i + 1]
    BY <1>1, <1>2, <1>3, HeadTailProperties
  <2>2. \A i \in 1..Len(c) : Tail(t)[i] = c[i]
    BY <1>2, <2>1
  <2>3. QED BY <1>1, <2>1, <2>2, SeqEqual
<1>5. Len(t) = 1 => c = <<>>
  BY <1>1, <1>2
<1>6. ASSUME Len(t) > 1 PROVE "cell" \notin DOMAIN t[2]
  <2>1. t[2] = c[1] /\ c[1] \in KeyCommands
    BY <1>1, <1>2, <1>6
  <2>2. DOMAIN c[1] = {"cmd", "keys"}
    BY <2>1 DEF KeyCommands
  <2>3. "cell" \notin DOMAIN c[1]
    BY <2>2
  <2>4. QED BY <2>1, <2>3, Zenon
<1>7. QED BY <1>2, <1>3, <1>4, <1>5, <1>6

\* Two commands on rows, then commands on keys.
LEMMA RowsThenKeys ==
  ASSUME NEW x \in RowCommands, NEW y \in RowCommands, NEW c \in KeyLists
  PROVE  /\ <<x, y>> \o c # <<>> /\ Head(<<x, y>> \o c) = x /\ Tail(<<x, y>> \o c) = <<y>> \o c
         /\ Len(<<x, y>> \o c) = Len(c) + 2 /\ DOMAIN (<<x, y>> \o c) = 1..Len(c) + 2
         /\ (<<x, y>> \o c)[1] = x /\ (<<x, y>> \o c)[2] = y
         /\ \A i \in 1..Len(c) : (<<x, y>> \o c)[i + 2] = c[i]
         /\ Len(<<x, y>> \o c) > 1 /\ "cell" \in DOMAIN (<<x, y>> \o c)[2]
<1> DEFINE C == RowCommands \cup KeyCommands
           t == <<x, y>> \o c
<1>1. c \in Seq(C) /\ <<x, y>> \in Seq(C) /\ <<y>> \in Seq(C) /\ Len(c) \in Nat
  BY DEF KeyLists
<1>2. /\ t \in Seq(C) /\ Len(t) = Len(c) + 2
      /\ t[1] = x /\ t[2] = y /\ \A i \in 1..Len(c) : t[i + 2] = c[i]
  <2>1. Len(<<x, y>>) = 2 /\ <<x, y>>[1] = x /\ <<x, y>>[2] = y
    OBVIOUS
  <2>2. \A i \in 1..2 + Len(c) : t[i] = IF i <= 2 THEN <<x, y>>[i] ELSE c[i - 2]
    BY <1>1, <2>1, ConcatProperties
  <2>3. t \in Seq(C) /\ Len(t) = 2 + Len(c)
    BY <1>1, <2>1, ConcatProperties
  <2>4. QED BY <1>1, <2>1, <2>2, <2>3
<1>3. t # <<>> /\ Head(t) = x /\ DOMAIN t = 1..Len(c) + 2 /\ Len(t) > 1
  BY <1>1, <1>2
<1>4. Tail(t) = <<y>> \o c
  <2>1. /\ Tail(t) \in Seq(C) /\ Len(Tail(t)) = Len(c) + 1
        /\ \A i \in 1..Len(Tail(t)) : Tail(t)[i] = t[i + 1]
    BY <1>1, <1>2, <1>3, HeadTailProperties
  <2>2. /\ Len(<<y>> \o c) = Len(c) + 1 /\ <<y>> \o c \in Seq(C)
        /\ (<<y>> \o c)[1] = y /\ \A i \in 1..Len(c) : (<<y>> \o c)[i + 1] = c[i]
    BY <1>1, RowThenKeys, ConcatProperties
  <2>3. ASSUME NEW i \in 1..Len(c) + 1 PROVE Tail(t)[i] = (<<y>> \o c)[i]
    <3>1. CASE i = 1
      BY <1>1, <1>2, <2>1, <2>2, <3>1
    <3>2. ASSUME NEW j \in 1..Len(c), i = j + 1 PROVE Tail(t)[i] = (<<y>> \o c)[i]
      <4>1. j + 2 = i + 1
        BY <3>2
      <4>2. QED BY <1>1, <1>2, <2>1, <2>2, <3>2, <4>1
    <3>3. i = 1 \/ (i - 1 \in 1..Len(c) /\ i = (i - 1) + 1)
      BY <1>1
    <3>4. QED BY <3>1, <3>2, <3>3
  <2>4. QED BY <1>1, <2>1, <2>2, <2>3, SeqEqual
<1>5. "cell" \in DOMAIN t[2]
  BY <1>2 DEF RowCommands
<1>6. QED BY <1>2, <1>3, <1>4, <1>5

-----------------------------------------------------------------------------
(***************************************************************************)
(* Where an operation is.                                                  *)
(***************************************************************************)

\* Operations with a second command on the rows of their cell.
TwoSteps == {"createRole", "updateRole", "assignPermissions", "assignRoles"}

FirstOf(o) == DatabaseOf(o)[1]

SecondOf(o) ==
  OnRow(IF o \in {"createRole", "assignPermissions"} THEN "insert" ELSE "replace", CellOf(o))

LEMMA DatabaseIs ==
  ASSUME NEW o \in OperationNames
  PROVE  /\ FirstOf(o) \in RowCommands /\ SecondOf(o) \in RowCommands
         /\ DatabaseOf(o) = IF o \in TwoSteps THEN <<FirstOf(o), SecondOf(o)>> ELSE <<FirstOf(o)>>
         /\ FirstOf(o).cell = CellOf(o) /\ SecondOf(o).cell = CellOf(o)
         /\ FirstOf(o).cmd =
              CASE o \in {"createRole", "signUp", "createUser", "createCategory"} -> "create"
                [] o \in {"updateUser", "updateCategory"} -> "put"
                [] o \in {"removePermission", "removeRole"} -> "cut"
                [] o \in {"deleteRole", "deleteUser", "deleteCategory"} -> "drop"
                [] o = "assignPermissions" -> "wipe"
                [] o \in {"updateRole", "assignRoles"} -> "see"
         /\ SecondOf(o).cmd = IF o \in {"createRole", "assignPermissions"} THEN "insert" ELSE "replace"
         /\ CellOf(o) =
              CASE o \in {"createRole", "updateRole", "deleteRole", "assignPermissions",
                          "removePermission"} -> "permissions"
                [] o \in {"signUp", "createUser", "updateUser", "deleteUser"} -> "profile"
                [] o \in {"assignRoles", "removeRole"} -> "grants"
                [] o \in {"createCategory", "updateCategory", "deleteCategory"} -> "category"
<1>1. CellOf(o) =
        CASE o \in {"createRole", "updateRole", "deleteRole", "assignPermissions",
                    "removePermission"} -> "permissions"
          [] o \in {"signUp", "createUser", "updateUser", "deleteUser"} -> "profile"
          [] o \in {"assignRoles", "removeRole"} -> "grants"
          [] o \in {"createCategory", "updateCategory", "deleteCategory"} -> "category"
  BY DEF OperationNames, DatabaseOf, CellOf, OnRow, UpdateRole, AssignPermissions
<1>2. FirstOf(o).cmd =
        CASE o \in {"createRole", "signUp", "createUser", "createCategory"} -> "create"
          [] o \in {"updateUser", "updateCategory"} -> "put"
          [] o \in {"removePermission", "removeRole"} -> "cut"
          [] o \in {"deleteRole", "deleteUser", "deleteCategory"} -> "drop"
          [] o = "assignPermissions" -> "wipe"
          [] o \in {"updateRole", "assignRoles"} -> "see"
  BY DEF OperationNames, FirstOf, DatabaseOf, OnRow, UpdateRole, AssignPermissions
<1>3. FirstOf(o) = OnRow(FirstOf(o).cmd, CellOf(o))
  BY DEF OperationNames, FirstOf, DatabaseOf, CellOf, OnRow, UpdateRole, AssignPermissions
<1>4. /\ FirstOf(o).cell = CellOf(o) /\ SecondOf(o).cell = CellOf(o)
      /\ SecondOf(o).cmd = IF o \in {"createRole", "assignPermissions"} THEN "insert" ELSE "replace"
  BY <1>3 DEF SecondOf, OnRow
<1>5. CellOf(o) \in Cells
  BY <1>1 DEF OperationNames, Cells
<1>6. FirstOf(o) \in RowCommands
  <2>1. FirstOf(o).cmd \in {"create", "put", "cut", "drop", "wipe", "see"}
    BY <1>2 DEF OperationNames
  <2>2. QED BY <1>3, <1>5, <2>1 DEF RowCommands, OnRow
<1>7. SecondOf(o) \in RowCommands
  BY <1>5 DEF RowCommands, SecondOf, OnRow
<1>8. ASSUME o \in TwoSteps PROVE DatabaseOf(o) = <<FirstOf(o), SecondOf(o)>>
  BY <1>8 DEF FirstOf, SecondOf, DatabaseOf, CellOf, TwoSteps, OnRow, UpdateRole, AssignPermissions
<1>9. ASSUME o \notin TwoSteps PROVE DatabaseOf(o) = <<FirstOf(o)>>
  BY <1>9 DEF OperationNames, FirstOf, DatabaseOf, TwoSteps, OnRow
<1>10. QED BY <1>1, <1>2, <1>4, <1>6, <1>7, <1>8, <1>9

First(r) == r.op \in OperationNames /\ r.todo = DatabaseOf(r.op) \o CachesOf(r.op)

Second(r) == r.op \in TwoSteps /\ r.todo = <<SecondOf(r.op)>> \o CachesOf(r.op)

WriteOK(r) ==
  /\ r = [op |-> r.op, number |-> r.number, todo |-> r.todo, seen |-> r.seen, row |-> r.row,
          found |-> r.found, locks |-> r.locks]
  /\ r.todo \in KeyLists \/ First(r) \/ Second(r)
  /\ r.row # Gone => r.op = "assignRoles"

\* An operation that differs in what it has read at most.
Like(k, r) ==
  /\ k = [op |-> r.op, number |-> r.number, todo |-> r.todo, seen |-> k.seen, row |-> k.row,
          found |-> r.found, locks |-> r.locks]
  /\ k.row \in {r.row, Gone}

WritesOK ==
  /\ asked \in KeySets /\ asked \subseteq Keys
  /\ DOMAIN write = Writers
  /\ \A w \in Writers : WriteOK(write[w])

\* What is left to clear, by what an operation has left to do.
ToClearOf(r) ==
  (IF r.todo # <<>> /\ Head(r.todo).cmd = "delFound" THEN r.found ELSE {})
    \cup UNION {r.todo[i].keys : i \in {i \in DOMAIN r.todo : r.todo[i].cmd \in Clearing}}

LEMMA KeysToClear ==
  ASSUME NEW r, r.todo \in KeyLists
  PROVE  /\ r.todo # <<>> => Head(r.todo) = r.todo[1] /\ Head(r.todo) \in KeyCommands
         /\ \A k : k \in ToClearOf(r) <=>
              Clears(r.todo, k) \/ (r.todo # <<>> /\ Head(r.todo).cmd = "delFound" /\ k \in r.found)
<1> DEFINE ahead == UNION {r.todo[i].keys : i \in {i \in DOMAIN r.todo : r.todo[i].cmd \in Clearing}}
           here == r.todo # <<>> /\ Head(r.todo).cmd = "delFound"
<1>1. DOMAIN r.todo = 1..Len(r.todo) /\ r.todo \in Seq(KeyCommands) /\ Len(r.todo) \in Nat
  BY DEF KeyLists
<1>2. r.todo # <<>> => Head(r.todo) = r.todo[1] /\ Head(r.todo) \in KeyCommands
  BY <1>1
<1>3. \A k : Clears(r.todo, k) <=> k \in ahead
  BY <1>1, Zenon DEF Clears
<1>4. ToClearOf(r) = (IF here THEN r.found ELSE {}) \cup ahead
  BY Zenon DEF ToClearOf
<1> HIDE DEF ahead, here
<1>5. \A k : k \in ToClearOf(r) <=> Clears(r.todo, k) \/ (here /\ k \in r.found)
  BY <1>3, <1>4
<1>6. QED BY <1>2, <1>5, Zenon DEF here

LEMMA RowToClear ==
  ASSUME NEW r, NEW x \in RowCommands, NEW c \in KeyLists, r.todo = <<x>> \o c
  PROVE  \A k : k \in ToClearOf(r) <=> Clears(c, k)
<1>1. /\ x.cmd \notin Clearing /\ x.cmd # "delFound" /\ Len(c) \in Nat
  BY DEF RowCommands, Clearing, KeyLists
<1>2. /\ DOMAIN r.todo = 1..Len(c) + 1 /\ r.todo[1] = x /\ Head(r.todo) = x
      /\ \A i \in 1..Len(c) : r.todo[i + 1] = c[i]
  BY RowThenKeys
<1>3. ASSUME NEW k, k \in ToClearOf(r) PROVE Clears(c, k)
  <2>1. PICK i \in 1..Len(c) + 1 : r.todo[i].cmd \in Clearing /\ k \in r.todo[i].keys
    BY <1>1, <1>2, <1>3 DEF ToClearOf
  <2>2. i # 1
    BY <1>1, <1>2, <2>1
  <2>3. i - 1 \in 1..Len(c) /\ i = (i - 1) + 1
    BY <1>1, <2>2
  <2>4. QED BY <1>2, <2>1, <2>3 DEF Clears
<1>4. ASSUME NEW k, Clears(c, k) PROVE k \in ToClearOf(r)
  <2>1. PICK i \in 1..Len(c) : c[i].cmd \in Clearing /\ k \in c[i].keys
    BY <1>4 DEF Clears
  <2>2. i + 1 \in DOMAIN r.todo /\ r.todo[i + 1] = c[i]
    BY <1>1, <1>2
  <2>3. QED BY <2>1, <2>2 DEF ToClearOf
<1>5. QED BY <1>3, <1>4

LEMMA RowsToClear ==
  ASSUME NEW r, NEW x \in RowCommands, NEW y \in RowCommands, NEW c \in KeyLists,
         r.todo = <<x, y>> \o c
  PROVE  \A k : k \in ToClearOf(r) <=> Clears(c, k)
<1>1. /\ x.cmd \notin Clearing /\ x.cmd # "delFound" /\ y.cmd \notin Clearing /\ Len(c) \in Nat
  BY DEF RowCommands, Clearing, KeyLists
<1>2. /\ DOMAIN r.todo = 1..Len(c) + 2 /\ r.todo[1] = x /\ Head(r.todo) = x /\ r.todo[2] = y
      /\ \A i \in 1..Len(c) : r.todo[i + 2] = c[i]
  BY RowsThenKeys
<1>3. ASSUME NEW k, k \in ToClearOf(r) PROVE Clears(c, k)
  <2>1. PICK i \in 1..Len(c) + 2 : r.todo[i].cmd \in Clearing /\ k \in r.todo[i].keys
    BY <1>1, <1>2, <1>3 DEF ToClearOf
  <2>2. i # 1 /\ i # 2
    BY <1>1, <1>2, <2>1
  <2>3. i - 2 \in 1..Len(c) /\ i = (i - 2) + 2
    BY <1>1, <2>2
  <2>4. QED BY <1>2, <2>1, <2>3 DEF Clears
<1>4. ASSUME NEW k, Clears(c, k) PROVE k \in ToClearOf(r)
  <2>1. PICK i \in 1..Len(c) : c[i].cmd \in Clearing /\ k \in c[i].keys
    BY <1>4 DEF Clears
  <2>2. i + 2 \in DOMAIN r.todo /\ r.todo[i + 2] = c[i]
    BY <1>1, <1>2
  <2>3. QED BY <2>1, <2>2 DEF ToClearOf
<1>5. QED BY <1>3, <1>4

\* An operation at its first command has yet to clear what it ever clears ...
LEMMA AtFirst ==
  ASSUME asked \subseteq Keys, NEW r, First(r)
  PROVE  /\ r.todo # <<>> /\ Head(r.todo) = FirstOf(r.op)
         /\ \A k : k \in ToClearOf(r) <=> Clears(CachesOf(r.op), k)
         /\ r.op \in TwoSteps =>
              /\ Tail(r.todo) = <<SecondOf(r.op)>> \o CachesOf(r.op)
              /\ Len(r.todo) > 1 /\ "cell" \in DOMAIN r.todo[2]
         /\ r.op \notin TwoSteps =>
              /\ Tail(r.todo) = CachesOf(r.op)
              /\ Len(r.todo) = 1 => CachesOf(r.op) = <<>>
              /\ Len(r.todo) > 1 => "cell" \notin DOMAIN r.todo[2]
<1> DEFINE o == r.op
<1>1. o \in OperationNames /\ r.todo = DatabaseOf(o) \o CachesOf(o) /\ CachesOf(o) \in KeyLists
  BY CachesAre DEF First
<1>2. PICK x, y, c : x = FirstOf(o) /\ y = SecondOf(o) /\ c = CachesOf(o)
  OBVIOUS
<1>3. x \in RowCommands /\ y \in RowCommands /\ c \in KeyLists
  BY <1>1, <1>2, DatabaseIs
<1>4. CASE o \in TwoSteps
  <2>1. r.todo = <<x, y>> \o c
    BY <1>1, <1>2, <1>4, DatabaseIs
  <2>2. /\ r.todo # <<>> /\ Head(r.todo) = x /\ Tail(r.todo) = <<y>> \o c
        /\ Len(r.todo) > 1 /\ "cell" \in DOMAIN r.todo[2]
    <3>1. /\ <<x, y>> \o c # <<>> /\ Head(<<x, y>> \o c) = x /\ Tail(<<x, y>> \o c) = <<y>> \o c
          /\ Len(<<x, y>> \o c) > 1 /\ "cell" \in DOMAIN (<<x, y>> \o c)[2]
      BY <1>3, RowsThenKeys
    <3>2. QED BY <2>1, <3>1, Zenon
  <2>3. \A k : k \in ToClearOf(r) <=> Clears(c, k)
    BY <1>3, <2>1, RowsToClear
  <2>4. QED BY <1>2, <1>4, <2>2, <2>3, Zenon
<1>5. CASE o \notin TwoSteps
  <2>1. r.todo = <<x>> \o c
    BY <1>1, <1>2, <1>5, DatabaseIs
  <2>2. /\ r.todo # <<>> /\ Head(r.todo) = x /\ Tail(r.todo) = c
        /\ Len(r.todo) = 1 => c = <<>>
        /\ Len(r.todo) > 1 => "cell" \notin DOMAIN r.todo[2]
    <3>1. PICK t : t = <<x>> \o c
      OBVIOUS
    <3>2. /\ t # <<>> /\ Head(t) = x /\ Tail(t) = c
          /\ Len(t) = 1 => c = <<>>
          /\ Len(t) > 1 => "cell" \notin DOMAIN t[2]
      BY <1>3, <3>1, RowThenKeys, Zenon
    <3>3. QED BY <2>1, <3>1, <3>2
  <2>3. \A k : k \in ToClearOf(r) <=> Clears(c, k)
    BY <1>3, <2>1, RowToClear
  <2>4. QED BY <1>2, <1>5, <2>2, <2>3, Zenon
<1>6. QED BY <1>4, <1>5

\* ... and so has one at its second.
LEMMA AtSecond ==
  ASSUME asked \subseteq Keys, NEW r, Second(r)
  PROVE  /\ r.op \in OperationNames /\ r.todo # <<>> /\ Head(r.todo) = SecondOf(r.op)
         /\ \A k : k \in ToClearOf(r) <=> Clears(CachesOf(r.op), k)
         /\ Tail(r.todo) = CachesOf(r.op)
         /\ Len(r.todo) = 1 => CachesOf(r.op) = <<>>
         /\ Len(r.todo) > 1 => "cell" \notin DOMAIN r.todo[2]
<1>1. r.op \in OperationNames /\ CachesOf(r.op) \in KeyLists
  BY CachesAre DEF Second, TwoSteps, OperationNames
<1>2. PICK y, c : y = SecondOf(r.op) /\ c = CachesOf(r.op)
  OBVIOUS
<1>3. y \in RowCommands /\ c \in KeyLists /\ r.todo = <<y>> \o c
  BY <1>1, <1>2, DatabaseIs DEF Second
<1>4. QED BY <1>1, <1>2, <1>3, RowThenKeys, RowToClear

-----------------------------------------------------------------------------
(***************************************************************************)
(* Operations go on.                                                       *)
(***************************************************************************)
OnlyMoves(w) == DOMAIN write' = Writers /\ \A v \in Writers \ {w} : write'[v] = write[v]

LEMMA CachesStay ==
  ASSUME UNCHANGED asked, NEW o
  PROVE  CachesOf(o)' = CachesOf(o)
  BY DEF CachesOf, RoleChanged, UserChanged, CategoryChanged, Clear, ClearList, ClearName, IfAsked

\* Whoever changes to a state that is right leaves all in order.
LEMMA MoveOK ==
  ASSUME WritesOK, UNCHANGED asked, NEW w \in Writers, NEW r,
         write' = [write EXCEPT ![w] = r],
         r = [op |-> r.op, number |-> r.number, todo |-> r.todo, seen |-> r.seen, row |-> r.row,
              found |-> r.found, locks |-> r.locks],
         r.todo \in KeyLists \/ First(r) \/ Second(r),
         r.row # Gone => r.op = "assignRoles"
  PROVE  WritesOK' /\ OnlyMoves(w) /\ write'[w] = r
<1>0. asked' = asked
  OBVIOUS
<1>1. OnlyMoves(w) /\ write'[w] = r
  BY DEF WritesOK, OnlyMoves
<1>2. ASSUME NEW v \in Writers PROVE WriteOK(write'[v])
  BY <1>1 DEF WritesOK, WriteOK, OnlyMoves
<1>3. ASSUME NEW v \in Writers PROVE WriteOK(write[v])'
  <2>1. First(write'[v]) => First(write[v])'
    BY ONLY <1>0 DEF First, CachesOf, RoleChanged, UserChanged, CategoryChanged, Clear, ClearList, ClearName, IfAsked
  <2>2. Second(write'[v]) => Second(write[v])'
    BY ONLY <1>0, Zenon DEF Second, CachesOf, RoleChanged, UserChanged, CategoryChanged, Clear, ClearList, ClearName, IfAsked
  <2>3. QED BY <1>2, <2>1, <2>2 DEF WriteOK
<1>4. QED BY <1>1, <1>3 DEF WritesOK, OnlyMoves

LEMMA GiveUpOK ==
  ASSUME WritesOK, UNCHANGED asked, NEW w \in Writers, GiveUp(w)
  PROVE  WritesOK' /\ OnlyMoves(w) /\ write'[w] = NotWriting
<1>1. <<>> \in KeyLists
  BY KeyCleared DEF WritesOK
<1>2. /\ NotWriting.todo = <<>> /\ NotWriting.row = Gone
      /\ NotWriting = [op |-> NotWriting.op, number |-> NotWriting.number,
                       todo |-> NotWriting.todo, seen |-> NotWriting.seen,
                       row |-> NotWriting.row, found |-> NotWriting.found,
                       locks |-> NotWriting.locks]
  BY DEF NotWriting
<1>3. QED BY <1>1, <1>2, MoveOK DEF GiveUp

LEMMA MoveFirst ==
  ASSUME WritesOK, UNCHANGED asked, NEW w \in Writers, First(write[w]),
         NEW k, Like(k, write[w]), GoOn(w, k)
  PROVE  /\ WritesOK' /\ OnlyMoves(w)
         /\ write[w].op \in TwoSteps =>
              /\ Second(write'[w]) /\ write'[w].op = write[w].op
              /\ write'[w].seen = k.seen /\ write'[w].row = k.row
         /\ write[w].op \notin TwoSteps => write'[w].todo = CachesOf(write[w].op)
<1> DEFINE o == write[w].op
<1>1. PICK c : c = CachesOf(o)
  OBVIOUS
<1>2. c \in KeyLists /\ o \in OperationNames
  BY <1>1, CachesAre DEF WritesOK, First
<1>3. k = [op |-> o, number |-> write[w].number, todo |-> write[w].todo, seen |-> k.seen,
           row |-> k.row, found |-> write[w].found, locks |-> write[w].locks]
  BY DEF Like
<1>4. k.todo = write[w].todo /\ k.op = o
  BY <1>3
<1>r. k.row # Gone => o = "assignRoles"
  BY DEF WritesOK, WriteOK, Like
<1>5. CASE o \in TwoSteps
  <2>1. /\ Tail(k.todo) = <<SecondOf(o)>> \o c
        /\ Len(k.todo) > 1 /\ "cell" \in DOMAIN k.todo[2]
    BY <1>1, <1>4, <1>5, AtFirst DEF WritesOK
  <2>2. PICK r : r = [k EXCEPT !.todo = Tail(@)]
    OBVIOUS
  <2>3. Len(k.todo) # 1
    BY <2>1
  <2>4. write' = [write EXCEPT ![w] = r]
    BY <2>1, <2>2, <2>3 DEF GoOn
  <2>5. r = [op |-> o, number |-> write[w].number, todo |-> Tail(k.todo), seen |-> k.seen,
             row |-> k.row, found |-> write[w].found, locks |-> write[w].locks]
    <3>1. PICK t, m, d, a, b, f, l :
            /\ k = [op |-> m, number |-> d, todo |-> t, seen |-> a, row |-> b, found |-> f,
                    locks |-> l]
            /\ m = o /\ d = write[w].number /\ a = k.seen /\ b = k.row
            /\ f = write[w].found /\ l = write[w].locks
      BY <1>3, Zenon
    <3>2. PICK u : u = Tail(k.todo)
      OBVIOUS
    <3>3. k = [op |-> m, number |-> d, todo |-> t, seen |-> a, row |-> b, found |-> f, locks |-> l]
      BY <3>1
    <3>4. [k EXCEPT !.todo = u] =
            [op |-> m, number |-> d, todo |-> u, seen |-> a, row |-> b, found |-> f, locks |-> l]
      BY ONLY <3>3
    <3>5. r = [k EXCEPT !.todo = u]
      BY <2>2, <3>2, Zenon
    <3>6. QED BY <3>1, <3>2, <3>4, <3>5, Zenon
  <2>6. r.op = o /\ r.todo = Tail(k.todo) /\ r.seen = k.seen /\ r.row = k.row
    BY <2>5
  <2>7. Second(r)
    BY <1>1, <1>5, <2>1, <2>6 DEF Second
  <2>8. r = [op |-> r.op, number |-> r.number, todo |-> r.todo, seen |-> r.seen, row |-> r.row,
             found |-> r.found, locks |-> r.locks]
    BY <2>5
  <2>9. WritesOK' /\ OnlyMoves(w) /\ write'[w] = r
    BY <1>r, <2>4, <2>6, <2>7, <2>8, MoveOK, Zenon
  <2>10. QED BY <1>5, <2>6, <2>7, <2>9, Zenon
<1>6. CASE o \notin TwoSteps
  <2>1. /\ Tail(k.todo) = c
        /\ Len(k.todo) = 1 => c = <<>>
        /\ Len(k.todo) > 1 => "cell" \notin DOMAIN k.todo[2]
    BY <1>1, <1>4, <1>6, AtFirst DEF WritesOK
  <2>2. PICK r : r = IF Len(k.todo) = 1 THEN NotWriting
                     ELSE [NotWriting EXCEPT !.todo = Tail(k.todo), !.found = k.found, !.locks = k.locks]
    OBVIOUS
  <2>3. write' = [write EXCEPT ![w] = r]
    BY <2>1, <2>2 DEF GoOn
  <2>4. /\ r = [op |-> r.op, number |-> r.number, todo |-> r.todo, seen |-> r.seen, row |-> r.row,
               found |-> r.found, locks |-> r.locks]
        /\ r.todo = c /\ r.row = Gone
    BY <2>1, <2>2 DEF NotWriting
  <2>5. WritesOK' /\ OnlyMoves(w) /\ write'[w] = r
    BY <1>2, <2>3, <2>4, MoveOK
  <2>6. QED BY <1>1, <1>6, <2>4, <2>5
<1>7. QED BY <1>5, <1>6

\* From the last command on rows, and from one on keys to the next.
LEMMA MoveOn ==
  ASSUME WritesOK, UNCHANGED asked, NEW w \in Writers,
         NEW c \in KeyLists, Tail(write[w].todo) = c,
         Len(write[w].todo) = 1 => c = <<>>,
         Len(write[w].todo) > 1 => "cell" \notin DOMAIN write[w].todo[2],
         NEW k, k.todo = write[w].todo, GoOn(w, k)
  PROVE  /\ WritesOK' /\ OnlyMoves(w) /\ write'[w].todo = c
         /\ c # <<>> => write'[w].found = k.found
<1>1. PICK r : r = IF Len(k.todo) = 1 THEN NotWriting
                   ELSE [NotWriting EXCEPT !.todo = Tail(k.todo), !.found = k.found, !.locks = k.locks]
  OBVIOUS
<1>2. write' = [write EXCEPT ![w] = r]
  BY <1>1 DEF GoOn
<1>3. /\ r = [op |-> r.op, number |-> r.number, todo |-> r.todo, seen |-> r.seen, row |-> r.row,
             found |-> r.found, locks |-> r.locks]
      /\ r.todo = c /\ r.row = Gone
      /\ c # <<>> => r.found = k.found
  BY <1>1 DEF NotWriting
<1>4. WritesOK' /\ OnlyMoves(w) /\ write'[w] = r
  BY <1>2, <1>3, MoveOK
<1>5. QED BY <1>3, <1>4

LEMMA MoveSecond ==
  ASSUME WritesOK, UNCHANGED asked, NEW w \in Writers, Second(write[w]), GoOn(w, write[w])
  PROVE  WritesOK' /\ OnlyMoves(w) /\ write'[w].todo = CachesOf(write[w].op)
<1>1. PICK c : c = CachesOf(write[w].op)
  OBVIOUS
<1>2. /\ c \in KeyLists /\ Tail(write[w].todo) = c
      /\ Len(write[w].todo) = 1 => c = <<>>
      /\ Len(write[w].todo) > 1 => "cell" \notin DOMAIN write[w].todo[2]
  BY <1>1, AtSecond, CachesAre DEF WritesOK
<1>3. QED BY <1>1, <1>2, MoveOn

LEMMA MoveKeys ==
  ASSUME WritesOK, UNCHANGED asked, NEW w \in Writers, write[w].todo \in KeyLists,
         write[w].todo # <<>>, NEW k, k.todo = write[w].todo, GoOn(w, k)
  PROVE  /\ WritesOK' /\ OnlyMoves(w)
         /\ write'[w].todo = Tail(write[w].todo) /\ write'[w].todo \in KeyLists
         /\ write'[w].todo # <<>> => write'[w].found = k.found
<1> DEFINE t == write[w].todo
           c == Tail(t)
<1>1. t \in Seq(KeyCommands) /\ t # <<>>
  BY DEF KeyLists
<1>2. c \in Seq(KeyCommands) /\ Len(t) \in Nat /\ Len(c) = Len(t) - 1 /\ \A i \in 1..Len(c) : c[i] = t[i + 1]
  BY <1>1, HeadTailProperties, LenProperties
<1>3. ASSUME NEW i \in 1..Len(c), c[i].cmd \in {"scanList", "scanName"}
      PROVE  i + 1 \in 1..Len(c) /\ c[i + 1].cmd = "delFound"
  <2>1. i + 1 \in 1..Len(t) /\ t[i + 1].cmd \in {"scanList", "scanName"}
    BY <1>2, <1>3
  <2>2. (i + 1) + 1 \in 1..Len(t) /\ t[(i + 1) + 1].cmd = "delFound"
    BY <2>1 DEF KeyLists
  <2>3. i + 1 \in 1..Len(c)
    BY <1>2, <2>2
  <2>4. QED BY <1>2, <2>2, <2>3
<1>4. c \in KeyLists
  BY <1>2, <1>3 DEF KeyLists
<1>5. Len(t) = 1 => c = <<>>
  <2> HIDE DEF c
  <2>1. Len(t) = 1 => Len(c) = 0
    BY <1>2
  <2>2. QED BY <1>2, <2>1, EmptySeq
<1>6. ASSUME Len(t) > 1 PROVE "cell" \notin DOMAIN t[2]
  <2>1. t[2] \in KeyCommands
    BY <1>1, <1>2, <1>6
  <2>2. DOMAIN t[2] = {"cmd", "keys"}
    BY <2>1 DEF KeyCommands
  <2>3. "cell" \notin {"cmd", "keys"}
    OBVIOUS
  <2>4. QED BY <2>2, <2>3, Zenon
<1> HIDE DEF c
<1>7. QED
  <2>1. Tail(write[w].todo) = c
    BY DEF c
  <2>2. QED BY <1>4, <1>5, <1>6, <2>1, MoveOn

\* The command at which an operation is says how far it is.
LEMMA Whereabouts ==
  ASSUME WritesOK, NEW w \in Writers, NEW n, AtCommand(w, n)
  PROVE  /\ n \in {"create", "put", "cut", "drop", "wipe", "see"} =>
              /\ First(write[w]) /\ write[w].op \in OperationNames
              /\ n = FirstOf(write[w].op).cmd
         /\ n \in {"insert", "replace"} =>
              /\ Second(write[w]) /\ write[w].op \in OperationNames
              /\ n = SecondOf(write[w].op).cmd
         /\ n \in {"create", "put", "cut", "drop", "wipe", "see", "insert", "replace"} =>
              Cell(w) = CellOf(write[w].op)
         /\ n \in Clearing \cup {"unlock", "delFound"} =>
              /\ write[w].todo \in KeyLists
              /\ Head(write[w].todo) = write[w].todo[1] /\ Head(write[w].todo) \in KeyCommands
<1> DEFINE r == write[w]
<1>1. asked \subseteq Keys /\ WriteOK(r) /\ r.todo # <<>> /\ Head(r.todo).cmd = n
  BY DEF WritesOK, AtCommand
<1>2. CASE First(r)
  <2>1. r.op \in OperationNames /\ Head(r.todo) = FirstOf(r.op)
    BY <1>1, <1>2, AtFirst DEF First
  <2>2. n = FirstOf(r.op).cmd /\ Cell(w) = CellOf(r.op)
    BY <1>1, <2>1, DatabaseIs DEF Cell
  <2>3. n \in {"create", "put", "cut", "drop", "wipe", "see"}
    BY <2>1, <2>2, DatabaseIs DEF OperationNames
  <2>4. QED BY <1>2, <2>1, <2>2, <2>3 DEF Clearing
<1>3. CASE Second(r)
  <2>1. r.op \in OperationNames /\ Head(r.todo) = SecondOf(r.op)
    BY <1>1, <1>3, AtSecond
  <2>2. n = SecondOf(r.op).cmd /\ Cell(w) = CellOf(r.op)
    BY <1>1, <2>1, DatabaseIs DEF Cell
  <2>3. n \in {"insert", "replace"}
    BY <2>1, <2>2, DatabaseIs
  <2>4. QED BY <1>3, <2>1, <2>2, <2>3 DEF Clearing
<1>4. CASE r.todo \in KeyLists
  <2>1. Head(r.todo) = r.todo[1] /\ Head(r.todo) \in KeyCommands
    BY <1>1, <1>4, KeysToClear
  <2>2. n \in Clearing \cup {"unlock", "delFound"}
    BY <1>1, <2>1 DEF KeyCommands
  <2>3. QED BY <1>4, <2>1, <2>2 DEF Clearing
<1>5. QED BY <1>1, <1>2, <1>3, <1>4 DEF WriteOK

\* After a command on a row everything is left to clear that the operation ever clears.
LEMMA RowMoves ==
  ASSUME WritesOK, UNCHANGED asked, NEW w \in Writers,
         NEW k, Like(k, write[w]), GoOn(w, k),
         First(write[w]) \/ (Second(write[w]) /\ k = write[w])
  PROVE  /\ WritesOK' /\ OnlyMoves(w)
         /\ \A j : Clears(CachesOf(write[w].op), j) => j \in ToClearOf(write'[w])
         /\ \/ /\ First(write[w]) /\ write[w].op \in TwoSteps
               /\ Second(write'[w]) /\ write'[w].op = write[w].op
               /\ write'[w].seen = k.seen /\ write'[w].row = k.row
            \/ /\ write'[w].todo \in KeyLists
               /\ First(write[w]) => write[w].op \notin TwoSteps
<1> DEFINE o == write[w].op
<1>1. asked \subseteq Keys /\ o \in OperationNames /\ CachesOf(o) \in KeyLists
  BY CachesAre DEF WritesOK, First, Second, TwoSteps, OperationNames
<1>2. CASE First(write[w]) /\ o \in TwoSteps
  <2>1. /\ WritesOK' /\ OnlyMoves(w)
        /\ Second(write'[w]) /\ write'[w].op = o
        /\ write'[w].seen = k.seen /\ write'[w].row = k.row
    BY <1>2, MoveFirst
  <2>2. \A j : j \in ToClearOf(write'[w]) <=> Clears(CachesOf(o), j)
    BY <1>1, <2>1, AtSecond
  <2>3. QED BY <1>2, <2>1, <2>2
<1>3. CASE (First(write[w]) /\ o \notin TwoSteps) \/ (Second(write[w]) /\ ~First(write[w]))
  <2>1. WritesOK' /\ OnlyMoves(w) /\ write'[w].todo = CachesOf(o)
    BY <1>3, MoveFirst, MoveSecond
  <2>2. PICK q : q = write'[w]
    OBVIOUS
  <2>3. \A j : j \in ToClearOf(q) <=>
          Clears(q.todo, j) \/ (q.todo # <<>> /\ Head(q.todo).cmd = "delFound" /\ j \in q.found)
    BY <1>1, <2>1, <2>2, KeysToClear
  <2>4. QED BY <1>1, <1>3, <2>1, <2>2, <2>3
<1>4. QED BY <1>2, <1>3

LEMMA BeginOK ==
  ASSUME WritesOK, NEW w \in Writers, NEW o \in OperationNames, Begin(w, o)
  PROVE  WritesOK' /\ OnlyMoves(w) /\ First(write'[w]) /\ write[w] = NotWriting
<1>1. PICK r : r = [NotWriting EXCEPT !.op = o, !.number = mutations + 1, !.todo = CommandsOf(o),
                                      !.row = IF o = "assignRoles" THEN db["profile"] ELSE Gone]
  OBVIOUS
<1>2. write' = [write EXCEPT ![w] = r] /\ UNCHANGED asked /\ write[w] = NotWriting
  BY <1>1 DEF Begin
<1>3. /\ r = [op |-> r.op, number |-> r.number, todo |-> r.todo, seen |-> r.seen, row |-> r.row,
             found |-> r.found, locks |-> r.locks]
      /\ First(r) /\ r.op = o
      /\ r.row # Gone => o = "assignRoles"
  BY <1>1 DEF NotWriting, First, CommandsOf
<1>4. QED BY <1>2, <1>3, MoveOK

\* What a change of a row does.
LEMMA ChangeMoves ==
  ASSUME WritesOK, NEW w \in Writers,
         NEW n \in {"create", "put", "cut", "drop", "wipe", "insert", "replace"}, AtCommand(w, n),
         NEW content, NEW wish, Change(w, content, wish)
  PROVE  /\ WritesOK' /\ OnlyMoves(w) /\ UNCHANGED asked
         /\ write[w].op \in OperationNames /\ Cell(w) = CellOf(write[w].op)
         /\ \A j : Clears(CachesOf(write[w].op), j) => j \in ToClearOf(write'[w])
         /\ \/ /\ n \in {"create", "wipe"} /\ write[w].op \in TwoSteps
               /\ Second(write'[w]) /\ write'[w].op = write[w].op
            \/ /\ write'[w].todo \in KeyLists
               /\ n \in {"create", "wipe"} => write[w].op \notin TwoSteps
<1>1. GoOn(w, write[w]) /\ UNCHANGED asked
  BY DEF Change
<1>2. Like(write[w], write[w])
  BY DEF WritesOK, WriteOK, Like
<1>3. /\ First(write[w]) \/ Second(write[w])
      /\ n \in {"create", "put", "cut", "drop", "wipe"} =>
           First(write[w]) /\ n = FirstOf(write[w].op).cmd
      /\ n \in {"insert", "replace"} => Second(write[w])
      /\ write[w].op \in OperationNames /\ Cell(w) = CellOf(write[w].op)
  BY Whereabouts
<1>4. /\ WritesOK' /\ OnlyMoves(w)
      /\ \A j : Clears(CachesOf(write[w].op), j) => j \in ToClearOf(write'[w])
      /\ \/ /\ First(write[w]) /\ write[w].op \in TwoSteps
            /\ Second(write'[w]) /\ write'[w].op = write[w].op
         \/ /\ write'[w].todo \in KeyLists
            /\ First(write[w]) => write[w].op \notin TwoSteps
  BY <1>1, <1>2, <1>3, RowMoves
<1>5. ASSUME First(write[w]), write[w].op \in TwoSteps PROVE n \in {"create", "wipe"}
  <2>1. FirstOf(write[w].op).cmd \in {"create", "wipe", "see"}
    BY <1>3, <1>5, DatabaseIs DEF TwoSteps
  <2>2. Head(write[w].todo) = FirstOf(write[w].op)
    BY <1>5, AtFirst DEF WritesOK
  <2>3. n = FirstOf(write[w].op).cmd
    BY <2>2 DEF AtCommand
  <2>4. QED BY <2>1, <2>3
<1>6. QED BY <1>1, <1>3, <1>4, <1>5

\* The cell of the command is changed, and with the commit of assignRoles the user's row.
LEMMA RowWritten ==
  ASSUME WritesOK, DOMAIN db = Cells, DOMAIN wanted = Cells, NEW w \in Writers,
         NEW n \in {"create", "put", "cut", "drop", "wipe", "insert", "replace"}, AtCommand(w, n),
         NEW content, NEW wish, Change(w, content, wish)
  PROVE  /\ Cell(w) \in Cells /\ DOMAIN db' = Cells /\ DOMAIN wanted' = Cells
         /\ db'[Cell(w)] = content /\ wanted'[Cell(w)] = wish
         /\ \A x \in Cells \ {Cell(w), "profile"} : db'[x] = db[x] /\ wanted'[x] = wanted[x]
         /\ \/ \A x \in Cells \ {Cell(w)} : db'[x] = db[x] /\ wanted'[x] = wanted[x]
            \/ /\ write[w].row # Gone /\ write[w].op = "assignRoles"
               /\ n = "replace" /\ Cell(w) = "grants"
               /\ db'["profile"] = write[w].row /\ wanted'["profile"] = write[w].row
<1>1. write[w].op \in OperationNames /\ Cell(w) = CellOf(write[w].op)
  BY ChangeMoves
<1>2. Cell(w) \in Cells
  BY <1>1, DatabaseIs DEF Cells, OperationNames
<1>3. PICK x, b, d, e : /\ x = Cell(w) /\ b = write[w].row
                        /\ d = [db EXCEPT ![x] = content] /\ e = [wanted EXCEPT ![x] = wish]
  OBVIOUS
<1>4. /\ DOMAIN d = Cells /\ DOMAIN e = Cells /\ d[x] = content /\ e[x] = wish
      /\ \A y \in Cells \ {x} : d[y] = db[y] /\ e[y] = wanted[y]
  BY <1>2, <1>3
<1>5. /\ db' = IF b = Gone THEN d ELSE [d EXCEPT !["profile"] = b]
      /\ wanted' = IF b = Gone THEN e ELSE [e EXCEPT !["profile"] = b]
  BY <1>3 DEF Change, WithRow
<1>6. CASE b = Gone
  BY <1>2, <1>3, <1>4, <1>5, <1>6
<1>7. CASE b # Gone
  <2>1. write[w].op = "assignRoles"
    BY <1>3, <1>7 DEF WritesOK, WriteOK
  <2>2. x = "grants"
    BY <1>1, <1>3, <2>1, DatabaseIs
  <2>3. FirstOf("assignRoles").cmd = "see"
    BY DatabaseIs DEF OperationNames
  <2>4. n = "replace"
    <3>1. n \in {"create", "put", "cut", "drop", "wipe"} => n = FirstOf(write[w].op).cmd
      BY Whereabouts
    <3>2. n = "insert" => n = SecondOf(write[w].op).cmd
      BY Whereabouts
    <3>3. SecondOf("assignRoles").cmd # "insert"
      BY DEF SecondOf, OnRow
    <3>4. QED BY <2>1, <2>3, <3>1, <3>2, <3>3
  <2>5. /\ DOMAIN db' = Cells /\ DOMAIN wanted' = Cells
        /\ db'[x] = content /\ wanted'[x] = wish
        /\ \A y \in Cells \ {x, "profile"} : db'[y] = db[y] /\ wanted'[y] = wanted[y]
        /\ db'["profile"] = b /\ wanted'["profile"] = b
    BY <1>4, <1>5, <1>7, <2>2 DEF Cells
  <2>6. QED BY <1>2, <1>3, <1>7, <2>1, <2>2, <2>4, <2>5
<1>8. QED BY <1>6, <1>7

LEMMA SeeMoves ==
  ASSUME WritesOK, NEW w \in Writers, See(w)
  PROVE  /\ WritesOK' /\ OnlyMoves(w) /\ UNCHANGED asked
         /\ First(write[w]) /\ Second(write'[w])
         /\ write'[w].op = write[w].op /\ write'[w].seen = db[Cell(w)]
         /\ write'[w].row \in {write[w].row, Gone}
         /\ Cell(w) = CellOf(write[w].op) /\ write[w].op \in {"updateRole", "assignRoles"}
         /\ \A j : Clears(CachesOf(write[w].op), j) => j \in ToClearOf(write'[w])
<1>1. PICK k : k = [write[w] EXCEPT !.seen = db[Cell(w)],
                                    !.row = IF @ = db["profile"] THEN Gone ELSE @]
  OBVIOUS
<1>2. Like(k, write[w]) /\ k.seen = db[Cell(w)]
  <2>1. PICK r : r = write[w]
    OBVIOUS
  <2>2. r = [op |-> r.op, number |-> r.number, todo |-> r.todo, seen |-> r.seen, row |-> r.row,
             found |-> r.found, locks |-> r.locks]
    BY <2>1 DEF WritesOK, WriteOK
  <2>3. k = [op |-> r.op, number |-> r.number, todo |-> r.todo, seen |-> db[Cell(w)],
             row |-> IF r.row = db["profile"] THEN Gone ELSE r.row,
             found |-> r.found, locks |-> r.locks]
    BY <1>1, <2>1, <2>2
  <2>4. k.seen = db[Cell(w)] /\ k.row \in {r.row, Gone}
    BY <2>3
  <2>5. Like(k, r)
    BY <2>3, <2>4 DEF Like
  <2>6. QED BY <2>1, <2>4, <2>5
<1>r. k.row \in {write[w].row, Gone}
  BY <1>2 DEF Like
<1>3. GoOn(w, k) /\ UNCHANGED asked
  BY <1>1 DEF See
<1>4. /\ First(write[w]) /\ Cell(w) = CellOf(write[w].op) /\ write[w].op \in OperationNames
      /\ FirstOf(write[w].op).cmd = "see"
  BY Whereabouts DEF See
<1>5. write[w].op \in {"updateRole", "assignRoles"}
  BY <1>4, DatabaseIs DEF OperationNames
<1>6. QED BY <1>2, <1>r, <1>3, <1>4, <1>5, RowMoves DEF TwoSteps

\* Commands on keys.
LEMMA KeyMoves ==
  ASSUME WritesOK, NEW w \in Writers, DelKey(w) \/ DelLock(w) \/ Scan(w) \/ DelFound(w)
  PROVE  /\ WritesOK' /\ OnlyMoves(w) /\ UNCHANGED asked
         /\ write[w].todo \in KeyLists /\ write[w].todo # <<>>
         /\ write'[w].todo = Tail(write[w].todo) /\ write'[w].todo \in KeyLists
         /\ ~Scan(w) /\ write'[w].todo # <<>> => write'[w].found = write[w].found
         /\ Scan(w) /\ write'[w].todo # <<>> => write'[w].found = Found(KeysOf(w))
<1>1. /\ write[w].todo \in KeyLists /\ write[w].todo # <<>> /\ UNCHANGED asked
  BY Whereabouts DEF DelKey, DelLock, Scan, DelFound, AtCommand, Clearing
<1>2. ASSUME Scan(w)
      PROVE  \E k : /\ k.todo = write[w].todo /\ k.found = Found(KeysOf(w)) /\ GoOn(w, k)
  <2>1. PICK L \in {{}, FoundLocks(KeysOf(w))} :
          GoOn(w, [write[w] EXCEPT !.found = Found(KeysOf(w)), !.locks = L])
    BY <1>2 DEF Scan
  <2>2. PICK k : k = [write[w] EXCEPT !.found = Found(KeysOf(w)), !.locks = L]
    OBVIOUS
  <2>3. k.todo = write[w].todo /\ k.found = Found(KeysOf(w))
    BY <2>2 DEF WritesOK, WriteOK
  <2>4. QED BY <2>1, <2>2, <2>3
<1>3. ASSUME ~Scan(w) PROVE GoOn(w, write[w])
  BY <1>3 DEF DelKey, DelLock, DelFound
<1>4. CASE Scan(w)
  <2>1. PICK k : k.todo = write[w].todo /\ k.found = Found(KeysOf(w)) /\ GoOn(w, k)
    BY <1>2, <1>4
  <2>2. QED BY <1>1, <1>4, <2>1, MoveKeys
<1>5. CASE ~Scan(w)
  BY <1>1, <1>3, <1>5, MoveKeys
<1>6. QED BY <1>4, <1>5

LEMMA OperationsNamed ==
  ASSUME WritesOK, NEW o \in Operations[asked]
  PROVE  o \in OperationNames
BY AdminAssumption DEF WritesOK, OperationNames

LEMMA WritesInit ==
  ASSUME Init
  PROVE  WritesOK
<1>1. asked \in KeySets /\ asked \subseteq Keys
  BY AdminAssumption DEF Init
<1>2. <<>> \in KeyLists
  BY <1>1, KeyCleared
<1>3. WriteOK(NotWriting)
  BY <1>2 DEF WriteOK, NotWriting
<1>4. QED BY <1>1, <1>3 DEF Init, WritesOK

LEMMA WritesStep ==
  ASSUME WritesOK, [Next]_vars
  PROVE  WritesOK'
<1>1. ASSUME NEW w \in Writers, Command(w) PROVE WritesOK'
  <2>1. CASE Create(w) \/ Put(w) \/ Cut(w) \/ Drop(w) \/ Wipe(w) \/ Insert(w) \/ Replace(w)
    <3>1. PICK n \in {"create", "put", "cut", "drop", "wipe", "insert", "replace"} :
            AtCommand(w, n) /\ \E content, wish : Change(w, content, wish)
      BY <2>1 DEF Create, Put, Cut, Drop, Wipe, Insert, Replace
    <3>2. PICK content, wish : Change(w, content, wish)
      BY <3>1
    <3>3. QED BY <3>1, <3>2, ChangeMoves
  <2>2. CASE See(w)
    BY <2>2, SeeMoves
  <2>3. CASE DelKey(w) \/ DelLock(w) \/ Scan(w) \/ DelFound(w)
    BY <2>3, KeyMoves
  <2>4. CASE Refused(w)
    BY <2>4, GiveUpOK DEF Refused
  <2>5. QED BY <1>1, <2>1, <2>2, <2>3, <2>4 DEF Command
<1>2. ASSUME NEW w \in Writers, Break(w) PROVE WritesOK'
  BY <1>2, GiveUpOK DEF Break
<1>3. ASSUME NEW w \in Writers, NEW o \in Operations[asked], Begin(w, o) PROVE WritesOK'
  <2>1. o \in OperationNames
    BY <1>3, OperationsNamed DEF Begin
  <2>2. QED BY <1>3, <2>1, BeginOK
<1>4. CASE UNCHANGED <<write, asked>>
  BY <1>4, CachesStay DEF WritesOK, WriteOK, First, Second
<1>5. QED
  BY <1>1, <1>2, <1>3, <1>4 DEF Next, ReaderStep, WaitEnds, ValueLapses, OnCache, adminVars, vars

-----------------------------------------------------------------------------
(***************************************************************************)
(* The rows of a join table are one operation's.                           *)
(***************************************************************************)
BetweenOf(r, x) ==
  r.todo # <<>> /\ Head(r.todo).cmd \in {"insert", "replace"} /\ Head(r.todo).cell = x

\* Of operations that do not overlap: who is in between has left the rows that a
\* transaction saw, or none, and otherwise they are what was wanted.
Whole(x) ==
  /\ \A w \in Writers : BetweenOf(write[w], x) =>
       /\ \A v \in Writers \ {w} : ~BetweenOf(write[v], x)
       /\ Head(write[w].todo).cmd = "replace" => write[w].seen = db[x] /\ db[x] = wanted[x]
       /\ Head(write[w].todo).cmd = "insert" => db[x] = {} \/ (db[x] = Gone /\ wanted[x] = Gone)
  /\ (\A w \in Writers : ~BetweenOf(write[w], x)) => db[x] = wanted[x]

Joint == {"permissions", "grants"}

RowsWhole ==
  /\ DOMAIN db = Cells /\ DOMAIN wanted = Cells
  /\ \A x \in Joint \ mixed : Whole(x)

LEMMA BetweenIs ==
  ASSUME NEW w, NEW x
  PROVE  Between(w, x) <=> BetweenOf(write[w], x)
BY DEF Between, AtCommand, Cell, BetweenOf

LEMMA WhoIsBetween ==
  ASSUME asked \subseteq Keys, NEW r, NEW x
  PROVE  /\ r.todo \in KeyLists => ~BetweenOf(r, x)
         /\ First(r) => ~BetweenOf(r, x)
         /\ Second(r) =>
              /\ BetweenOf(r, x) <=> x = CellOf(r.op)
              /\ Head(r.todo).cmd = IF r.op \in {"createRole", "assignPermissions"} THEN "insert"
                                    ELSE "replace"
<1>1. r.todo \in KeyLists => ~BetweenOf(r, x)
  BY KeysToClear DEF KeyCommands, BetweenOf, Clearing
<1>2. ASSUME First(r) PROVE ~BetweenOf(r, x)
  <2>1. r.op \in OperationNames /\ Head(r.todo) = FirstOf(r.op)
    BY <1>2, AtFirst DEF First
  <2>2. FirstOf(r.op).cmd \notin {"insert", "replace"}
    BY <2>1, DatabaseIs DEF OperationNames
  <2>3. QED BY <2>1, <2>2 DEF BetweenOf
<1>3. ASSUME Second(r)
      PROVE  /\ BetweenOf(r, x) <=> x = CellOf(r.op)
             /\ Head(r.todo).cmd = IF r.op \in {"createRole", "assignPermissions"} THEN "insert"
                                   ELSE "replace"
  <2>1. r.op \in OperationNames /\ r.todo # <<>> /\ Head(r.todo) = SecondOf(r.op)
    BY <1>3, AtSecond
  <2>2. QED BY <2>1, DatabaseIs DEF BetweenOf
<1>4. QED BY <1>1, <1>2, <1>3

\* A step that leaves the rows alone, by an operation that is not in between after it.
LEMMA WholeKept ==
  ASSUME NEW x, Whole(x), NEW w \in Writers, OnlyMoves(w),
         db'[x] = db[x], wanted'[x] = wanted[x],
         ~BetweenOf(write'[w], x), BetweenOf(write[w], x) => db[x] = wanted[x]
  PROVE  Whole(x)'
BY DEF Whole, OnlyMoves, BetweenOf

LEMMA WholeStays ==
  ASSUME RowsWhole, UNCHANGED <<write, db, wanted, mixed>>
  PROVE  RowsWhole'
BY DEF RowsWhole, Whole, BetweenOf

\* A change of the rows while nobody else is in between.
LEMMA WholeChanged ==
  ASSUME WritesOK, RowsWhole, NEW w \in Writers,
         NEW n \in {"create", "put", "cut", "drop", "wipe", "insert", "replace"}, AtCommand(w, n),
         NEW content, NEW wish, Change(w, content, wish),
         Cell(w) \in Joint \ mixed' =>
           \/ n \notin {"create", "wipe"} /\ content = wish
           \/ n \in {"create", "wipe"} /\ (content = {} \/ (content = Gone /\ wish = Gone))
  PROVE  RowsWhole'
<1> DEFINE y == Cell(w)
<1>1. /\ WritesOK' /\ OnlyMoves(w) /\ write[w].op \in OperationNames /\ y = CellOf(write[w].op)
      /\ \/ /\ n \in {"create", "wipe"} /\ write[w].op \in TwoSteps
            /\ Second(write'[w]) /\ write'[w].op = write[w].op
         \/ /\ write'[w].todo \in KeyLists
            /\ n \in {"create", "wipe"} => write[w].op \notin TwoSteps
  BY ChangeMoves
<1>2. /\ DOMAIN db' = Cells /\ DOMAIN wanted' = Cells
      /\ db'[y] = content /\ wanted'[y] = wish
      /\ \A x \in Cells \ {y, "profile"} : db'[x] = db[x] /\ wanted'[x] = wanted[x]
  BY RowWritten DEF RowsWhole
<1>3. mixed \subseteq mixed' /\ (y \notin mixed' => \A v \in Writers \ {w} : ~BetweenOf(write[v], y))
  <2>1. MarkMixed(w, y)
    BY DEF Change
  <2>2. QED BY <2>1, BetweenIs DEF MarkMixed
<1>5. asked \subseteq Keys
  BY DEF WritesOK
<1>6. ASSUME NEW x \in Joint \ mixed', x # y PROVE Whole(x)'
  <2>1. Whole(x) /\ db'[x] = db[x] /\ wanted'[x] = wanted[x]
    BY <1>2, <1>3, <1>6 DEF RowsWhole, Joint, Cells
  <2>2. ~BetweenOf(write'[w], x)
    BY <1>1, <1>5, <1>6, WhoIsBetween
  <2>3. ~BetweenOf(write[w], x)
    BY <1>6 DEF BetweenOf, Cell
  <2>4. QED BY <1>1, <2>1, <2>2, <2>3, WholeKept
<1>7. ASSUME NEW x \in Joint \ mixed', x = y PROVE Whole(x)'
  <2>1. db'[x] = content /\ wanted'[x] = wish
    BY <1>2, <1>7
  <2>2. \A v \in Writers \ {w} : ~BetweenOf(write'[v], x)
    BY <1>1, <1>3, <1>7 DEF OnlyMoves
  <2>3. CASE /\ n \in {"create", "wipe"} /\ write[w].op \in TwoSteps
             /\ Second(write'[w]) /\ write'[w].op = write[w].op
    <3>1. write[w].op \in {"createRole", "assignPermissions"}
      <4>1. First(write[w]) /\ n = FirstOf(write[w].op).cmd
        BY <2>3, Whereabouts
      <4>2. QED BY <1>1, <2>3, <4>1, DatabaseIs DEF TwoSteps
    <3>2. Head(write'[w].todo).cmd = "insert" /\ BetweenOf(write'[w], x)
      BY <1>1, <1>5, <1>7, <2>3, <3>1, WhoIsBetween
    <3>3. content = {} \/ (content = Gone /\ wish = Gone)
      BY <1>7, <2>3
    <3>4. /\ \A v \in Writers : BetweenOf(write'[v], x) => v = w
          /\ ~\A v \in Writers : ~BetweenOf(write'[v], x)
      BY <2>2, <3>2
    <3> HIDE DEF y
    <3>5. QED BY <2>1, <3>2, <3>3, <3>4 DEF Whole
  <2>4. CASE /\ write'[w].todo \in KeyLists
             /\ n \in {"create", "wipe"} => write[w].op \notin TwoSteps
    <3>1. n \notin {"create", "wipe"}
      <4>1. ASSUME n \in {"create", "wipe"} PROVE FALSE
        <5>1. n = FirstOf(write[w].op).cmd
          BY <4>1, Whereabouts
        <5>2. QED BY <1>1, <1>7, <2>4, <4>1, <5>1, DatabaseIs DEF Joint, TwoSteps, OperationNames
      <4>2. QED BY <4>1
    <3>2. content = wish
      BY <1>7, <3>1
    <3>3. \A v \in Writers : ~BetweenOf(write'[v], x)
      BY <1>5, <2>2, <2>4, WhoIsBetween
    <3> HIDE DEF y
    <3>4. QED BY <2>1, <3>2, <3>3 DEF Whole
  <2>5. QED BY <1>1, <2>3, <2>4
<1>8. QED BY <1>2, <1>6, <1>7 DEF RowsWhole

\* Nobody else is in between when a step does not mix.
LEMMA Unmixed ==
  ASSUME RowsWhole, NEW w \in Writers, NEW x \in Joint \ mixed', MarkMixed(w, x)
  PROVE  /\ Whole(x)
         /\ \A v \in Writers \ {w} : ~BetweenOf(write[v], x)
         /\ ~BetweenOf(write[w], x) => db[x] = wanted[x]
<1>1. x \notin mixed /\ \A v \in Writers \ {w} : ~BetweenOf(write[v], x)
  BY BetweenIs DEF MarkMixed
<1>2. Whole(x)
  BY <1>1 DEF RowsWhole
<1>3. QED BY <1>1, <1>2 DEF Whole

LEMMA FirstWhole ==
  ASSUME WritesOK, RowsWhole, NEW w \in Writers,
         Create(w) \/ Put(w) \/ Cut(w) \/ Drop(w) \/ Wipe(w)
  PROVE  RowsWhole'
<1>1. CASE Create(w)
  <2>1. PICK new : /\ AtCommand(w, "create") /\ Change(w, new, new)
                   /\ Cell(w) = "permissions" => new = {}
    BY <1>1 DEF Create
  <2>2. write[w].op \in OperationNames /\ FirstOf(write[w].op).cmd = "create" /\ Cell(w) = CellOf(write[w].op)
    BY <2>1, Whereabouts
  <2>3. Cell(w) \in Joint => new = {}
    BY <2>1, <2>2, DatabaseIs DEF Joint, OperationNames
  <2>4. QED BY <2>1, <2>3, WholeChanged
<1>2. CASE Put(w)
  BY <1>2, WholeChanged DEF Put
<1>3. CASE Drop(w)
  BY <1>3, WholeChanged DEF Drop
<1>4. CASE Cut(w)
  <2>1. PICK gone : AtCommand(w, "cut") /\ Change(w, db[Cell(w)] \ gone, wanted[Cell(w)] \ gone)
    BY <1>4 DEF Cut
  <2>2. MarkMixed(w, Cell(w)) /\ ~BetweenOf(write[w], Cell(w))
    BY <2>1 DEF Change, AtCommand, BetweenOf
  <2>3. Cell(w) \in Joint \ mixed' => db[Cell(w)] = wanted[Cell(w)]
    BY <2>2, Unmixed
  <2>4. QED BY <2>1, <2>3, WholeChanged
<1>5. CASE Wipe(w)
  <2>1. PICK content : /\ AtCommand(w, "wipe") /\ Change(w, content, wanted[Cell(w)])
                       /\ content = IF Present(w) THEN {} ELSE Gone
    BY <1>5 DEF Wipe
  <2>2. MarkMixed(w, Cell(w)) /\ ~BetweenOf(write[w], Cell(w))
    BY <2>1 DEF Change, AtCommand, BetweenOf
  <2>3. Cell(w) \in Joint \ mixed' => db[Cell(w)] = wanted[Cell(w)]
    BY <2>2, Unmixed
  <2>4. Cell(w) # "grants"
    <3>1. write[w].op \in OperationNames /\ FirstOf(write[w].op).cmd = "wipe" /\ Cell(w) = CellOf(write[w].op)
      BY <2>1, Whereabouts
    <3>2. QED BY <3>1, DatabaseIs DEF OperationNames
  <2>5. content = {} \/ (content = Gone /\ db[Cell(w)] = Gone)
    BY <2>1, <2>4 DEF Present
  <2>6. QED BY <2>1, <2>3, <2>5, WholeChanged
<1>6. QED BY <1>1, <1>2, <1>3, <1>4, <1>5

LEMMA SecondWhole ==
  ASSUME WritesOK, RowsWhole, NEW w \in Writers, Insert(w) \/ Replace(w)
  PROVE  RowsWhole'
<1>0. PICK n \in {"insert", "replace"} :
        /\ AtCommand(w, n) /\ (n = "insert" => Present(w))
        /\ \E content :
             /\ Change(w, content, Mine(w))
             /\ n = "insert" => content = db[Cell(w)] \cup Mine(w)
             /\ n = "replace" => content = (db[Cell(w)] \ write[w].seen) \cup Mine(w)
  BY DEF Insert, Replace
<1>1. PICK content :
        /\ AtCommand(w, n) /\ Change(w, content, Mine(w)) /\ (n = "insert" => Present(w))
        /\ n = "insert" => content = db[Cell(w)] \cup Mine(w)
        /\ n = "replace" => content = (db[Cell(w)] \ write[w].seen) \cup Mine(w)
  BY <1>0
<1>2. /\ MarkMixed(w, Cell(w)) /\ BetweenOf(write[w], Cell(w)) /\ Head(write[w].todo).cmd = n
      /\ write[w].op \in OperationNames /\ Second(write[w]) /\ n = SecondOf(write[w].op).cmd
      /\ Cell(w) = CellOf(write[w].op)
  BY <1>1, Whereabouts DEF Change, AtCommand, BetweenOf, Cell
<1>3. ASSUME Cell(w) \in Joint \ mixed' PROVE content = Mine(w)
  <2>1. PICK x \in Joint \ mixed' : x = Cell(w)
    BY <1>3
  <2>2. Whole(x)
    BY <1>2, <2>1, Unmixed
  <2>3. CASE n = "insert"
    <3>1. x = "permissions"
      <4>1. write[w].op \in {"createRole", "assignPermissions"}
        BY <1>2, <2>3 DEF SecondOf, OnRow
      <4>2. CellOf(write[w].op) = "permissions"
        BY <1>2, <4>1, DatabaseIs
      <4>3. QED BY <1>2, <2>1, <4>2
    <3>2. db[x] # Gone
      BY <1>1, <2>1, <2>3, <3>1 DEF Present
    <3>3. db[x] = {}
      BY <1>2, <2>1, <2>2, <2>3, <3>2 DEF Whole
    <3>4. QED BY <1>1, <2>1, <2>3, <3>3
  <2>4. CASE n = "replace"
    <3>1. write[w].seen = db[x]
      BY <1>2, <2>1, <2>2, <2>4 DEF Whole
    <3>2. QED BY <1>1, <2>1, <2>4, <3>1
  <2>5. QED BY <2>3, <2>4
<1>4. QED BY <1>1, <1>3, WholeChanged

LEMMA SeeWhole ==
  ASSUME WritesOK, RowsWhole, NEW w \in Writers, See(w)
  PROVE  RowsWhole'
<1>1. /\ WritesOK' /\ OnlyMoves(w) /\ First(write[w]) /\ Second(write'[w])
      /\ write'[w].op = write[w].op /\ write'[w].seen = db[Cell(w)]
      /\ Cell(w) = CellOf(write[w].op) /\ write[w].op \in {"updateRole", "assignRoles"}
  BY SeeMoves
<1>2. UNCHANGED <<db, wanted, asked>> /\ MarkMixed(w, Cell(w)) /\ mixed \subseteq mixed'
  BY DEF See, MarkMixed
<1>3. asked \subseteq Keys
  BY DEF WritesOK
<1>4. ASSUME NEW x \in Joint \ mixed' PROVE Whole(x)'
  <2>1. Whole(x) /\ ~BetweenOf(write[w], x)
    BY <1>1, <1>2, <1>3, WhoIsBetween DEF RowsWhole
  <2>2. CASE x # Cell(w)
    <3>1. ~BetweenOf(write'[w], x)
      BY <1>1, <1>3, <2>2, WhoIsBetween
    <3>2. QED BY <1>1, <1>2, <2>1, <3>1, WholeKept
  <2>3. CASE x = Cell(w)
    <3>1. /\ \A v \in Writers \ {w} : ~BetweenOf(write'[v], x)
          /\ db[x] = wanted[x] /\ write'[w].seen = db[x]
      BY <1>1, <1>2, <2>1, <2>3, Unmixed DEF OnlyMoves
    <3>2. BetweenOf(write'[w], x) /\ Head(write'[w].todo).cmd = "replace"
      BY <1>1, <1>3, <2>3, WhoIsBetween
    <3>3. \A v \in Writers : BetweenOf(write'[v], x) => v = w
      BY <3>1
    <3>4. QED BY <1>2, <3>1, <3>2, <3>3 DEF Whole
  <2>4. QED BY <2>2, <2>3
<1>5. QED BY <1>2, <1>4 DEF RowsWhole

LEMMA RowsStep ==
  ASSUME WritesOK, RowsWhole, [Next]_vars
  PROVE  RowsWhole'
<1>1. ASSUME NEW w \in Writers, OnlyMoves(w), UNCHANGED <<db, wanted>>, mixed \subseteq mixed',
             \A x \in Joint : ~BetweenOf(write'[w], x),
             \A x \in Joint \ mixed' : BetweenOf(write[w], x) => db[x] = wanted[x]
      PROVE  RowsWhole'
  <2>1. \A x \in Joint \ mixed' : Whole(x)'
    BY <1>1, WholeKept DEF RowsWhole
  <2>2. QED BY <1>1, <2>1 DEF RowsWhole
<1>2. asked \subseteq Keys /\ \A x : ~BetweenOf(NotWriting, x)
  BY DEF WritesOK, BetweenOf, NotWriting
<1>3. ASSUME NEW w \in Writers, DelKey(w) \/ DelLock(w) \/ Scan(w) \/ DelFound(w)
      PROVE  RowsWhole'
  <2>1. OnlyMoves(w) /\ write[w].todo \in KeyLists /\ write'[w].todo \in KeyLists
    BY <1>3, KeyMoves
  <2>2. \A x : ~BetweenOf(write[w], x) /\ ~BetweenOf(write'[w], x)
    BY <1>2, <2>1, WhoIsBetween
  <2>3. UNCHANGED <<db, wanted, mixed>>
    BY <1>3 DEF DelKey, DelLock, Scan, DelFound, history
  <2>4. QED BY <1>1, <2>1, <2>2, <2>3
<1>4. ASSUME NEW w \in Writers, Refused(w) PROVE RowsWhole'
  <2>1. OnlyMoves(w) /\ write'[w] = NotWriting /\ UNCHANGED <<db, wanted, mixed>>
    BY <1>4, GiveUpOK DEF Refused, history
  <2>2. ASSUME NEW x \in Joint \ mixed, BetweenOf(write[w], x) PROVE db[x] = wanted[x]
    <3>1. Whole(x)
      BY DEF RowsWhole
    <3>2. PICK n \in {"insert", "replace"} : AtCommand(w, n) /\ Cell(w) = x
      BY <2>2 DEF BetweenOf, AtCommand, Cell
    <3>3. CASE n = "replace"
      BY <2>2, <3>1, <3>2, <3>3 DEF Whole, AtCommand
    <3>4. CASE n = "insert"
      <4>1. x = "permissions"
        BY <3>2, <3>4, Whereabouts, DatabaseIs
      <4>2. ~Present(w)
        BY <1>4, <3>2, <3>4 DEF Refused, AtCommand, Savable
      <4>3. db[x] = Gone
        BY <3>2, <4>1, <4>2 DEF Present
      <4>4. db[x] = {} => wanted[x] = {}
        BY <4>3, AdminAssumption
      <4>5. QED BY <2>2, <3>1, <3>2, <3>4, <4>3, <4>4 DEF Whole, AtCommand
    <3>5. QED BY <3>3, <3>4
  <2>3. QED BY <1>1, <1>2, <2>1, <2>2
<1>5. ASSUME NEW w \in Writers, Break(w) PROVE RowsWhole'
  <2>1. OnlyMoves(w) /\ write'[w] = NotWriting /\ UNCHANGED <<db, wanted>> /\ mixed \subseteq mixed'
    BY <1>5, GiveUpOK DEF Break
  <2>2. ASSUME NEW x \in Joint \ mixed', BetweenOf(write[w], x) PROVE db[x] = wanted[x]
    <3>1. Whole(x)
      BY <2>1 DEF RowsWhole
    <3>2. Head(write[w].todo).cmd # "insert"
      BY <1>5, <2>2 DEF Break, BetweenOf, AtCommand, Cell
    <3>3. QED BY <2>2, <3>1, <3>2 DEF Whole, BetweenOf
  <2>3. QED BY <1>1, <1>2, <2>1, <2>2
<1>6. ASSUME NEW w \in Writers, NEW o \in Operations[asked], Begin(w, o) PROVE RowsWhole'
  <2>1. OnlyMoves(w) /\ First(write'[w]) /\ write[w] = NotWriting
    BY <1>6, OperationsNamed, BeginOK
  <2>2. UNCHANGED <<db, wanted, mixed, asked>>
    BY <1>6 DEF Begin, history
  <2>3. \A x : ~BetweenOf(write'[w], x)
    BY <1>2, <2>1, WhoIsBetween
  <2>4. QED BY <1>1, <1>2, <2>1, <2>2, <2>3
<1>7. CASE UNCHANGED <<write, db, wanted, mixed>>
  BY <1>7, WholeStays
<1>8. QED
  BY <1>3, <1>4, <1>5, <1>6, <1>7, FirstWhole, SecondWhole, SeeWhole
  DEF Next, Command, ReaderStep, WaitEnds, ValueLapses, OnCache, adminVars, vars, history

LEMMA RowsInit ==
  ASSUME Init
  PROVE  RowsWhole
<1>1. \A x : ~BetweenOf(NotWriting, x)
  BY DEF BetweenOf, NotWriting
<1>2. QED BY <1>1 DEF Init, RowsWhole, Whole

\* The permissions of a role and the roles of a user are what the last operation that
\* finished with them wanted, unless operations overlapped there or one broke off
\* between the statements of assignPermissions or createRole.
THEOREM RowsAsWanted == Spec => []AsWanted
<1>1. WritesOK /\ RowsWhole /\ [Next]_vars => WritesOK' /\ RowsWhole'
  BY WritesStep, RowsStep
<1>2. RowsWhole => AsWanted
  BY BetweenIs DEF RowsWhole, Whole, AsWanted, Joint
<1>3. QED BY <1>1, <1>2, WritesInit, RowsInit, PTL DEF Spec

-----------------------------------------------------------------------------
(***************************************************************************)
(* Only keys that are asked for are cached.                                *)
(***************************************************************************)
AskedOnly ==
  /\ DOMAIN cache = Keys
  /\ \A k \in Keys : cache[k] # None => k \in asked
  /\ \A c \in Readers : read[c].pc # "idle" => read[c].key \in asked

\* A step of readers that stores at most what its reader fetched.
LEMMA ReadersAsk ==
  ASSUME LocksTyped, AskedOnly, asked \subseteq Keys, UNCHANGED asked,
         \/ \E c \in Readers : Proceed(c) \/ Fetch(c) \/ TimeOut(c)
         \/ \E k \in Keys : Lapse(k)
         \/ Happening
  PROVE  /\ AskedOnly'
         /\ \A k \in Keys : cache'[k] # cache[k] => cache'[k] = None \/ k \in Storing
<1>1. /\ DOMAIN read = Readers
      /\ \A c \in Readers : read[c] = [pc |-> read[c].pc, key |-> read[c].key,
                                     held |-> read[c].held, got |-> read[c].got]
  BY DEF LocksTyped, ReadTyped
<1>2. ASSUME NEW c \in Readers, NEW r, read' = [read EXCEPT ![c] = r],
             r.pc = "idle" \/ r.key \in asked, UNCHANGED cache
      PROVE  AskedOnly'
  <2>1. \A d \in Readers : read'[d] = IF d = c THEN r ELSE read[d]
    BY <1>1, <1>2
  <2>2. QED BY <1>2, <2>1 DEF AskedOnly
<1>3. ASSUME NEW c \in Readers, NEW stage, Step(c, stage), AtRead(c, "idle") => FALSE, UNCHANGED cache
      PROVE  AskedOnly'
  <2>1. PICK r : r = [read[c] EXCEPT !.pc = stage]
    OBVIOUS
  <2>2. r.key = read[c].key
    BY <1>1, <2>1
  <2>3. read' = [read EXCEPT ![c] = r]
    BY <1>3, <2>1 DEF Step
  <2>4. QED BY <1>2, <1>3, <2>2, <2>3 DEF AskedOnly, AtRead
<1>4. ASSUME NEW c \in Readers, Return(c), UNCHANGED cache PROVE AskedOnly'
  BY <1>2, <1>4 DEF Return, NotReading
<1>5. ASSUME NEW c \in Readers, NEW r, NEW stage, ~AtRead(c, "idle"),
             read' = [read EXCEPT ![c] = r], UNCHANGED cache, r.key = read[c].key
      PROVE  AskedOnly'
  BY <1>2, <1>5 DEF AskedOnly, AtRead
<1>6. ASSUME NEW c \in Readers, Store(c)
      PROVE  /\ AskedOnly'
             /\ \A k \in Keys : cache'[k] # cache[k] => k \in Storing
  <2>1. read[c].key \in asked /\ read[c].pc = "store"
    BY <1>6 DEF AskedOnly, Store, AtRead
  <2>2. /\ DOMAIN cache' = Keys
        /\ \A k \in Keys : cache'[k] = IF k = read[c].key THEN read[c].got ELSE cache[k]
    BY <1>6 DEF AskedOnly, Store
  <2>3. PICK r : r = [read[c] EXCEPT !.pc = "release", !.got = None]
    OBVIOUS
  <2>4. r.key = read[c].key
    BY <1>1, <2>3
  <2>5. \A d \in Readers : read'[d] = IF d = c THEN r ELSE read[d]
    BY <1>1, <1>6, <2>3 DEF Store
  <2>6. AskedOnly'
    BY <2>1, <2>2, <2>4, <2>5 DEF AskedOnly
  <2>7. read[c].key \in Storing
    BY <2>1 DEF Storing, AtRead
  <2>8. QED BY <2>2, <2>6, <2>7
<1>7. ASSUME NEW c \in Readers, AcquireLock(c) PROVE AskedOnly' /\ UNCHANGED cache
  <2>1. CASE Step(c, "subscribe")
    BY <1>3, <1>7, <2>1 DEF AcquireLock, AtRead
  <2>2. ASSUME NEW s \in Stamps, read' = [read EXCEPT ![c] = [@ EXCEPT !.pc = "fetch", !.held = s]]
        PROVE  AskedOnly'
    <3>1. PICK r : r = [read[c] EXCEPT !.pc = "fetch", !.held = s]
      OBVIOUS
    <3>2. r.key = read[c].key /\ read' = [read EXCEPT ![c] = r]
      BY <1>1, <2>2, <3>1
    <3>3. QED BY <1>5, <1>7, <3>2 DEF AcquireLock, AtRead
  <2>3. QED BY <1>7, <2>1, <2>2 DEF AcquireLock
<1>8. ASSUME NEW c \in Readers, Fetch(c) PROVE AskedOnly' /\ UNCHANGED cache
  <2>1. CASE Return(c)
    BY <1>4, <1>8, <2>1 DEF Fetch, Fetched, FetchThrows
  <2>2. CASE Step(c, "release")
    BY <1>3, <1>8, <2>2 DEF Fetch, Fetched, FetchThrows, AtRead
  <2>3. ASSUME NEW v, read' = [read EXCEPT ![c] = [@ EXCEPT !.pc = "store", !.got = v]]
        PROVE  AskedOnly'
    <3>1. PICK r : r = [read[c] EXCEPT !.pc = "store", !.got = v]
      OBVIOUS
    <3>2. r.key = read[c].key /\ read' = [read EXCEPT ![c] = r]
      BY <1>1, <2>3, <3>1
    <3>3. QED BY <1>5, <1>8, <3>2 DEF Fetch, Fetched, FetchThrows, AtRead
  <2>4. QED BY <1>8, <2>1, <2>2, <2>3 DEF Fetch, Fetched, FetchThrows
<1>9. ASSUME NEW c \in Readers, Release(c) \/ Subscribe(c) \/ Reread(c) \/ TimeOut(c)
      PROVE  AskedOnly' /\ UNCHANGED cache
  <2>1. UNCHANGED cache /\ ~AtRead(c, "idle")
    BY <1>9 DEF Release, Subscribe, Reread, TimeOut, Waits, AtRead
  <2>2. Return(c) \/ \E stage : Step(c, stage)
    BY <1>9 DEF Release, Subscribe, Reread, TimeOut
  <2>3. QED BY <1>3, <1>4, <2>1, <2>2
<1>10. ASSUME NEW c \in Readers, Publish(c) PROVE AskedOnly' /\ UNCHANGED cache
  <2>1. \A d \in Readers : read'[d].pc = "idle" \/ (read[d].pc # "idle" /\ read'[d].key = read[d].key)
                            \/ read'[d] = read[d]
    <3>1. ASSUME NEW d \in Readers, d # c, AtRead(d, "wait") /\ read[d].key = read[c].key
          PROVE  read[d].pc # "idle" /\ read'[d].key = read[d].key
      <4>1. read'[d] = [read[d] EXCEPT !.pc = "reread"]
        BY <1>10, <3>1 DEF Publish
      <4>2. QED BY <1>1, <3>1, <4>1 DEF AtRead
    <3>2. ASSUME NEW d \in Readers, d # c, ~(AtRead(d, "wait") /\ read[d].key = read[c].key)
          PROVE  read'[d] = read[d]
      BY <1>10, <3>2 DEF Publish
    <3>3. read'[c] = NotReading
      BY <1>10 DEF Publish
    <3>4. QED BY <3>1, <3>2, <3>3 DEF NotReading
  <2>2. UNCHANGED cache
    BY <1>10 DEF Publish
  <2>3. QED BY <2>1, <2>2 DEF AskedOnly
<1>11. ASSUME NEW k \in Keys, Lapse(k)
       PROVE  AskedOnly' /\ \A j \in Keys : cache'[j] # cache[j] => cache'[j] = None
  BY <1>11 DEF Lapse, AskedOnly
<1>12. ASSUME Happening PROVE AskedOnly' /\ UNCHANGED cache
  <2>1. ASSUME NEW c \in Readers, RedisFails(c) PROVE AskedOnly' /\ UNCHANGED cache
    <3>1. UNCHANGED cache /\ ~AtRead(c, "idle")
      BY <2>1 DEF RedisFails, AfterError, AtRead
    <3>2. CASE Return(c)
      BY <1>4, <3>1, <3>2
    <3>3. CASE read' = [read EXCEPT ![c] = [@ EXCEPT !.pc = AfterError[read[c].pc], !.got = None]]
      <4>1. PICK r : r = [read[c] EXCEPT !.pc = AfterError[read[c].pc], !.got = None]
        OBVIOUS
      <4>2. r.key = read[c].key /\ read' = [read EXCEPT ![c] = r]
        BY <1>1, <3>3, <4>1
      <4>3. QED BY <1>5, <3>1, <4>2
    <3>4. QED BY <2>1, <3>2, <3>3 DEF RedisFails
  <2>2. ASSUME NEW c \in Readers, ReaderDies(c) PROVE AskedOnly' /\ UNCHANGED cache
    BY <1>4, <2>2 DEF ReaderDies
  <2>3. ASSUME NEW c \in Readers, NEW k \in asked, Miss(c, k) \/ ReadFails(c, k)
        PROVE  AskedOnly' /\ UNCHANGED cache
    <3>1. PICK r : r = [NotReading EXCEPT !.pc = "lock", !.key = k]
      OBVIOUS
    <3>2. r.key = k /\ read' = [read EXCEPT ![c] = r] /\ UNCHANGED cache
      BY <2>3, <3>1 DEF NotReading, Miss, ReadFails
    <3>3. QED BY <1>2, <3>2
  <2>4. ASSUME NEW k \in Keys, LockLapses(k) PROVE AskedOnly' /\ UNCHANGED cache
    BY <2>4 DEF LockLapses, AskedOnly
  <2>5. QED BY <1>12, <2>1, <2>2, <2>3, <2>4 DEF Happening
<1>13. QED
  BY <1>6, <1>7, <1>8, <1>9, <1>10, <1>11, <1>12 DEF Proceed

\* Commands store nothing.
LEMMA CommandsAsk ==
  ASSUME AskedOnly, UNCHANGED <<asked, read>>, UNCHANGED cache \/ \E S : Del(S)
  PROVE  AskedOnly' /\ \A k \in Keys : cache'[k] # None => cache'[k] = cache[k]
BY DEF AskedOnly, Del

-----------------------------------------------------------------------------
(***************************************************************************)
(* Which keys are stale.                                                   *)
(***************************************************************************)

\* A key shows the same while the cells that its fetcher reads stay.
LEMMA ViewKept ==
  ASSUME NEW k \in Keys, \A x \in CellsOf[k] : db'[x] = db[x], cache'[k] = cache[k]
  PROVE  Stale(k)' <=> Stale(k)
<1>1. View(k)' = View(k)
  BY DEF View
<1>2. SubjectGone(k)' <=> SubjectGone(k)
  BY DEF SubjectGone, CellsOf
<1>3. (FetchedNow(k))' = FetchedNow(k) /\ (NotFound(k)' <=> NotFound(k))
  BY <1>1, <1>2 DEF FetchedNow, NotFound
<1>4. QED BY <1>3 DEF Stale, Fresh

\* What is cached of a row that is not there is stale.
LEMMA GoneStale ==
  ASSUME NEW k \in {"role", "user", "rolePermissions", "userRoles", "category"},
         SubjectGone(k), cache[k] # None
  PROVE  Stale(k)
BY DEF Stale, Fresh, FetchedNow, NotFound

-----------------------------------------------------------------------------
(***************************************************************************)
(* Who will clear them.                                                    *)
(***************************************************************************)

\* An operation that has changed its row and can not find it gone at its next command.
Underway(w) ==
  \/ write[w].todo \in KeyLists
  \/ AtCommand(w, "insert") /\ db["permissions"] # Gone

Covered(k) ==
  k \in excused \/ \E w \in Writers : k \in ToClearOf(write[w]) /\ Underway(w)

LEMMA ToClearIs ==
  ASSUME NEW w
  PROVE  ToClear(w) = ToClearOf(write[w])
BY DEF ToClear, ToClearOf, AtCommand, Clearing

\* What an operation between two statements has to clear: the keys of roles.
LEMMA InsertClears ==
  ASSUME WritesOK, NEW w \in Writers, AtCommand(w, "insert"), NEW k \in asked,
         k \in ToClearOf(write[w])
  PROVE  k \in {"role", "roles"} /\ Clears(CachesOf(write[w].op), k)
<1>1. asked \subseteq Keys
  BY DEF WritesOK
<1>2. /\ Second(write[w]) /\ write[w].op \in OperationNames
      /\ SecondOf(write[w].op).cmd = "insert"
  BY Whereabouts
<1>3. write[w].op \in {"createRole", "assignPermissions"}
  BY <1>2, DatabaseIs
<1>4. Clears(CachesOf(write[w].op), k)
  BY <1>1, <1>2, AtSecond
<1>5. QED BY <1>1, <1>2, <1>3, <1>4, CachesAre

\* A key stays covered when the operation that moves keeps what it has to clear.
LEMMA CoverKept ==
  ASSUME WritesOK, NEW w \in Writers, OnlyMoves(w), NEW k \in asked, Covered(k),
         k \in excused => Covered(k)',
         db'["permissions"] = db["permissions"] \/ k \notin {"role", "roles"},
         k \in ToClearOf(write[w]) /\ Underway(w) => Covered(k)'
  PROVE  Covered(k)'
<1>1. CASE k \in excused
  BY <1>1
<1>2. ASSUME NEW v \in Writers \ {w}, k \in ToClearOf(write[v]), Underway(v)
      PROVE  Covered(k)'
  <2>1. write'[v] = write[v]
    BY DEF OnlyMoves
  <2>2. Underway(v)'
    BY <1>2, <2>1, InsertClears DEF Underway, AtCommand
  <2>3. k \in ToClearOf(write[v])'
    BY <1>2, <2>1 DEF ToClearOf
  <2>4. QED BY <2>2, <2>3 DEF Covered
<1>3. QED BY <1>1, <1>2 DEF Covered

\* A change makes stale what the operation has yet to clear, or what is excused.
LEMMA ChangeCovers ==
  ASSUME WritesOK, DOMAIN db = Cells, DOMAIN wanted = Cells, NEW w \in Writers,
         NEW n \in {"create", "put", "cut", "drop", "wipe", "insert", "replace"}, AtCommand(w, n),
         NEW content, NEW wish, Change(w, content, wish),
         n = "create" => ~Present(w) /\ content # Gone,
         n = "wipe" => content # Gone \/ db[Cell(w)] = Gone,
         NEW k \in asked, Stale(k)', Stale(k) => Covered(k)
  PROVE  Covered(k)'
<1>1. PICK o, x : o = write[w].op /\ x = Cell(w)
  OBVIOUS
<1>2. /\ OnlyMoves(w) /\ o \in OperationNames /\ x = CellOf(o)
      /\ Clears(CachesOf(o), k) => k \in ToClearOf(write'[w])
      /\ \/ /\ n \in {"create", "wipe"} /\ o \in TwoSteps
            /\ Second(write'[w]) /\ write'[w].op = o
         \/ write'[w].todo \in KeyLists
  BY <1>1, ChangeMoves
<1>0. asked \subseteq Keys /\ k \in Keys /\ x \in Cells
  <2>1. asked \subseteq Keys
    BY DEF WritesOK
  <2>2. x \in Cells
    BY <1>2, DatabaseIs DEF OperationNames, Cells
  <2>3. QED BY <2>1, <2>2
<1>3. /\ cache' = cache
      /\ \A j \in Keys : Stale(j)' /\ (j \in excused \/ (x \in CellsOf[j] /\ BlindSpot(o, j)))
                         => j \in excused'
  BY <1>1 DEF Change, Excuse, cacheVars, Stale
<1>r. /\ db'[x] = content
      /\ \/ \A y \in Cells \ {x} : db'[y] = db[y]
         \/ x = "grants" /\ \A y \in Cells \ {x, "profile"} : db'[y] = db[y]
  BY <1>1, RowWritten
<1>c. /\ CellsOf[k] \subseteq Cells
      /\ "profile" \in CellsOf[k] => "grants" \in CellsOf[k]
  BY <1>0, KeysAssumption DEF CellsOf, Cells
<1>4. /\ n \in {"create", "put", "cut", "drop", "wipe"} => n = FirstOf(o).cmd
      /\ n \in {"insert", "replace"} => Second(write[w]) /\ n = SecondOf(o).cmd
  BY <1>1, Whereabouts
<1>5. k \in excused => Covered(k)'
  BY <1>0, <1>2, <1>3 DEF Covered
<1>6. ASSUME Clears(CachesOf(o), k), Underway(w)' PROVE Covered(k)'
  <2>1. k \in ToClearOf(write[w])'
    BY <1>0, <1>2, <1>6 DEF ToClearOf
  <2>2. QED BY <1>6, <2>1 DEF Covered
<1>7. ASSUME Stale(k), db'["permissions"] = db["permissions"] \/ k \notin {"role", "roles"}
      PROVE  Covered(k)'
  <2>1. ASSUME k \in ToClearOf(write[w]), Underway(w) PROVE Covered(k)'
    <3>1. write[w].todo \notin KeyLists
      <4>1. ASSUME write[w].todo \in KeyLists PROVE FALSE
        BY <4>1, KeysToClear DEF AtCommand, KeyCommands, Clearing
      <4>2. QED BY <4>1
    <3>2. AtCommand(w, "insert")
      BY <2>1, <3>1 DEF Underway
    <3>3. n = "insert"
      BY <3>2 DEF AtCommand
    <3>4. Clears(CachesOf(o), k)
      BY <1>1, <2>1, <3>2, InsertClears
    <3>5. Underway(w)'
      BY <1>0, <1>2, <3>3 DEF Underway
    <3>6. QED BY <1>6, <3>4, <3>5
  <2>2. QED BY <1>0, <1>2, <1>5, <1>7, <2>1, CoverKept
<1>8. CASE x \notin CellsOf[k]
  <2>1. \A y \in CellsOf[k] : db'[y] = db[y]
    BY <1>r, <1>c, <1>8
  <2>2. Stale(k)
    BY <1>0, <1>2, <1>3, <2>1, ViewKept
  <2>3. db'["permissions"] = db["permissions"] \/ k \notin {"role", "roles"}
    BY <2>1 DEF CellsOf
  <2>4. QED BY <1>7, <2>2, <2>3
<1>9. CASE x \in CellsOf[k] /\ BlindSpot(o, k)
  BY <1>0, <1>2, <1>3, <1>9 DEF Covered
<1>10. CASE Clears(CachesOf(o), k)
  <2>1. CASE write'[w].todo \in KeyLists
    BY <1>6, <1>10, <2>1 DEF Underway
  <2>2. CASE n \in {"create", "wipe"} /\ o \in TwoSteps /\ Second(write'[w]) /\ write'[w].op = o
    <3>1. o \in {"createRole", "assignPermissions"} /\ x = "permissions"
      BY <1>0, <1>2, <1>4, <2>2, DatabaseIs DEF TwoSteps
    <3>2. CASE content # Gone
      <4>1. db'["permissions"] # Gone
        BY <1>r, <3>1, <3>2
      <4>2. AtCommand(w, "insert")'
        <5>1. write'[w].todo # <<>> /\ Head(write'[w].todo).cmd = "insert"
          BY <1>0, <1>2, <2>2, <3>1, WhoIsBetween DEF BetweenOf
        <5>2. QED BY <5>1 DEF AtCommand
      <4>3. QED BY <1>6, <1>10, <4>1, <4>2 DEF Underway
    <3>3. CASE content = Gone
      <4>1. db[x] = Gone
        BY <1>1, <2>2, <3>3
      <4>2. \A y \in Cells : db'[y] = db[y]
        BY <1>r, <3>1, <3>3, <4>1
      <4>4. Stale(k)
        BY <1>0, <1>c, <1>3, <4>2, ViewKept
      <4>5. QED BY <1>7, <4>2, <4>4 DEF Cells
    <3>4. QED BY <3>2, <3>3
  <2>3. QED BY <1>0, <1>2, <2>1, <2>2
<1>11. CASE x \in CellsOf[k] /\ ~BlindSpot(o, k) /\ ~Clears(CachesOf(o), k)
  <2>1. \/ o = "createUser" /\ k \in {"user", "userRoles"} /\ x = "profile" /\ n = "create"
        \/ o = "createCategory" /\ k = "category" /\ x = "category" /\ n = "create"
    <3>1. \/ o = "createUser" /\ k \in {"user", "userRoles"}
          \/ o = "createCategory" /\ k = "category"
      <4>1. k \in DOMAIN CellsOf
        BY <1>0, KeysAssumption
      <4>2. CASE o \in {"createRole", "updateRole", "deleteRole", "assignPermissions",
                        "removePermission"}
        <5>1. x = "permissions"
          BY <1>2, <4>2, DatabaseIs
        <5>2. k \in {"role", "roles", "rolePermissions", "user", "users", "userRoles"}
          BY <1>11, <4>1, <5>1 DEF CellsOf
        <5>3. k = "roles" \/ (k = "role" /\ o # "createRole")
          BY <1>11, <4>2, <5>2 DEF BlindSpot
        <5>4. QED BY <1>0, <1>2, <1>11, <4>2, <5>3, CachesAre
      <4>3. CASE o \in {"assignRoles", "removeRole", "signUp", "createUser", "updateUser", "deleteUser"}
        <5>1. x \in {"grants", "profile"}
          BY <1>2, <4>3, DatabaseIs
        <5>2. k \in {"user", "users", "userRoles"}
          BY <1>11, <4>1, <5>1 DEF CellsOf
        <5>3. o # "signUp" /\ (o \in {"updateUser", "deleteUser", "removeRole"} => k # "userRoles")
          BY <1>11 DEF BlindSpot
        <5>4. QED BY <1>0, <1>2, <1>11, <4>3, <5>2, <5>3, CachesAre
      <4>4. CASE o \in {"createCategory", "updateCategory", "deleteCategory"}
        <5>1. x = "category"
          BY <1>2, <4>4, DatabaseIs
        <5>2. k \in {"category", "categories", "ids"}
          BY <1>11, <4>1, <5>1 DEF CellsOf
        <5>3. ~(o = "updateCategory" /\ k = "ids")
          BY <1>11 DEF BlindSpot
        <5>4. QED BY <1>0, <1>2, <1>11, <4>4, <5>2, <5>3, CachesAre
      <4>5. QED BY <1>2, <4>2, <4>3, <4>4 DEF OperationNames
    <3>2. o \notin TwoSteps
      BY <3>1 DEF TwoSteps
    <3>3. n = FirstOf(o).cmd
      BY <1>1, <1>4, <3>2 DEF Second
    <3>4. QED BY <1>2, <3>1, <3>3, DatabaseIs
  <2>2. db[x] = Gone
    BY <1>1, <2>1 DEF Present
  <2>3. SubjectGone(k) /\ cache[k] # None
    BY <1>3, <2>1, <2>2 DEF SubjectGone, Stale
  <2>4. Stale(k)
    BY <2>1, <2>3, GoneStale
  <2>5. QED BY <1>7, <2>1, <2>4
<1>12. QED BY <1>8, <1>9, <1>10, <1>11

-----------------------------------------------------------------------------
(***************************************************************************)
(* Every step leaves stale keys covered.                                   *)
(***************************************************************************)
StaleCovered == \A k \in Keys : Stale(k) => Covered(k)

\* The commands of invalidation: what one no longer has to clear is cleared.
LEMMA KeyCommandCovers ==
  ASSUME WritesOK, AskedOnly, NEW w \in Writers,
         DelKey(w) \/ DelLock(w) \/ Scan(w) \/ DelFound(w), StaleCovered
  PROVE  StaleCovered'
<1>1. /\ OnlyMoves(w) /\ UNCHANGED asked
      /\ write[w].todo \in KeyLists /\ write[w].todo # <<>>
      /\ write'[w].todo = Tail(write[w].todo) /\ write'[w].todo \in KeyLists
      /\ ~Scan(w) /\ write'[w].todo # <<>> => write'[w].found = write[w].found
      /\ Scan(w) /\ write'[w].todo # <<>> => write'[w].found = Found(KeysOf(w))
  BY KeyMoves
<1>2. UNCHANGED db /\ \A k \in Keys : cache'[k] # None => cache'[k] = cache[k]
  BY DEF DelKey, DelLock, Scan, DelFound, Del, cacheVars
<1>3. ASSUME NEW k \in Keys, Stale(k)' PROVE k \in asked /\ Stale(k) /\ Covered(k)
  <2>1. cache'[k] = cache[k] /\ cache[k] # None
    BY <1>2, <1>3 DEF Stale
  <2>2. QED BY <1>2, <1>3, <2>1, ViewKept DEF AskedOnly, StaleCovered
<1>4. ASSUME NEW k \in Keys, Stale(k)', k \in excused PROVE Covered(k)'
  <2>1. CASE Excuse({})
    BY <1>4, <2>1 DEF Excuse, Stale, Covered
  <2>2. CASE UNCHANGED excused
    BY <1>4, <2>2 DEF Covered
  <2>3. QED BY <2>1, <2>2 DEF DelKey, DelLock, Scan, DelFound, history
<1>5. ASSUME NEW k \in Keys, Stale(k)', k \in ToClearOf(write[w]) PROVE Covered(k)'
  <2> DEFINE t == write[w].todo
  <2>1. /\ t \in Seq(KeyCommands) /\ t # <<>> /\ Len(t) \in Nat /\ Head(t) = t[1]
        /\ Len(Tail(t)) = Len(t) - 1 /\ \A i \in 1..Len(Tail(t)) : Tail(t)[i] = t[i + 1]
    BY <1>1, HeadTailProperties, LenProperties, KeysToClear DEF KeyLists
  <2>2. \A j : j \in ToClearOf(write'[w]) <=>
          \/ Clears(Tail(t), j)
          \/ Tail(t) # <<>> /\ Head(Tail(t)).cmd = "delFound" /\ j \in write'[w].found
    BY <1>1, KeysToClear
  <2>3. k \in ToClearOf(write'[w]) => Covered(k)'
    <3>1. Underway(w)'
      BY <1>1 DEF Underway
    <3>2. ASSUME k \in ToClearOf(write'[w]) PROVE k \in ToClearOf(write[w])'
      BY <3>2 DEF ToClearOf
    <3>3. QED BY <3>1, <3>2 DEF Covered
  <2>4. CASE Head(t).cmd = "delFound" /\ k \in write[w].found
    <3>1. DelFound(w)
      BY <2>4 DEF DelKey, DelLock, Scan, DelFound, AtCommand
    <3>2. cache'[k] = None
      BY <2>4, <3>1 DEF DelFound, Del
    <3>3. QED BY <1>5, <3>2 DEF Stale
  <2>5. ASSUME NEW i \in 1..Len(t), i # 1, t[i].cmd \in Clearing, k \in t[i].keys PROVE Covered(k)'
    <3>1. i - 1 \in 1..Len(Tail(t)) /\ i = (i - 1) + 1
      BY <2>1, <2>5
    <3>2. Clears(Tail(t), k)
      BY <2>1, <2>5, <3>1 DEF Clears
    <3>3. QED BY <2>2, <2>3, <3>2
  <2>6. CASE t[1].cmd \in Clearing /\ k \in t[1].keys
    <3>1. Head(t).cmd \in Clearing /\ k \in KeysOf(w)
      BY <2>1, <2>6 DEF KeysOf
    <3>2. CASE DelKey(w)
      <4>1. cache'[k] = None
        BY <3>1, <3>2 DEF DelKey, Del
      <4>2. QED BY <1>5, <4>1 DEF Stale
    <3>3. CASE Scan(w)
      <4>1. k \in Found(KeysOf(w))
        BY <1>2, <1>5, <3>1 DEF Found, Stale
      <4>2. 1 \in 1..Len(t) /\ t[1].cmd \in {"scanList", "scanName"}
        BY <2>1, <3>3 DEF Scan, AtCommand
      <4>3. 1 + 1 \in 1..Len(t) /\ t[1 + 1].cmd = "delFound"
        BY <1>1, <4>2 DEF KeyLists
      <4>4. 1 \in 1..Len(Tail(t)) /\ Tail(t)[1].cmd = "delFound"
        BY <2>1, <4>3
      <4>5. Tail(t) # <<>> /\ Head(Tail(t)) = Tail(t)[1]
        BY <1>1, <4>4, KeysToClear
      <4>6. QED BY <1>1, <2>2, <2>3, <3>3, <4>1, <4>4, <4>5
    <3>4. ~DelLock(w) /\ ~DelFound(w)
      BY <3>1 DEF DelLock, DelFound, AtCommand, Clearing
    <3>5. QED BY <3>2, <3>3, <3>4
  <2>7. Clears(t, k) \/ (Head(t).cmd = "delFound" /\ k \in write[w].found)
    BY <1>1, <1>5, KeysToClear
  <2>8. QED BY <2>4, <2>5, <2>6, <2>7 DEF Clears
<1>6. ASSUME NEW k \in Keys, Stale(k)' PROVE Covered(k)'
  BY <1>1, <1>2, <1>3, <1>4, <1>5, <1>6, CoverKept
<1>7. QED BY <1>6 DEF StaleCovered

\* Steps that leave the rows and the cache alone, by an operation that has nothing to
\* clear yet, or keeps it.
LEMMA QuietCovers ==
  ASSUME WritesOK, AskedOnly, NEW w \in Writers, OnlyMoves(w), StaleCovered,
         UNCHANGED <<db, cache>>,
         \A k \in Keys : k \in excused /\ Stale(k)' => k \in excused',
         \A k \in asked : Stale(k)' /\ k \in ToClearOf(write[w]) /\ Underway(w) => Covered(k)'
  PROVE  StaleCovered'
<1>1. ASSUME NEW k \in Keys, Stale(k)' PROVE Covered(k)'
  <2>1. Stale(k) /\ k \in asked
    BY <1>1, ViewKept DEF Stale, AskedOnly
  <2>2. Covered(k)
    BY <2>1 DEF StaleCovered
  <2>3. k \in excused => Covered(k)'
    BY <1>1 DEF Covered
  <2>4. QED BY <1>1, <2>1, <2>2, <2>3, CoverKept
<1>2. QED BY <1>1 DEF StaleCovered

\* The numbers of operations, which are what the rows hold.
NumbersOK ==
  mutations \in 0..MaxMutations /\ \A w \in Writers : write[w].number \in 0..MaxMutations

LEMMA RowCovers ==
  ASSUME WritesOK, NumbersOK, DOMAIN db = Cells, DOMAIN wanted = Cells, AskedOnly,
         NEW w \in Writers, StaleCovered,
         Create(w) \/ Put(w) \/ Cut(w) \/ Drop(w) \/ Wipe(w) \/ Insert(w) \/ Replace(w)
  PROVE  StaleCovered'
<1>1. Mine(w) # Gone /\ {} # Gone
  BY AdminAssumption DEF Mine, NumbersOK
<1>0. PICK n \in {"create", "put", "cut", "drop", "wipe", "insert", "replace"} :
        /\ AtCommand(w, n)
        /\ \E content, wish :
             /\ Change(w, content, wish)
             /\ n = "create" => ~Present(w) /\ content \in {{}, Mine(w)}
             /\ n = "wipe" => content = IF Present(w) THEN {} ELSE Gone
  BY DEF Create, Put, Cut, Drop, Wipe, Insert, Replace
<1>2. PICK content, wish :
        /\ AtCommand(w, n) /\ Change(w, content, wish)
        /\ n = "create" => ~Present(w) /\ content \in {{}, Mine(w)}
        /\ n = "wipe" => content = IF Present(w) THEN {} ELSE Gone
  BY <1>0
<1>3. ASSUME n = "wipe" PROVE Cell(w) # "grants"
  <2>1. write[w].op \in OperationNames /\ FirstOf(write[w].op).cmd = n /\ Cell(w) = CellOf(write[w].op)
    BY <1>2, <1>3, Whereabouts
  <2>2. QED BY <1>3, <2>1, DatabaseIs DEF OperationNames
<1>4. /\ n = "create" => ~Present(w) /\ content # Gone
      /\ n = "wipe" => content # Gone \/ db[Cell(w)] = Gone
  BY <1>1, <1>2, <1>3 DEF Present
<1>5. ASSUME NEW k \in Keys, Stale(k)' PROVE Covered(k)'
  <2>1. k \in asked
    BY <1>2, <1>5 DEF Change, cacheVars, Stale, AskedOnly
  <2>2. Stale(k) => Covered(k)
    BY DEF StaleCovered
  <2>3. QED BY <1>2, <1>4, <1>5, <2>1, <2>2, ChangeCovers
<1>6. QED BY <1>5 DEF StaleCovered

\* An operation that finds its row gone has nothing to clear on its account; one that
\* breaks off leaves what it had to clear excused.
LEMMA EndCovers ==
  ASSUME WritesOK, AskedOnly, NEW w \in Writers, StaleCovered, Refused(w) \/ Break(w)
  PROVE  StaleCovered'
<1>1. CASE Refused(w)
  <2>1. OnlyMoves(w) /\ UNCHANGED <<db, cache, excused>>
    BY <1>1, GiveUpOK DEF Refused, cacheVars, history
  <2>2. PICK n \in {"create", "drop", "cut", "see", "insert", "replace"} : AtCommand(w, n) /\
                 (n = "insert" => ~Present(w))
    BY <1>1 DEF Refused, AtCommand, Savable
  <2>3. write[w].todo \notin KeyLists
    <3>1. ASSUME write[w].todo \in KeyLists PROVE FALSE
      BY <2>2, <3>1, KeysToClear DEF AtCommand, KeyCommands, Clearing
    <3>2. QED BY <3>1
  <2>4. ASSUME n = "insert" PROVE db["permissions"] = Gone
    <3>1. /\ Cell(w) = CellOf(write[w].op) /\ write[w].op \in OperationNames
          /\ SecondOf(write[w].op).cmd = "insert"
      BY <2>2, <2>4, Whereabouts
    <3>2. write[w].op \in {"createRole", "assignPermissions"}
      BY <3>1, DatabaseIs
    <3>3. Cell(w) = "permissions"
      BY <3>1, <3>2, DatabaseIs
    <3>4. QED BY <2>2, <2>4, <3>3 DEF Present
  <2>5. ~Underway(w)
    BY <2>2, <2>3, <2>4 DEF Underway, AtCommand
  <2>6. QED BY <2>1, <2>5, QuietCovers
<1>2. CASE Break(w)
  <2>1. OnlyMoves(w) /\ UNCHANGED <<db, cache, asked>>
    BY <1>2, GiveUpOK DEF Break
  <2>2. \A k \in Keys : Stale(k)' /\ k \in excused \cup ToClearOf(write[w]) => k \in excused'
    BY <1>2, ToClearIs DEF Break, Excuse, Stale
  <2>3. \A k \in asked : Stale(k)' /\ k \in ToClearOf(write[w]) => Covered(k)'
    BY <2>2 DEF Covered, WritesOK
  <2>4. QED BY <2>1, <2>2, <2>3, QuietCovers
<1>3. QED BY <1>1, <1>2

\* An operation that begins, or only looks, has changed nothing.
LEMMA StartCovers ==
  ASSUME WritesOK, AskedOnly, NEW w \in Writers, StaleCovered,
         See(w) \/ \E o \in Operations[asked] : Begin(w, o)
  PROVE  StaleCovered'
<1>1. CASE See(w)
  <2>1. OnlyMoves(w) /\ UNCHANGED <<db, cache, excused>>
    BY <1>1, SeeMoves DEF See, cacheVars
  <2>2. ~Underway(w)
    <3>1. ASSUME write[w].todo \in KeyLists PROVE FALSE
      BY <1>1, <3>1, KeysToClear DEF See, AtCommand, KeyCommands, Clearing
    <3>2. QED BY <1>1, <3>1 DEF Underway, See, AtCommand
  <2>3. QED BY <2>1, <2>2, QuietCovers
<1>2. ASSUME NEW o \in Operations[asked], Begin(w, o) PROVE StaleCovered'
  <2>1. OnlyMoves(w) /\ write[w] = NotWriting /\ UNCHANGED <<db, cache, excused>>
    BY <1>2, OperationsNamed, BeginOK DEF Begin, cacheVars, history
  <2>2. \A k : k \notin ToClearOf(write[w])
    BY <2>1 DEF ToClearOf, NotWriting
  <2>3. QED BY <2>1, <2>2, QuietCovers
<1>3. QED BY <1>1, <1>2

\* A reader makes stale only what it stores.
LEMMA ReaderCovers ==
  ASSUME WritesOK, AskedOnly, StaleCovered, OnCache,
         \A k \in Keys : cache'[k] # cache[k] => cache'[k] = None \/ k \in Storing
  PROVE  StaleCovered'
<1>1. UNCHANGED <<db, write>>
  BY DEF OnCache, adminVars
<1>2. ASSUME NEW k \in Keys, Stale(k)', k \in excused \/ cache'[k] # cache[k] PROVE Covered(k)'
  <2>1. k \in excused'
    BY <1>2 DEF OnCache, Excuse, Stale
  <2>2. QED BY <2>1 DEF Covered
<1>3. ASSUME NEW k \in Keys, Stale(k)', k \notin excused, cache'[k] = cache[k] PROVE Covered(k)'
  <2>1. Stale(k)
    BY <1>1, <1>3, ViewKept
  <2>2. PICK w \in Writers : k \in ToClearOf(write[w]) /\ Underway(w)
    BY <1>3, <2>1 DEF StaleCovered, Covered
  <2>3. k \in ToClearOf(write[w])' /\ Underway(w)'
    BY <1>1, <2>2 DEF ToClearOf, Underway, AtCommand
  <2>4. QED BY <2>3 DEF Covered
<1>4. QED BY <1>2, <1>3 DEF StaleCovered

-----------------------------------------------------------------------------
(***************************************************************************)
(* The theorem.                                                            *)
(***************************************************************************)
LEMMA NumbersStep ==
  ASSUME WritesOK, NumbersOK, [Next]_vars
  PROVE  NumbersOK'
<1>1. MaxMutations \in Nat /\ DOMAIN write = Writers
  BY AdminAssumption DEF WritesOK
<1>2. ASSUME NEW w \in Writers, NEW r, write' = [write EXCEPT ![w] = r],
             r.number \in 0..MaxMutations, mutations' \in 0..MaxMutations
      PROVE  NumbersOK'
  BY <1>1, <1>2 DEF NumbersOK
<1>3. ASSUME NEW w \in Writers, NEW k, GoOn(w, k), UNCHANGED mutations,
             k = [op |-> k.op, number |-> k.number, todo |-> k.todo, seen |-> k.seen, row |-> k.row,
                  found |-> k.found, locks |-> k.locks],
             k.number = write[w].number
      PROVE  NumbersOK'
  <2>1. PICK r : /\ write' = [write EXCEPT ![w] = r]
                 /\ r \in {NotWriting, [k EXCEPT !.todo = Tail(@)],
                          [NotWriting EXCEPT !.todo = Tail(k.todo), !.found = k.found,
                                             !.locks = k.locks]}
    <3>1. PICK r : r = CASE Len(k.todo) = 1 -> NotWriting
                         [] Len(k.todo) > 1 /\ "cell" \in DOMAIN k.todo[2] -> [k EXCEPT !.todo = Tail(@)]
                         [] OTHER -> [NotWriting EXCEPT !.todo = Tail(k.todo), !.found = k.found,
                                                        !.locks = k.locks]
      OBVIOUS
    <3>2. write' = [write EXCEPT ![w] = r]
      BY <1>3, <3>1 DEF GoOn
    <3>3. QED BY <3>1, <3>2
  <2>2. r.number \in {0, k.number}
    <3>1. [k EXCEPT !.todo = Tail(@)].number = k.number
      BY <1>3
    <3>2. /\ NotWriting.number = 0
          /\ [NotWriting EXCEPT !.todo = Tail(k.todo), !.found = k.found, !.locks = k.locks].number = 0
      BY DEF NotWriting
    <3>3. QED BY <2>1, <3>1, <3>2
  <2>3. QED BY <1>1, <1>2, <1>3, <2>1, <2>2 DEF NumbersOK
<1>4. \A w \in Writers : write[w] = [op |-> write[w].op, number |-> write[w].number,
                                   todo |-> write[w].todo, seen |-> write[w].seen,
                                   row |-> write[w].row, found |-> write[w].found, locks |-> write[w].locks]
  BY DEF WritesOK, WriteOK
<1>5. ASSUME NEW w \in Writers, GoOn(w, write[w]), UNCHANGED mutations PROVE NumbersOK'
  BY <1>3, <1>4, <1>5
<1>6. ASSUME NEW w \in Writers, See(w) PROVE NumbersOK'
  <2>q. PICK q : q = write[w] /\ q = [op |-> q.op, number |-> q.number, todo |-> q.todo, seen |-> q.seen, row |-> q.row,
             found |-> q.found, locks |-> q.locks]
    BY <1>4
  <2>1. PICK k : k = [q EXCEPT !.seen = db[Cell(w)],
                               !.row = IF @ = db["profile"] THEN Gone ELSE @]
    OBVIOUS
  <2>2. /\ k.number = q.number
        /\ k = [op |-> k.op, number |-> k.number, todo |-> k.todo, seen |-> k.seen, row |-> k.row,
                found |-> k.found, locks |-> k.locks]
    BY <2>q, <2>1
  <2>3. GoOn(w, k) /\ UNCHANGED mutations
    BY <1>6, <2>q, <2>1 DEF See
  <2>4. QED BY <1>3, <2>q, <2>2, <2>3
<1>7. ASSUME NEW w \in Writers, Scan(w) PROVE NumbersOK'
  <2>q. PICK q : q = write[w] /\ q = [op |-> q.op, number |-> q.number, todo |-> q.todo, seen |-> q.seen, row |-> q.row,
             found |-> q.found, locks |-> q.locks]
    BY <1>4
  <2>1. PICK F, L : GoOn(w, [q EXCEPT !.found = F, !.locks = L])
    BY <1>7, <2>q DEF Scan
  <2>2. PICK k : k = [q EXCEPT !.found = F, !.locks = L]
    OBVIOUS
  <2>3. /\ k.number = q.number
        /\ k = [op |-> k.op, number |-> k.number, todo |-> k.todo, seen |-> k.seen, row |-> k.row,
                found |-> k.found, locks |-> k.locks]
    BY <2>q, <2>2
  <2>4. QED BY <1>3, <1>7, <2>q, <2>1, <2>2, <2>3 DEF Scan
<1>8. ASSUME NEW w \in Writers, GiveUp(w), UNCHANGED mutations PROVE NumbersOK'
  BY <1>1, <1>2, <1>8 DEF GiveUp, NotWriting, NumbersOK
<1>9. ASSUME NEW w \in Writers, NEW o \in Operations[asked], Begin(w, o) PROVE NumbersOK'
  <2>1. PICK r : r = [NotWriting EXCEPT !.op = o, !.number = mutations + 1, !.todo = CommandsOf(o),
                                        !.row = IF o = "assignRoles" THEN db["profile"] ELSE Gone]
    OBVIOUS
  <2>2. r.number = mutations + 1
    BY <2>1 DEF NotWriting
  <2>3. /\ write' = [write EXCEPT ![w] = r] /\ mutations' = mutations + 1
        /\ mutations < MaxMutations
    BY <1>9, <2>1 DEF Begin
  <2>4. QED BY <1>1, <1>2, <2>2, <2>3 DEF NumbersOK
<1>10. CASE UNCHANGED <<write, mutations>>
  BY <1>10 DEF NumbersOK
<1>11. ASSUME NEW w \in Writers, Command(w) PROVE NumbersOK'
  <2>1. \/ GoOn(w, write[w]) /\ UNCHANGED mutations
        \/ GiveUp(w) /\ UNCHANGED mutations
        \/ See(w) \/ Scan(w)
    BY <1>11 DEF Command, Create, Put, Cut, Drop, Wipe, Insert, Replace, Change, Refused, DelKey,
         DelLock, DelFound
  <2>2. QED BY <1>5, <1>6, <1>7, <1>8, <2>1
<1>12. ASSUME NEW w \in Writers, Break(w) PROVE NumbersOK'
  BY <1>8, <1>12 DEF Break
<1>13. QED
  BY <1>9, <1>10, <1>11, <1>12
  DEF Next, ReaderStep, WaitEnds, ValueLapses, OnCache, adminVars, vars

StaleInv == AskedOnly /\ NumbersOK /\ StaleCovered

LEMMA StaleInvInit ==
  ASSUME Init
  PROVE  StaleInv
<1>1. AskedOnly
  BY DEF Init, CacheInit, AskedOnly, NotReading
<1>2. NumbersOK
  BY AdminAssumption DEF Init, NumbersOK, NotWriting
<1>3. StaleCovered
  BY DEF Init, CacheInit, StaleCovered, Stale
<1>4. QED BY <1>1, <1>2, <1>3 DEF StaleInv

LEMMA StaleInvStep ==
  ASSUME LockInv, WritesOK, RowsWhole, StaleInv, [Next]_vars
  PROVE  StaleInv'
<1>1. /\ asked \subseteq Keys /\ DOMAIN db = Cells /\ DOMAIN wanted = Cells /\ LocksTyped
      /\ AskedOnly /\ NumbersOK /\ StaleCovered
  BY DEF WritesOK, RowsWhole, LockInv, StaleInv
<1>2. NumbersOK'
  BY <1>1, NumbersStep
<1>3. ASSUME NEW w \in Writers, Command(w) \/ Break(w) PROVE AskedOnly' /\ StaleCovered'
  <2>1. UNCHANGED <<asked, read>> /\ (UNCHANGED cache \/ \E S : Del(S))
    BY <1>3
    DEF Command, Create, Put, Cut, Drop, Wipe, Insert, Replace, Change, See, Refused, DelKey,
        DelLock, Scan, DelFound, Break, cacheVars
  <2>2. StaleCovered'
    BY <1>1, <1>3, RowCovers, StartCovers, EndCovers, KeyCommandCovers DEF Command
  <2>3. QED BY <1>1, <2>1, <2>2, CommandsAsk
<1>4. ASSUME NEW w \in Writers, NEW o \in Operations[asked], Begin(w, o)
      PROVE  AskedOnly' /\ StaleCovered'
  BY <1>1, <1>4, StartCovers, CommandsAsk DEF Begin, cacheVars
<1>5. ASSUME OnCache,
             \/ \E c \in Readers : Proceed(c) \/ Fetch(c) \/ TimeOut(c)
             \/ \E k \in Keys : Lapse(k)
             \/ Happening
      PROVE  AskedOnly' /\ StaleCovered'
  <2>1. UNCHANGED asked
    BY <1>5 DEF OnCache, adminVars
  <2>2. AskedOnly' /\ \A k \in Keys : cache'[k] # cache[k] => cache'[k] = None \/ k \in Storing
    BY <1>1, <1>5, <2>1, ReadersAsk
  <2>3. QED BY <1>1, <1>5, <2>2, ReaderCovers
<1>6. ASSUME UNCHANGED vars PROVE AskedOnly' /\ StaleCovered'
  <2>1. UNCHANGED <<asked, read, cache, db, write, excused>>
    BY <1>6 DEF vars, cacheVars, adminVars, history
  <2>2. AskedOnly'
    BY <1>1, <2>1, CommandsAsk
  <2>3. \A k \in Keys : Stale(k)' => Stale(k)
    BY <2>1, ViewKept
  <2>4. ASSUME NEW k, Covered(k) PROVE Covered(k)'
    BY <2>1, <2>4 DEF Covered, ToClearOf, Underway, AtCommand
  <2>5. QED BY <1>1, <2>2, <2>3, <2>4 DEF StaleCovered
<1>7. AskedOnly' /\ StaleCovered'
  BY <1>3, <1>4, <1>5, <1>6 DEF Next, ReaderStep, WaitEnds, ValueLapses
<1>8. QED BY <1>2, <1>7 DEF StaleInv

\* A cached value that differs from the database is about to be cleared by the operation
\* that changed the row, unless its reader fetched before the change and stored after,
\* the operation broke off, or it is one of those that leave that key (BlindSpot).
THEOREM StaleIsExcused == Spec => []StaleExcused
<1>1. Init => WritesOK /\ RowsWhole /\ StaleInv
  BY WritesInit, RowsInit, StaleInvInit
<1>2. LockInv /\ WritesOK /\ RowsWhole /\ StaleInv /\ [Next]_vars
        => WritesOK' /\ RowsWhole' /\ StaleInv'
  BY WritesStep, RowsStep, StaleInvStep
<1>3. StaleInv => StaleExcused
  BY ToClearIs DEF StaleInv, StaleCovered, Covered, StaleExcused
<1>4. QED BY <1>1, <1>2, <1>3, LocksKept, PTL DEF Spec

-----------------------------------------------------------------------------
(***************************************************************************)
(* Types.                                                                  *)
(***************************************************************************)
RowContents(n) == {Gone} \cup SUBSET (0..n)

RecordTyped(r, n) ==
  /\ r.number \in 0..n /\ r.seen \subseteq 0..n /\ r.row \in RowContents(n)
  /\ r.found \subseteq Keys /\ r.locks \subseteq Keys

WritesTyped ==
  mutations \in 0..MaxMutations /\ \A w \in Writers : RecordTyped(write[w], mutations)

\* A row that is gone is wanted gone, and the roles of a user are never gone: a user
\* without roles has none.
RowsTyped ==
  /\ db \in [Cells -> RowContents(mutations)] /\ wanted \in [Cells -> RowContents(mutations)]
  /\ \A x \in Cells : db[x] = Gone <=> wanted[x] = Gone
  /\ db["grants"] # Gone

LEMMA RecordMoves ==
  ASSUME WritesTyped, WritesOK, NEW w \in Writers, NEW r, RecordTyped(r, mutations),
         write' = [write EXCEPT ![w] = r], UNCHANGED mutations
  PROVE  WritesTyped'
BY DEF WritesTyped, WritesOK

LEMMA GiveUpTyped ==
  ASSUME WritesTyped, WritesOK, NEW w \in Writers, GiveUp(w), UNCHANGED mutations
  PROVE  WritesTyped'
<1>1. RecordTyped(NotWriting, mutations)
  BY AdminAssumption DEF RecordTyped, RowContents, NotWriting, WritesTyped
<1>2. QED BY <1>1, RecordMoves DEF GiveUp

\* An operation goes on with its number, and with what it has seen and found.
LEMMA GoOnTyped ==
  ASSUME WritesTyped, WritesOK, NEW w \in Writers, NEW k, RecordTyped(k, mutations),
         k = [op |-> k.op, number |-> k.number, todo |-> k.todo, seen |-> k.seen, row |-> k.row,
              found |-> k.found, locks |-> k.locks],
         GoOn(w, k), UNCHANGED mutations
  PROVE  WritesTyped'
<1>1. PICK r : r = CASE Len(k.todo) = 1 -> NotWriting
                     [] Len(k.todo) > 1 /\ "cell" \in DOMAIN k.todo[2] -> [k EXCEPT !.todo = Tail(@)]
                     [] OTHER -> [NotWriting EXCEPT !.todo = Tail(k.todo), !.found = k.found,
                                                    !.locks = k.locks]
  OBVIOUS
<1>2. write' = [write EXCEPT ![w] = r]
  BY <1>1 DEF GoOn
<1>3. PICK a : a = [k EXCEPT !.todo = Tail(@)]
  OBVIOUS
<1>4. RecordTyped(a, mutations)
  BY <1>3 DEF RecordTyped
<1>5. PICK b : b = [NotWriting EXCEPT !.todo = Tail(k.todo), !.found = k.found, !.locks = k.locks]
  OBVIOUS
<1>6. RecordTyped(b, mutations) /\ RecordTyped(NotWriting, mutations)
  BY <1>5, AdminAssumption DEF RecordTyped, RowContents, NotWriting, WritesTyped
<1>7. r \in {NotWriting, a, b}
  BY <1>1, <1>3, <1>5
<1>8. QED BY <1>2, <1>4, <1>6, <1>7, RecordMoves

LEMMA WriteFields ==
  ASSUME WritesOK, NEW w \in Writers
  PROVE  write[w] = [op |-> write[w].op, number |-> write[w].number, todo |-> write[w].todo,
                     seen |-> write[w].seen, row |-> write[w].row, found |-> write[w].found,
                     locks |-> write[w].locks]
BY DEF WritesOK, WriteOK

\* A change of a row by which it is gone if it is wanted gone.
LEMMA ChangeTyped ==
  ASSUME WritesTyped, WritesOK, RowsTyped, NEW w \in Writers,
         NEW n \in {"create", "put", "cut", "drop", "wipe", "insert", "replace"}, AtCommand(w, n),
         NEW content \in RowContents(mutations), NEW wish \in RowContents(mutations),
         content = Gone <=> wish = Gone, Cell(w) = "grants" => content # Gone,
         Change(w, content, wish)
  PROVE  WritesTyped' /\ RowsTyped'
<1>1. GoOn(w, write[w]) /\ UNCHANGED mutations
  BY DEF Change
<1>2. WritesTyped'
  BY <1>1, WriteFields, GoOnTyped DEF WritesTyped
<1>3. PICK x, b, d, e : x = Cell(w) /\ b = write[w].row /\ d = db /\ e = wanted
  OBVIOUS
<1>4. /\ d \in [Cells -> RowContents(mutations)] /\ e \in [Cells -> RowContents(mutations)]
      /\ \A y \in Cells : d[y] = Gone <=> e[y] = Gone
      /\ d["grants"] # Gone /\ b \in RowContents(mutations)
  BY <1>3 DEF RowsTyped, WritesTyped, RecordTyped
<1>5. PICK g, h : /\ g = [d EXCEPT ![x] = content] /\ h = [e EXCEPT ![x] = wish]
  OBVIOUS
<1>6. /\ g \in [Cells -> RowContents(mutations)] /\ h \in [Cells -> RowContents(mutations)]
      /\ \A y \in Cells : g[y] = Gone <=> h[y] = Gone
      /\ g["grants"] # Gone
  BY <1>3, <1>4, <1>5 DEF Cells
<1>7. /\ db' = IF b = Gone THEN g ELSE [g EXCEPT !["profile"] = b]
      /\ wanted' = IF b = Gone THEN h ELSE [h EXCEPT !["profile"] = b]
  BY <1>3, <1>5 DEF Change, WithRow
<1>8. RowsTyped'
  <2>1. CASE b = Gone
    BY <1>1, <1>6, <1>7, <2>1 DEF RowsTyped
  <2>2. CASE b # Gone
    BY <1>1, <1>4, <1>6, <1>7, <2>2 DEF RowsTyped, Cells
  <2>3. QED BY <2>1, <2>2
<1>9. QED BY <1>2, <1>8

\* The cell that a command on rows is about.
LEMMA CellsAre ==
  ASSUME WritesOK, NEW w \in Writers,
         NEW n \in {"create", "put", "cut", "drop", "wipe", "see", "insert", "replace"},
         AtCommand(w, n)
  PROVE  /\ Cell(w) \in Cells
         /\ n \in {"create", "put", "drop", "wipe", "insert"} => Cell(w) # "grants"
<1>1. write[w].op \in OperationNames /\ Cell(w) = CellOf(write[w].op)
  BY Whereabouts
<1>2. Cell(w) \in Cells
  BY <1>1, DatabaseIs DEF OperationNames, Cells
<1>3. ASSUME n \in {"create", "put", "drop", "wipe"} PROVE Cell(w) # "grants"
  <2>1. n = FirstOf(write[w].op).cmd
    BY <1>3, Whereabouts
  <2>2. QED BY <1>1, <1>3, <2>1, DatabaseIs DEF OperationNames
<1>4. ASSUME n = "insert" PROVE Cell(w) # "grants"
  <2>1. n = SecondOf(write[w].op).cmd
    BY <1>4, Whereabouts
  <2>2. QED BY <1>1, <1>4, <2>1, DatabaseIs DEF OperationNames
<1>5. QED BY <1>2, <1>3, <1>4

\* The rows of a join table are there when a transaction sees or replaces them.
LEMMA SavableThere ==
  ASSUME WritesOK, RowsTyped, NEW w \in Writers, NEW n \in {"see", "replace"}, AtCommand(w, n),
         Savable(w)
  PROVE  db[Cell(w)] # Gone
<1>1. write[w].op \in OperationNames /\ Cell(w) = CellOf(write[w].op)
  BY Whereabouts
<1>2. CASE Present(w)
  BY <1>2 DEF Present, RowsTyped
<1>3. CASE write[w].row # Gone
  <2>1. write[w].op = "assignRoles"
    BY <1>3 DEF WritesOK, WriteOK
  <2>2. Cell(w) = "grants"
    BY <1>1, <2>1, DatabaseIs
  <2>3. QED BY <2>2 DEF RowsTyped
<1>4. QED BY <1>2, <1>3 DEF Savable

\* Commands on rows leave rows.
LEMMA RowsKeepTypes ==
  ASSUME WritesTyped, WritesOK, RowsTyped, NEW w \in Writers,
         Create(w) \/ Put(w) \/ Cut(w) \/ Drop(w) \/ Wipe(w) \/ Insert(w) \/ Replace(w)
  PROVE  WritesTyped' /\ RowsTyped'
<1>1. PICK x : x = Cell(w)
  OBVIOUS
<1>2. PICK m : m = Mine(w)
  OBVIOUS
<1>3. /\ m \in SUBSET (0..mutations) /\ m # Gone /\ {} # Gone
      /\ \A S \in SUBSET (0..mutations) : S # Gone /\ S \in RowContents(mutations)
      /\ Gone \in RowContents(mutations)
  <2>1. mutations \in Nat /\ 0..mutations \subseteq 0..MaxMutations
    BY AdminAssumption DEF WritesTyped
  <2>2. \A S \in SUBSET (0..mutations) : S # Gone
    BY <2>1, AdminAssumption
  <2>3. m \in SUBSET (0..mutations)
    BY <1>2 DEF Mine, WritesTyped, RecordTyped
  <2>4. QED BY <2>2, <2>3 DEF RowContents
<1>4. ASSUME x \in Cells
      PROVE  /\ db[x] \in RowContents(mutations) /\ wanted[x] \in RowContents(mutations)
             /\ db[x] = Gone <=> wanted[x] = Gone
             /\ Present(w) => db[x] # Gone
             /\ db[x] # Gone => db[x] \in SUBSET (0..mutations) /\ wanted[x] \in SUBSET (0..mutations)
  BY <1>1, <1>4 DEF RowsTyped, RowContents, Present
<1>5. CASE Create(w)
  <2>1. PICK new : new \in {{}, m} /\ AtCommand(w, "create") /\ Change(w, new, new)
    BY <1>2, <1>5 DEF Create
  <2>2. x \in Cells /\ x # "grants"
    BY <1>1, <2>1, CellsAre
  <2>3. QED BY <1>1, <1>3, <2>1, <2>2, ChangeTyped
<1>6. CASE Put(w)
  <2>1. AtCommand(w, "put") /\ Change(w, m, m)
    BY <1>2, <1>6 DEF Put
  <2>2. x \in Cells /\ x # "grants"
    BY <1>1, <2>1, CellsAre
  <2>3. QED BY <1>1, <1>3, <2>1, <2>2, ChangeTyped
<1>7. CASE Cut(w)
  <2>1. PICK gone : AtCommand(w, "cut") /\ Present(w) /\ Change(w, db[x] \ gone, wanted[x] \ gone)
    BY <1>1, <1>7 DEF Cut
  <2>2. x \in Cells
    BY <1>1, <2>1, CellsAre
  <2>3. db[x] \in SUBSET (0..mutations) /\ wanted[x] \in SUBSET (0..mutations)
    BY <1>4, <2>1, <2>2
  <2>4. db[x] \ gone \in SUBSET (0..mutations) /\ wanted[x] \ gone \in SUBSET (0..mutations)
    BY <2>3
  <2>5. QED BY <1>1, <1>3, <2>1, <2>2, <2>4, ChangeTyped
<1>8. CASE Drop(w)
  <2>1. AtCommand(w, "drop") /\ Change(w, Gone, Gone)
    BY <1>8 DEF Drop
  <2>2. x \in Cells /\ x # "grants"
    BY <1>1, <2>1, CellsAre
  <2>3. QED BY <1>1, <1>3, <2>1, <2>2, ChangeTyped
<1>9. CASE Wipe(w)
  <2>1. AtCommand(w, "wipe")
    BY <1>9 DEF Wipe
  <2>2. x \in Cells /\ x # "grants"
    BY <1>1, <2>1, CellsAre
  <2>3. PICK new : new = (IF Present(w) THEN {} ELSE Gone) /\ Change(w, new, wanted[x])
    BY <1>1, <1>9 DEF Wipe
  <2>4. Present(w) <=> db[x] # Gone
    BY <1>1, <2>2 DEF Present
  <2>5. new \in RowContents(mutations) /\ (new = Gone <=> wanted[x] = Gone)
    BY <1>3, <1>4, <2>2, <2>3, <2>4
  <2>6. wanted[x] \in RowContents(mutations)
    BY <1>4, <2>2
  <2>7. PICK wish : wish = wanted[x]
    OBVIOUS
  <2>8. QED BY <1>1, <2>1, <2>2, <2>3, <2>5, <2>6, <2>7, ChangeTyped
<1>10. CASE Insert(w)
  <2>1. AtCommand(w, "insert") /\ Present(w) /\ Change(w, db[x] \cup m, m)
    BY <1>1, <1>2, <1>10 DEF Insert
  <2>2. x \in Cells
    BY <1>1, <2>1, CellsAre
  <2>3. db[x] \cup m \in SUBSET (0..mutations)
    BY <1>3, <1>4, <2>1, <2>2
  <2>4. QED BY <1>1, <1>3, <2>1, <2>2, <2>3, ChangeTyped
<1>11. CASE Replace(w)
  <2>1. PICK s : AtCommand(w, "replace") /\ Savable(w) /\ Change(w, (db[x] \ s) \cup m, m)
    BY <1>1, <1>2, <1>11 DEF Replace
  <2>2. x \in Cells
    BY <1>1, <2>1, CellsAre
  <2>c. db[x] # Gone
    BY <1>1, <1>4, <2>1, <2>2, SavableThere
  <2>3. (db[x] \ s) \cup m \in SUBSET (0..mutations)
    BY <1>3, <1>4, <2>2, <2>c
  <2>4. QED BY <1>1, <1>3, <2>1, <2>2, <2>3, ChangeTyped
<1>12. QED BY <1>5, <1>6, <1>7, <1>8, <1>9, <1>10, <1>11

LEMMA TypesStep ==
  ASSUME WritesTyped, WritesOK, RowsTyped, [Next]_vars
  PROVE  WritesTyped' /\ RowsTyped'
<1>0. mutations \in Nat /\ mutations \in 0..MaxMutations /\ MaxMutations \in Nat
  BY AdminAssumption DEF WritesTyped
<1>1. ASSUME UNCHANGED <<write, mutations>> PROVE WritesTyped'
  BY <1>1 DEF WritesTyped
<1>2. ASSUME UNCHANGED <<db, wanted, mutations>> PROVE RowsTyped'
  BY <1>2 DEF RowsTyped
<1>3. ASSUME NEW w \in Writers, NEW o \in Operations[asked], Begin(w, o)
      PROVE  WritesTyped' /\ RowsTyped'
  <2>1. /\ mutations' = mutations + 1 /\ mutations' \in 0..MaxMutations
        /\ UNCHANGED <<db, wanted>>
    BY <1>0, <1>3 DEF Begin, history
  <2>2. 0..mutations \subseteq 0..mutations'
    BY <1>0, <2>1
  <2>3. PICK r : r = [NotWriting EXCEPT !.op = o, !.number = mutations + 1, !.todo = CommandsOf(o),
                                        !.row = IF o = "assignRoles" THEN db["profile"] ELSE Gone]
    OBVIOUS
  <2>4. write' = [write EXCEPT ![w] = r]
    BY <1>3, <2>3 DEF Begin
  <2>8. RowContents(mutations) \subseteq RowContents(mutations')
    BY <2>2 DEF RowContents
  <2>5. RecordTyped(r, mutations')
    <3>1. /\ r.number = mutations + 1 /\ r.seen = {} /\ r.found = {} /\ r.locks = {}
          /\ r.row \in {db["profile"], Gone}
      BY <2>3 DEF NotWriting
    <3>2. r.row \in RowContents(mutations')
      BY <2>8, <3>1 DEF RowsTyped, RowContents, Cells
    <3>3. r.number \in 0..mutations'
      BY <1>0, <2>1, <3>1
    <3>4. QED BY <3>1, <3>2, <3>3 DEF RecordTyped
  <2>6. \A v \in Writers : RecordTyped(write[v], mutations')
    BY <2>2, <2>8 DEF WritesTyped, RecordTyped
  <2>7. WritesTyped'
    BY <2>1, <2>4, <2>5, <2>6 DEF WritesTyped, WritesOK
  <2>9. RowsTyped'
    BY <2>1, <2>8 DEF RowsTyped
  <2>10. QED BY <2>7, <2>9
<1>4. ASSUME NEW w \in Writers, See(w) PROVE WritesTyped' /\ RowsTyped'
  <2>1. /\ AtCommand(w, "see") /\ Savable(w) /\ UNCHANGED <<db, wanted, mutations>>
        /\ GoOn(w, [write[w] EXCEPT !.seen = db[Cell(w)],
                                    !.row = IF @ = db["profile"] THEN Gone ELSE @])
    BY <1>4 DEF See
  <2>2. PICK x : x = Cell(w)
    OBVIOUS
  <2>3. x \in Cells
    BY <2>1, <2>2, CellsAre
  <2>4. db[x] \subseteq 0..mutations
    BY <2>1, <2>2, <2>3, SavableThere DEF RowsTyped, RowContents
  <2>5. PICK q : q = write[w]
    OBVIOUS
  <2>6. q = [op |-> q.op, number |-> q.number, todo |-> q.todo, seen |-> q.seen, row |-> q.row,
             found |-> q.found, locks |-> q.locks]
    BY <2>5, WriteFields
  <2>7. PICK k : k = [q EXCEPT !.seen = db[x], !.row = IF @ = db["profile"] THEN Gone ELSE @]
    OBVIOUS
  <2>8. k = [op |-> k.op, number |-> k.number, todo |-> k.todo, seen |-> k.seen, row |-> k.row,
             found |-> k.found, locks |-> k.locks]
    BY <2>6, <2>7
  <2>9. RecordTyped(q, mutations)
    BY <2>5 DEF WritesTyped
  <2>10. /\ k.number = q.number /\ k.seen = db[x] /\ k.found = q.found /\ k.locks = q.locks
         /\ k.row \in {q.row, Gone}
    BY <2>6, <2>7
  <2>11. RecordTyped(k, mutations)
    BY <2>4, <2>9, <2>10 DEF RecordTyped, RowContents
  <2>12. WritesTyped'
    BY <2>1, <2>2, <2>5, <2>7, <2>8, <2>11, GoOnTyped
  <2>13. QED BY <1>2, <2>1, <2>12
<1>5. ASSUME NEW w \in Writers, DelKey(w) \/ DelLock(w) \/ DelFound(w)
      PROVE  WritesTyped' /\ RowsTyped'
  <2>1. GoOn(w, write[w]) /\ UNCHANGED <<db, wanted, mutations>>
    BY <1>5 DEF DelKey, DelLock, DelFound, history
  <2>2. QED BY <1>2, <2>1, WriteFields, GoOnTyped DEF WritesTyped
<1>6. ASSUME NEW w \in Writers, Scan(w) PROVE WritesTyped' /\ RowsTyped'
  <2>1. PICK q, S : q = write[w] /\ S = KeysOf(w)
    OBVIOUS
  <2>2. S \subseteq Keys
    <3>1. PICK n \in Clearing : AtCommand(w, n)
      BY <1>6 DEF Scan, Clearing
    <3>2. Head(write[w].todo) \in KeyCommands
      BY <3>1, Whereabouts DEF Clearing
    <3>3. QED BY <2>1, <3>2 DEF KeysOf, KeyCommands
  <2>3. PICK F \in SUBSET S, L \in SUBSET S : GoOn(w, [q EXCEPT !.found = F, !.locks = L])
    <3>1. Found(S) \in SUBSET S /\ FoundLocks(S) \in SUBSET S /\ {} \in SUBSET S
      BY DEF Found, FoundLocks
    <3>2. \/ GoOn(w, [q EXCEPT !.found = Found(S), !.locks = FoundLocks(S)])
          \/ GoOn(w, [q EXCEPT !.found = Found(S), !.locks = {}])
      BY <1>6, <2>1 DEF Scan
    <3>3. QED BY <3>1, <3>2
  <2>4. UNCHANGED <<db, wanted, mutations>>
    BY <1>6 DEF Scan, history
  <2>5. q = [op |-> q.op, number |-> q.number, todo |-> q.todo, seen |-> q.seen, row |-> q.row,
             found |-> q.found, locks |-> q.locks]
    BY <2>1, WriteFields
  <2>6. PICK k : k = [q EXCEPT !.found = F, !.locks = L]
    OBVIOUS
  <2>7. /\ k = [op |-> k.op, number |-> k.number, todo |-> k.todo, seen |-> k.seen, row |-> k.row,
                found |-> k.found, locks |-> k.locks]
        /\ k.number = q.number /\ k.seen = q.seen /\ k.row = q.row /\ k.found = F /\ k.locks = L
    BY <2>5, <2>6
  <2>8. RecordTyped(k, mutations)
    BY <2>1, <2>2, <2>7 DEF RecordTyped, WritesTyped
  <2>9. WritesTyped'
    BY <2>3, <2>4, <2>6, <2>7, <2>8, GoOnTyped
  <2>10. QED BY <1>2, <2>4, <2>9
<1>7. ASSUME NEW w \in Writers, Refused(w) \/ Break(w) PROVE WritesTyped' /\ RowsTyped'
  <2>1. GiveUp(w) /\ UNCHANGED <<db, wanted, mutations>>
    BY <1>7 DEF Refused, Break, history
  <2>2. QED BY <1>2, <2>1, GiveUpTyped
<1>8. CASE UNCHANGED <<write, db, wanted, mutations>>
  BY <1>1, <1>2, <1>8
<1>9. QED
  BY <1>3, <1>4, <1>5, <1>6, <1>7, <1>8, RowsKeepTypes
  DEF Next, Command, ReaderStep, WaitEnds, ValueLapses, OnCache, adminVars, vars, history

\* A reader that is idle has nothing, faults are counted, and only readers lose locks.
RestTyped ==
  /\ \A c \in Readers : read[c].pc = "idle" => read[c] = NotReading
  /\ faults \in 0..MaxFaults /\ lost \subseteq Readers

LEMMA RestMoves ==
  ASSUME LocksTyped, RestTyped, NEW c \in Readers, NEW r,
         read' = [read EXCEPT ![c] = r], r.pc # "idle" \/ r = NotReading,
         faults' = faults \/ (faults < MaxFaults /\ faults' = faults + 1), lost' \subseteq Readers
  PROVE  RestTyped'
<1>1. \A d \in Readers : read'[d] = IF d = c THEN r ELSE read[d]
  BY DEF LocksTyped
<1>2. faults' \in 0..MaxFaults
  BY CacheAssumption DEF RestTyped
<1>3. QED BY <1>1, <1>2 DEF RestTyped

LEMMA RestReturns ==
  ASSUME LocksTyped, RestTyped, NEW c \in Readers, Return(c),
         faults' = faults \/ (faults < MaxFaults /\ faults' = faults + 1)
  PROVE  RestTyped'
<1>1. lost' \subseteq Readers
  BY DEF Return, RestTyped
<1>2. QED BY <1>1, RestMoves DEF Return

\* A reader goes on to another stage.
LEMMA RestSteps ==
  ASSUME LocksTyped, RestTyped, NEW c \in Readers, NEW stage, stage # "idle", Step(c, stage),
         UNCHANGED faults, lost' \subseteq Readers
  PROVE  RestTyped'
<1>1. read[c] = [pc |-> read[c].pc, key |-> read[c].key, held |-> read[c].held, got |-> read[c].got]
  BY DEF LocksTyped, ReadTyped
<1>2. PICK r : r = [read[c] EXCEPT !.pc = stage]
  OBVIOUS
<1>3. r.pc = stage
  BY <1>1, <1>2
<1>4. read' = [read EXCEPT ![c] = r]
  BY <1>2 DEF Step
<1>5. QED BY <1>3, <1>4, RestMoves

LEMMA RestStep ==
  ASSUME LocksTyped, RestTyped, [Next]_vars
  PROVE  RestTyped'
<1>0. lost \subseteq Readers /\ \A k : HoldersOf(k) \subseteq Readers
  BY DEF RestTyped, HoldersOf
<1>1. ASSUME NEW c \in Readers
      PROVE  read[c] = [pc |-> read[c].pc, key |-> read[c].key, held |-> read[c].held,
                        got |-> read[c].got]
  BY DEF LocksTyped, ReadTyped
<1>2. ASSUME NEW c \in Readers, AcquireLock(c) PROVE RestTyped'
  <2>1. CASE Step(c, "subscribe")
    BY <1>0, <1>2, <2>1, RestSteps DEF AcquireLock
  <2>2. ASSUME NEW s, read' = [read EXCEPT ![c] = [@ EXCEPT !.pc = "fetch", !.held = s]]
        PROVE  RestTyped'
    <3>1. PICK r : r = [read[c] EXCEPT !.pc = "fetch", !.held = s]
      OBVIOUS
    <3>2. r.pc = "fetch"
      BY <1>1, <3>1
    <3>3. QED BY <1>0, <1>2, <2>2, <3>1, <3>2, RestMoves DEF AcquireLock
  <2>3. QED BY <1>2, <2>1, <2>2 DEF AcquireLock
<1>3. ASSUME NEW c \in Readers, Store(c) PROVE RestTyped'
  <2>1. PICK r : r = [read[c] EXCEPT !.pc = "release", !.got = None]
    OBVIOUS
  <2>2. r.pc = "release"
    BY <1>1, <2>1
  <2>3. QED BY <1>0, <1>3, <2>1, <2>2, RestMoves DEF Store
<1>4. ASSUME NEW c \in Readers, Release(c) PROVE RestTyped'
  <2>1. lost' \subseteq Readers
    BY <1>0, <1>4 DEF Release
  <2>2. QED BY <1>4, <2>1, RestSteps DEF Release
<1>5. ASSUME NEW c \in Readers, Publish(c) PROVE RestTyped'
  <2>1. ASSUME NEW d \in Readers, read'[d].pc = "idle" PROVE read'[d] = NotReading
    <3>1. CASE d = c
      BY <1>5, <3>1 DEF Publish
    <3>2. CASE d # c /\ AtRead(d, "wait") /\ read[d].key = read[c].key
      <4>1. PICK r : r = [read[d] EXCEPT !.pc = "reread"]
        OBVIOUS
      <4>2. read'[d] = r
        BY <1>5, <3>2, <4>1 DEF Publish
      <4>3. r.pc = "reread"
        BY <1>1, <4>1
      <4>4. QED BY <2>1, <4>2, <4>3
    <3>3. CASE d # c /\ ~(AtRead(d, "wait") /\ read[d].key = read[c].key)
      <4>1. read'[d] = read[d]
        BY <1>5, <3>3 DEF Publish
      <4>2. QED BY <2>1, <4>1 DEF RestTyped
    <3>4. QED BY <3>1, <3>2, <3>3
  <2>2. faults' = faults /\ lost' \subseteq Readers
    BY <1>0, <1>5 DEF Publish
  <2>3. QED BY <2>1, <2>2 DEF RestTyped
<1>6. ASSUME NEW c \in Readers, Subscribe(c) \/ TimeOut(c) PROVE RestTyped'
  BY <1>0, <1>6, RestSteps DEF Subscribe, TimeOut
<1>7. ASSUME NEW c \in Readers, Reread(c) PROVE RestTyped'
  BY <1>0, <1>7, RestSteps, RestReturns DEF Reread
<1>8. ASSUME NEW c \in Readers, NEW v, Fetched(c, v) PROVE RestTyped'
  <2>1. CASE Return(c)
    BY <1>8, <2>1, RestReturns DEF Fetched
  <2>2. CASE read' = [read EXCEPT ![c] = [@ EXCEPT !.pc = "store", !.got = v]] /\ UNCHANGED lost
    <3>1. PICK r : r = [read[c] EXCEPT !.pc = "store", !.got = v]
      OBVIOUS
    <3>2. r.pc = "store"
      BY <1>1, <3>1
    <3>3. QED BY <1>0, <1>8, <2>2, <3>1, <3>2, RestMoves DEF Fetched
  <2>3. QED BY <1>8, <2>1, <2>2 DEF Fetched
<1>9. ASSUME NEW c \in Readers, FetchThrows(c) PROVE RestTyped'
  BY <1>0, <1>9, RestSteps, RestReturns DEF FetchThrows
<1>10. ASSUME NEW c \in Readers, RedisFails(c) PROVE RestTyped'
  <2>1. CASE Return(c)
    BY <1>10, <2>1, RestReturns DEF RedisFails
  <2>2. ASSUME NEW stage, stage # "idle", lost' = lost,
               read' = [read EXCEPT ![c] = [@ EXCEPT !.pc = stage, !.got = None]]
        PROVE  RestTyped'
    <3>1. PICK r : r = [read[c] EXCEPT !.pc = stage, !.got = None]
      OBVIOUS
    <3>2. r.pc = stage
      BY <1>1, <3>1
    <3>3. QED BY <1>0, <1>10, <2>2, <3>1, <3>2, RestMoves DEF RedisFails
  <2>3. QED BY <1>10, <2>1, <2>2 DEF RedisFails
<1>11. ASSUME NEW c \in Readers, ReaderDies(c) PROVE RestTyped'
  BY <1>11, RestReturns DEF ReaderDies
<1>12. ASSUME NEW c \in Readers, NEW k, Miss(c, k) \/ ReadFails(c, k) PROVE RestTyped'
  <2>1. PICK r : r = [NotReading EXCEPT !.pc = "lock", !.key = k]
    OBVIOUS
  <2>2. r.pc = "lock"
    BY <2>1 DEF NotReading
  <2>3. QED BY <1>0, <1>12, <2>1, <2>2, RestMoves DEF Miss, ReadFails
<1>13. ASSUME NEW k \in Keys, LockLapses(k) PROVE RestTyped'
  <2>1. faults' \in 0..MaxFaults
    BY <1>13, CacheAssumption DEF LockLapses, RestTyped
  <2>2. QED BY <1>0, <1>13, <2>1 DEF LockLapses, RestTyped
<1>14. CASE UNCHANGED <<read, faults>> /\ lost' \subseteq Readers
  BY <1>14 DEF RestTyped
<1>15. ASSUME NEW w \in Writers, Command(w) PROVE UNCHANGED <<read, faults>> /\ lost' \subseteq Readers
  BY <1>0, <1>15
  DEF Command, Create, Put, Cut, Drop, Wipe, Insert, Replace, Change, See, Refused, DelKey,
      DelLock, Scan, DelFound, Unlock, cacheVars
<1>16. ASSUME NEW w \in Writers, Break(w) PROVE RestTyped'
  <2>1. faults' \in 0..MaxFaults /\ UNCHANGED <<read, lost>>
    BY <1>16, CacheAssumption DEF Break, RestTyped
  <2>2. QED BY <2>1 DEF RestTyped
<1>17. ASSUME NEW c \in Readers, ReaderStep(c) \/ WaitEnds(c) PROVE RestTyped'
  <2>1. ASSUME Proceed(c) PROVE RestTyped'
    BY <1>2, <1>3, <1>4, <1>5, <1>6, <1>7, <2>1 DEF Proceed
  <2>2. ASSUME Fetch(c) PROVE RestTyped'
    BY <1>8, <1>9, <2>2 DEF Fetch
  <2>3. QED BY <1>6, <1>17, <2>1, <2>2 DEF ReaderStep, WaitEnds
<1>18. ASSUME Happening PROVE RestTyped'
  BY <1>10, <1>11, <1>12, <1>13, <1>18 DEF Happening
<1>19. ASSUME NEW k \in Keys, ValueLapses(k) PROVE RestTyped'
  BY <1>0, <1>14, <1>19 DEF ValueLapses, Lapse
<1>20. ASSUME NEW w \in Writers, NEW o, Begin(w, o) PROVE RestTyped'
  BY <1>0, <1>14, <1>20 DEF Begin, cacheVars
<1>21. CASE UNCHANGED vars
  BY <1>0, <1>14, <1>21 DEF vars, cacheVars
<1>22. QED
  BY <1>14, <1>15, <1>16, <1>17, <1>18, <1>19, <1>20, <1>21 DEF Next

\* What the properties speak of.
HistoryTyped == mixed \subseteq Cells /\ excused \subseteq Keys

\* Only keys are left to clear.
LEMMA KeysAreCleared ==
  ASSUME WritesOK, WritesTyped, NEW w \in Writers
  PROVE  ToClear(w) \subseteq Keys
<1>1. PICK r : r = write[w]
  OBVIOUS
<1>2. asked \subseteq Keys /\ WriteOK(r) /\ r.found \subseteq Keys
  BY <1>1 DEF WritesOK, WritesTyped, RecordTyped
<1>3. ASSUME NEW t \in KeyLists, NEW k, Clears(t, k) PROVE k \in Keys
  <2>1. PICK i \in 1..Len(t) : k \in t[i].keys
    BY <1>3 DEF Clears
  <2>2. t[i] \in KeyCommands
    BY DEF KeyLists
  <2>3. QED BY <2>1, <2>2 DEF KeyCommands
<1>4. ASSUME r.todo \in KeyLists PROVE ToClearOf(r) \subseteq Keys
  BY <1>2, <1>3, <1>4, KeysToClear
<1>5. ASSUME First(r) PROVE ToClearOf(r) \subseteq Keys
  <2>1. CachesOf(r.op) \in KeyLists
    BY <1>2, <1>5, CachesAre DEF First
  <2>2. QED BY <1>2, <1>3, <1>5, <2>1, AtFirst
<1>6. ASSUME Second(r) PROVE ToClearOf(r) \subseteq Keys
  <2>1. r.op \in OperationNames
    BY <1>2, <1>6, AtSecond
  <2>2. CachesOf(r.op) \in KeyLists
    BY <1>2, <2>1, CachesAre
  <2>3. QED BY <1>2, <1>3, <1>6, <2>2, AtSecond
<1>7. ToClearOf(r) \subseteq Keys
  BY <1>2, <1>4, <1>5, <1>6 DEF WriteOK
<1>8. QED BY <1>1, <1>7, ToClearIs

LEMMA HistoryStep ==
  ASSUME WritesOK, WritesTyped, LocksTyped, HistoryTyped, [Next]_vars
  PROVE  HistoryTyped'
<1>1. ASSUME NEW S, S \subseteq Keys, Excuse(S) PROVE excused' \subseteq Keys
  BY <1>1 DEF Excuse, HistoryTyped
<1>2. ASSUME NEW w, NEW x \in Cells, MarkMixed(w, x) PROVE mixed' \subseteq Cells
  BY <1>2 DEF MarkMixed, HistoryTyped
<1>3. ASSUME NEW w \in Writers,
             Create(w) \/ Put(w) \/ Cut(w) \/ Drop(w) \/ Wipe(w) \/ Insert(w) \/ Replace(w)
      PROVE  HistoryTyped'
  <2>1. PICK n \in {"create", "put", "cut", "drop", "wipe", "insert", "replace"} :
          AtCommand(w, n) /\ \E content, wish : Change(w, content, wish)
    BY <1>3 DEF Create, Put, Cut, Drop, Wipe, Insert, Replace
  <2>2. Cell(w) \in Cells
    BY <2>1, CellsAre
  <2>3. MarkMixed(w, Cell(w)) /\ \E S \in SUBSET Keys : Excuse(S)
    BY <2>1 DEF Change
  <2>4. QED BY <1>1, <1>2, <2>2, <2>3 DEF HistoryTyped
<1>4. ASSUME NEW w \in Writers, See(w) PROVE HistoryTyped'
  <2>1. AtCommand(w, "see") /\ MarkMixed(w, Cell(w)) /\ UNCHANGED excused
    BY <1>4 DEF See
  <2>2. Cell(w) \in Cells
    BY <2>1, CellsAre
  <2>3. QED BY <1>2, <2>1, <2>2 DEF HistoryTyped
<1>5. ASSUME NEW w \in Writers, DelKey(w) \/ DelFound(w) PROVE HistoryTyped'
  <2>1. UNCHANGED mixed /\ Excuse({})
    BY <1>5 DEF DelKey, DelFound
  <2>2. QED BY <1>1, <2>1 DEF HistoryTyped
<1>6. ASSUME NEW w \in Writers, Break(w) PROVE HistoryTyped'
  <2>1. Excuse(ToClear(w)) /\ mixed' = IF AtCommand(w, "insert") THEN mixed \cup {Cell(w)} ELSE mixed
    BY <1>6 DEF Break
  <2>2. AtCommand(w, "insert") => Cell(w) \in Cells
    BY CellsAre
  <2>3. mixed' \subseteq Cells
    BY <2>1, <2>2 DEF HistoryTyped
  <2>4. excused' \subseteq Keys
    BY <1>1, <2>1, KeysAreCleared
  <2>5. QED BY <2>3, <2>4 DEF HistoryTyped
<1>7. ASSUME OnCache PROVE HistoryTyped'
  <2>1. Storing \subseteq Keys
    BY DEF Storing, AtRead, LocksTyped, ReadTyped
  <2>2. UNCHANGED mixed /\ Excuse({k \in Storing : cache'[k] # cache[k]})
    BY <1>7 DEF OnCache
  <2>3. {k \in Storing : cache'[k] # cache[k]} \subseteq Keys
    BY <2>1
  <2>4. QED BY <1>1, <2>2, <2>3 DEF HistoryTyped
<1>8. CASE UNCHANGED <<mixed, excused>>
  BY <1>8 DEF HistoryTyped
<1>9. ASSUME NEW w \in Writers, Command(w) PROVE HistoryTyped'
  BY <1>3, <1>4, <1>5, <1>8, <1>9 DEF Command, Refused, DelLock, Scan, history
<1>10. QED
  BY <1>6, <1>7, <1>8, <1>9 DEF Next, ReaderStep, WaitEnds, ValueLapses, Begin, history, vars

LEMMA TypesInit ==
  ASSUME Init
  PROVE  WritesTyped /\ RowsTyped /\ RestTyped /\ HistoryTyped
<1>1. MaxMutations \in Nat /\ MaxFaults \in Nat /\ {0} # Gone
  <2>1. {0} \in SUBSET (0..MaxMutations)
    BY AdminAssumption
  <2>2. QED BY <2>1, AdminAssumption, CacheAssumption
<1>2. WritesTyped
  BY <1>1 DEF Init, WritesTyped, RecordTyped, RowContents, NotWriting
<1>3. RowsTyped
  <2>1. \A x \in Cells : db[x] \in RowContents(mutations)
    BY <1>1 DEF Init, RowContents
  <2>2. "grants" \in Cells /\ db["grants"] # Gone
    BY DEF Init, Cells
  <2>3. QED BY <2>1, <2>2 DEF Init, RowsTyped
<1>4. RestTyped
  BY <1>1 DEF Init, CacheInit, RestTyped
<1>5. QED BY <1>2, <1>3, <1>4 DEF Init, HistoryTyped

\* The Redis keys, the rows, the calls and the operations have their types: for any
\* readers, operations in progress, keys and failures.
THEOREM CachesTyped == Spec => []TypeOK
<1>1. Init => WritesOK /\ RowsWhole /\ StaleInv /\ WritesTyped /\ RowsTyped /\ RestTyped /\ HistoryTyped
  BY WritesInit, RowsInit, StaleInvInit, TypesInit
<1>2. LockInv /\ WritesOK /\ RowsWhole /\ StaleInv /\ [Next]_vars
        => WritesOK' /\ RowsWhole' /\ StaleInv'
  BY WritesStep, RowsStep, StaleInvStep
<1>3. /\ LockInv /\ WritesOK /\ WritesTyped /\ RowsTyped /\ RestTyped /\ HistoryTyped
      /\ [Next]_vars
      => WritesTyped' /\ RowsTyped' /\ RestTyped' /\ HistoryTyped'
  BY TypesStep, RestStep, HistoryStep DEF LockInv
<1>4. /\ LockInv /\ WritesOK /\ WritesTyped /\ RowsTyped /\ RestTyped /\ HistoryTyped
      /\ StaleInv
      => TypeOK
  <2> SUFFICES ASSUME LockInv, WritesOK, WritesTyped, RowsTyped, RestTyped, HistoryTyped,
                      StaleInv
               PROVE  TypeOK
    OBVIOUS
  <2>1. mutations \in Nat /\ 0..mutations \subseteq 0..MaxMutations
    BY AdminAssumption DEF WritesTyped
  <2>2. db \in [Cells -> Contents] /\ wanted \in [Cells -> Contents]
    BY <2>1 DEF RowsTyped, RowContents, Contents
  <2>3. ASSUME NEW c \in Readers, read[c] # NotReading
        PROVE  /\ read[c].pc \in {"lock", "fetch", "store", "release", "publish", "subscribe",
                                  "wait", "reread"}
               /\ read[c].key \in Keys /\ read[c].held \in Stamps \cup {None}
    BY <2>3 DEF LockInv, LocksTyped, ReadTyped, RestTyped
  <2>4. QED
    BY <2>2, <2>3
    DEF TypeOK, LockInv, StaleInv, AskedOnly, LocksTyped, WritesOK, WritesTyped, RecordTyped, RestTyped, HistoryTyped
<1>5. QED BY <1>1, <1>2, <1>3, <1>4, LocksKept, PTL DEF Spec

-----------------------------------------------------------------------------
(***************************************************************************)
(* Readers and operations come to an end.                                  *)
(***************************************************************************)

\* The most stages that a reader has still ahead of it.
StagesLeft(r) ==
  CASE r.pc = "lock" -> 8
    [] r.pc = "subscribe" -> 7
    [] r.pc = "wait" -> 6
    [] r.pc = "reread" -> 5
    [] r.pc = "fetch" -> 4
    [] r.pc = "store" -> 3
    [] r.pc = "release" -> 2
    [] r.pc = "publish" -> 1
    [] OTHER -> 0

\* Whoever moves a reader, the reader itself, a message or a fault, moves it towards its end.
ReadersFall ==
  \A c \in Readers :
    ReaderStep(c) \/ WaitEnds(c) \/ (read[c] # NotReading /\ read'[c] # read[c])
      => StagesLeft(read'[c]) < StagesLeft(read[c])

\* ... and every command, done or broken off, leaves its operation fewer.
OperationsFall ==
  \A w \in Writers :
    Command(w) \/ Break(w) \/ (write[w] # NotWriting /\ write'[w] # write[w])
      => Len(write'[w].todo) < Len(write[w].todo)

CommandNames ==
  Clearing \cup {"unlock", "delFound", "create", "put", "cut", "drop", "wipe", "insert", "see", "replace"}

\* A call in progress is at a stage, or before a command, that there is a step for.
CallsHaveSteps ==
  /\ \A c \in Readers : read[c] # NotReading => StagesLeft(read[c]) \in 1..8
  /\ \A w \in Writers : write[w] # NotWriting =>
       Len(write[w].todo) \in 1..8 /\ \E n \in CommandNames : AtCommand(w, n)

\* A reader alone moves, to fewer stages.
LEMMA OneReadFalls ==
  ASSUME LocksTyped, NEW c \in Readers, NEW r, read' = [read EXCEPT ![c] = r],
         StagesLeft(r) < StagesLeft(read[c])
  PROVE  /\ StagesLeft(read'[c]) < StagesLeft(read[c])
         /\ \A d \in Readers \ {c} : read'[d] = read[d]
BY DEF LocksTyped

LEMMA ReturnFalls ==
  ASSUME LocksTyped, NEW c \in Readers, Return(c), read[c].pc # "idle"
  PROVE  /\ StagesLeft(read'[c]) < StagesLeft(read[c])
         /\ \A d \in Readers \ {c} : read'[d] = read[d]
<1>1. StagesLeft(NotReading) < StagesLeft(read[c])
  <2>1. StagesLeft(NotReading) = 0
    BY DEF StagesLeft, NotReading
  <2>2. ReadTyped(read[c])
    BY DEF LocksTyped
  <2>3. StagesLeft(read[c]) \in 1..8
    BY <2>2 DEF ReadTyped, StagesLeft
  <2>4. QED BY <2>1, <2>3
<1>2. QED BY <1>1, OneReadFalls DEF Return

\* A step to a later stage, whatever else it remembers.
LEMMA StageFalls ==
  ASSUME LocksTyped, NEW c \in Readers, NEW r, read' = [read EXCEPT ![c] = r],
         \/ read[c].pc = "lock" /\ r.pc \in {"subscribe", "fetch"}
         \/ read[c].pc = "subscribe" /\ r.pc \in {"wait", "reread"}
         \/ read[c].pc = "wait" /\ r.pc = "reread"
         \/ read[c].pc = "reread" /\ r.pc = "fetch"
         \/ read[c].pc = "fetch" /\ r.pc \in {"store", "release"}
         \/ read[c].pc = "store" /\ r.pc = "release"
         \/ read[c].pc = "release" /\ r.pc = "publish"
  PROVE  /\ StagesLeft(read'[c]) < StagesLeft(read[c])
         /\ \A d \in Readers \ {c} : read'[d] = read[d]
<1>1. StagesLeft(r) < StagesLeft(read[c])
  BY DEF StagesLeft
<1>2. QED BY <1>1, OneReadFalls

\* The same for a step that changes the stage alone.
LEMMA StepFalls ==
  ASSUME LocksTyped, NEW c \in Readers, NEW stage, Step(c, stage),
         \/ read[c].pc = "lock" /\ stage = "subscribe"
         \/ read[c].pc = "subscribe" /\ stage \in {"wait", "reread"}
         \/ read[c].pc = "wait" /\ stage = "reread"
         \/ read[c].pc = "reread" /\ stage = "fetch"
         \/ read[c].pc = "fetch" /\ stage = "release"
         \/ read[c].pc = "release" /\ stage = "publish"
  PROVE  /\ StagesLeft(read'[c]) < StagesLeft(read[c])
         /\ \A d \in Readers \ {c} : read'[d] = read[d]
<1>1. read[c] = [pc |-> read[c].pc, key |-> read[c].key, held |-> read[c].held, got |-> read[c].got]
  BY DEF LocksTyped, ReadTyped
<1>2. PICK r : r = [read[c] EXCEPT !.pc = stage]
  OBVIOUS
<1>3. r.pc = stage
  BY <1>1, <1>2
<1>4. read' = [read EXCEPT ![c] = r]
  BY <1>2 DEF Step
<1>5. QED BY <1>3, <1>4, StageFalls

\* The reader that steps falls, and so does each one that its message wakes.
LEMMA ReaderFalls ==
  ASSUME LocksTyped, NEW c \in Readers, Proceed(c) \/ Fetch(c) \/ TimeOut(c)
  PROVE  /\ StagesLeft(read'[c]) < StagesLeft(read[c])
         /\ \A d \in Readers \ {c} :
              read'[d] = read[d] \/ StagesLeft(read'[d]) < StagesLeft(read[d])
<1> DEFINE Fallen ==
             /\ StagesLeft(read'[c]) < StagesLeft(read[c])
             /\ \A d \in Readers \ {c} :
                  read'[d] = read[d] \/ StagesLeft(read'[d]) < StagesLeft(read[d])
<1>0. ASSUME NEW d \in Readers
      PROVE  read[d] = [pc |-> read[d].pc, key |-> read[d].key, held |-> read[d].held,
                        got |-> read[d].got]
  BY DEF LocksTyped, ReadTyped
<1>1. ASSUME AcquireLock(c) PROVE Fallen
  <2>1. CASE Step(c, "subscribe")
    BY <1>1, <2>1, StepFalls DEF AcquireLock, AtRead
  <2>2. ASSUME NEW s, read' = [read EXCEPT ![c] = [@ EXCEPT !.pc = "fetch", !.held = s]]
        PROVE  Fallen
    <3>1. PICK r : r = [read[c] EXCEPT !.pc = "fetch", !.held = s]
      OBVIOUS
    <3>2. r.pc = "fetch"
      BY <1>0, <3>1
    <3>3. QED BY <1>1, <2>2, <3>1, <3>2, StageFalls DEF AcquireLock, AtRead
  <2>3. QED BY <1>1, <2>1, <2>2 DEF AcquireLock
<1>2. ASSUME Store(c) PROVE Fallen
  <2>1. PICK r : r = [read[c] EXCEPT !.pc = "release", !.got = None]
    OBVIOUS
  <2>2. r.pc = "release"
    BY <1>0, <2>1
  <2>3. QED BY <1>2, <2>1, <2>2, StageFalls DEF Store, AtRead
<1>3. ASSUME Publish(c) PROVE Fallen
  <2>1. read'[c] = NotReading /\ read[c].pc = "publish"
    BY <1>3 DEF Publish, AtRead
  <2>2. StagesLeft(read'[c]) < StagesLeft(read[c])
    BY <2>1 DEF StagesLeft, NotReading
  <2>3. ASSUME NEW d \in Readers \ {c}, read'[d] # read[d]
        PROVE  StagesLeft(read'[d]) < StagesLeft(read[d])
    <3>1. read[d].pc = "wait" /\ read'[d] = [read[d] EXCEPT !.pc = "reread"]
      BY <1>3, <2>3 DEF Publish, AtRead
    <3>2. PICK r : r = [read[d] EXCEPT !.pc = "reread"]
      OBVIOUS
    <3>3. r.pc = "reread"
      BY <1>0, <3>2
    <3>4. QED BY <3>1, <3>2, <3>3 DEF StagesLeft
  <2>4. QED BY <2>2, <2>3
<1>4. ASSUME Release(c) \/ Subscribe(c) \/ TimeOut(c) PROVE Fallen
  BY <1>4, StepFalls DEF Release, Subscribe, TimeOut, Waits, AtRead
<1>5. ASSUME Reread(c) PROVE Fallen
  <2>1. CASE Return(c)
    BY <1>5, <2>1, ReturnFalls DEF Reread, AtRead
  <2>2. CASE Step(c, "fetch")
    BY <1>5, <2>2, StepFalls DEF Reread, AtRead
  <2>3. QED BY <1>5, <2>1, <2>2 DEF Reread
<1>6. ASSUME Fetch(c) PROVE Fallen
  <2>0. read[c].pc = "fetch"
    BY <1>6 DEF Fetch, AtRead
  <2>1. CASE Return(c)
    BY <2>0, <2>1, ReturnFalls
  <2>2. CASE Step(c, "release")
    BY <2>0, <2>2, StepFalls
  <2>3. ASSUME NEW v, read' = [read EXCEPT ![c] = [@ EXCEPT !.pc = "store", !.got = v]]
        PROVE  Fallen
    <3>1. PICK r : r = [read[c] EXCEPT !.pc = "store", !.got = v]
      OBVIOUS
    <3>2. r.pc = "store"
      BY <1>0, <3>1
    <3>3. QED BY <2>0, <2>3, <3>1, <3>2, StageFalls
  <2>4. QED BY <1>6, <2>1, <2>2, <2>3 DEF Fetch, Fetched, FetchThrows
<1>7. QED BY <1>1, <1>2, <1>3, <1>4, <1>5, <1>6 DEF Proceed

\* An error of Redis does not hold a reader up.
LEMMA ErrorFalls ==
  ASSUME LocksTyped, NEW c \in Readers, RedisFails(c)
  PROVE  /\ StagesLeft(read'[c]) < StagesLeft(read[c])
         /\ \A d \in Readers \ {c} : read'[d] = read[d]
<1>1. read[c] = [pc |-> read[c].pc, key |-> read[c].key, held |-> read[c].held, got |-> read[c].got]
  BY DEF LocksTyped, ReadTyped
<1>2. CASE Return(c)
  BY <1>2, ReturnFalls DEF RedisFails, AfterError
<1>3. CASE read' = [read EXCEPT ![c] = [@ EXCEPT !.pc = AfterError[read[c].pc], !.got = None]]
           /\ AfterError[read[c].pc] # "idle"
  <2>1. PICK r : r = [read[c] EXCEPT !.pc = AfterError[read[c].pc], !.got = None]
    OBVIOUS
  <2>2. r.pc = AfterError[read[c].pc]
    BY <1>1, <2>1
  <2>3. StagesLeft(r) < StagesLeft(read[c])
    BY <1>3, <2>2 DEF RedisFails, AfterError, StagesLeft
  <2>4. QED BY <1>3, <2>1, <2>3, OneReadFalls
<1>4. QED BY <1>2, <1>3 DEF RedisFails

\* No step takes a reader back.
LEMMA ReadersStep ==
  ASSUME LocksTyped, RestTyped, [Next]_vars
  PROVE  ReadersFall
<1>1. ASSUME NEW c \in Readers, ReaderStep(c) \/ WaitEnds(c)
      PROVE  StagesLeft(read'[c]) < StagesLeft(read[c])
  BY <1>1, ReaderFalls DEF ReaderStep, WaitEnds
<1>2. SUFFICES ASSUME NEW c \in Readers, read[c] # NotReading, read'[c] # read[c]
               PROVE  StagesLeft(read'[c]) < StagesLeft(read[c])
  BY <1>1 DEF ReadersFall
<1>3. ASSUME NEW d \in Readers, ReaderStep(d) \/ WaitEnds(d)
      PROVE  StagesLeft(read'[c]) < StagesLeft(read[c])
  BY <1>2, <1>3, ReaderFalls DEF ReaderStep, WaitEnds
<1>4. ASSUME Happening PROVE StagesLeft(read'[c]) < StagesLeft(read[c])
  <2>1. ASSUME NEW d \in Readers, RedisFails(d) PROVE StagesLeft(read'[c]) < StagesLeft(read[c])
    BY <1>2, <2>1, ErrorFalls
  <2>2. ASSUME NEW d \in Readers, ReaderDies(d) PROVE StagesLeft(read'[c]) < StagesLeft(read[c])
    <3>1. read[d].pc # "idle" /\ Return(d)
      BY <2>2 DEF ReaderDies, RestTyped
    <3>2. QED BY <1>2, <3>1, ReturnFalls
  <2>3. ASSUME NEW d \in Readers, NEW k, Miss(d, k) \/ ReadFails(d, k) PROVE FALSE
    <3>1. read[d] = NotReading /\ \A e \in Readers \ {d} : read'[e] = read[e]
      BY <2>3 DEF Miss, ReadFails, LocksTyped
    <3>2. QED BY <1>2, <3>1
  <2>4. ASSUME NEW k \in Keys, LockLapses(k) PROVE FALSE
    BY <1>2, <2>4 DEF LockLapses
  <2>5. QED BY <1>4, <2>1, <2>2, <2>3, <2>4 DEF Happening
<1>5. ASSUME UNCHANGED read PROVE FALSE
  BY <1>2, <1>5
<1>6. ASSUME NEW w \in Writers, Command(w) \/ Break(w) PROVE UNCHANGED read
  BY <1>6
  DEF Command, Create, Put, Cut, Drop, Wipe, Insert, Replace, Change, See, Refused, DelKey,
      DelLock, Scan, DelFound, Break, cacheVars
<1>7. ASSUME NEW w \in Writers, NEW o, Begin(w, o) PROVE UNCHANGED read
  BY <1>7 DEF Begin, cacheVars
<1>8. ASSUME NEW k \in Keys, ValueLapses(k) PROVE UNCHANGED read
  BY <1>8 DEF ValueLapses, Lapse
<1>9. UNCHANGED vars => UNCHANGED read
  BY DEF vars, cacheVars
<1>10. QED BY <1>3, <1>4, <1>5, <1>6, <1>7, <1>8, <1>9 DEF Next

\* No operation clears more than three keys.
LEMMA FewCommands ==
  ASSUME asked \subseteq Keys, NEW o \in OperationNames
  PROVE  CommandsOf(o) \in Seq(RowCommands \cup KeyCommands) /\ Len(CommandsOf(o)) \in 1..8
<1> DEFINE Few(n) == {t \in KeyLists : Len(t) \in 0..n}
<1>1. \A k : Clear(k) \in Few(2) /\ ClearList(k) \in Few(2) /\ ClearName(k) \in Few(2)
  <2> SUFFICES ASSUME NEW k PROVE Clear(k) \in Few(2) /\ ClearList(k) \in Few(2) /\ ClearName(k) \in Few(2)
    OBVIOUS
  <2>1. Clear(k) \in KeyLists /\ ClearList(k) \in KeyLists /\ ClearName(k) \in KeyLists
    BY KeyCleared
  <2>2. Len(Clear(k)) \in 0..2 /\ Len(ClearList(k)) \in 0..2 /\ Len(ClearName(k)) \in 0..2
    BY DEF Clear, ClearList, ClearName, IfAsked
  <2>3. QED BY <2>1, <2>2
<1>2. ASSUME NEW m \in Nat, NEW n \in Nat, NEW s \in Few(m), NEW t \in Few(n)
      PROVE  s \o t \in Few(m + n)
  <2>1. s \in Seq(KeyCommands) /\ t \in Seq(KeyCommands)
    BY DEF KeyLists
  <2>2. Len(s \o t) = Len(s) + Len(t)
    BY <2>1, ConcatProperties
  <2>3. s \o t \in KeyLists
    BY ListsJoin
  <2>4. QED BY <2>2, <2>3
<1>3. <<>> \in Few(6) /\ \A n \in 0..6 : Few(n) \subseteq Few(6)
  BY KeyCleared
<1> HIDE DEF Few
<1>4. RoleChanged \in Few(4) /\ UserChanged \in Few(4) /\ CategoryChanged \in Few(4)
  <2>1. 2 \in Nat /\ 2 + 2 = 4
    OBVIOUS
  <2>2. \A s, t \in Few(2) : s \o t \in Few(4)
    BY <1>2, <2>1
  <2>3. QED BY <1>1, <2>2 DEF RoleChanged, UserChanged, CategoryChanged
<1>5. \A s \in Few(4), t \in Few(2) : s \o t \in Few(6)
  <2>1. 2 \in Nat /\ 4 \in Nat /\ 4 + 2 = 6
    OBVIOUS
  <2>2. QED BY <1>2, <2>1
<1>6. \A s, t \in Few(2) : s \o t \in Few(6)
  <2>1. 2 \in Nat /\ 2 + 2 \in 0..6
    OBVIOUS
  <2>2. QED BY <1>2, <1>3, <2>1
<1>7. Few(2) \subseteq Few(6) /\ Few(4) \subseteq Few(6)
  BY <1>3
<1>8. CachesOf(o) \in Few(6)
  BY <1>1, <1>3, <1>4, <1>5, <1>6, <1>7 DEF CachesOf, OperationNames
<1>9. PICK c : c = CachesOf(o)
  OBVIOUS
<1>10. c \in KeyLists /\ Len(c) \in 0..6
  BY <1>8, <1>9 DEF Few
<1>11. c \in Seq(RowCommands \cup KeyCommands)
  BY <1>10 DEF KeyLists
<1>12. PICK d : d = DatabaseOf(o)
  OBVIOUS
<1>13. d \in Seq(RowCommands \cup KeyCommands) /\ Len(d) \in 1..2
  <2>1. PICK x, y : x = FirstOf(o) /\ y = SecondOf(o)
    OBVIOUS
  <2>2. x \in RowCommands /\ y \in RowCommands /\ (d = <<x, y>> \/ d = <<x>>)
    BY <1>12, <2>1, DatabaseIs
  <2>3. /\ <<x, y>> \in Seq(RowCommands \cup KeyCommands) /\ <<x>> \in Seq(RowCommands \cup KeyCommands)
        /\ Len(<<x, y>>) = 2 /\ Len(<<x>>) = 1
    BY <2>2
  <2>4. 1 \in 1..2 /\ 2 \in 1..2
    OBVIOUS
  <2>5. QED BY <2>2, <2>3, <2>4, Zenon
<1>14. d \o c \in Seq(RowCommands \cup KeyCommands) /\ Len(d \o c) = Len(d) + Len(c)
  BY <1>11, <1>13, ConcatProperties
<1>15. CommandsOf(o) = d \o c
  BY <1>9, <1>12 DEF CommandsOf
<1>16. Len(d) + Len(c) \in 1..8
  <2>1. PICK m \in 1..2, n \in 0..6 : m = Len(d) /\ n = Len(c)
    BY <1>10, <1>13
  <2>2. m + n \in 1..8
    OBVIOUS
  <2>3. QED BY <2>1, <2>2
<1>17. QED BY <1>14, <1>15, <1>16

\* What an operation has left to do is a list of commands, of those it may have.
LEMMA TodoListed ==
  ASSUME WritesOK, NEW w \in Writers
  PROVE  /\ write[w].todo \in Seq(RowCommands \cup KeyCommands)
         /\ write[w].todo # <<>> => \E n \in CommandNames : AtCommand(w, n)
<1>1. PICK r : r = write[w]
  OBVIOUS
<1>2. WriteOK(r) /\ asked \subseteq Keys
  BY <1>1 DEF WritesOK
<1>3. CASE r.todo \in KeyLists
  <2>1. r.todo \in Seq(RowCommands \cup KeyCommands)
    BY <1>3 DEF KeyLists
  <2>2. ASSUME r.todo # <<>> PROVE Head(r.todo).cmd \in CommandNames
    BY <1>3, <2>2, KeysToClear DEF KeyCommands, CommandNames
  <2>3. QED BY <1>1, <2>1, <2>2 DEF AtCommand
<1>4. CASE First(r)
  <2>1. r.op \in OperationNames /\ r.todo = CommandsOf(r.op)
    BY <1>4 DEF First, CommandsOf
  <2>2. Head(r.todo) \in RowCommands
    <3>1. Head(r.todo) = FirstOf(r.op)
      BY <1>2, <1>4, AtFirst
    <3>2. FirstOf(r.op) \in RowCommands
      BY <2>1, DatabaseIs
    <3>3. QED BY <3>1, <3>2
  <2>3. QED BY <1>1, <1>2, <2>1, <2>2, FewCommands DEF AtCommand, CommandNames, RowCommands
<1>5. CASE Second(r)
  <2>1. r.op \in OperationNames /\ SecondOf(r.op) \in RowCommands /\ CachesOf(r.op) \in KeyLists
    BY <1>2, <1>5, AtSecond, DatabaseIs, CachesAre
  <2>2. Head(r.todo) \in RowCommands
    BY <1>2, <1>5, <2>1, AtSecond
  <2>3. PICK y, c : y = SecondOf(r.op) /\ c = CachesOf(r.op)
    OBVIOUS
  <2>4. <<y>> \in Seq(RowCommands \cup KeyCommands) /\ c \in Seq(RowCommands \cup KeyCommands)
    BY <2>1, <2>3 DEF KeyLists
  <2>5. r.todo = <<y>> \o c
    BY <1>5, <2>3 DEF Second
  <2>6. r.todo \in Seq(RowCommands \cup KeyCommands)
    BY <2>4, <2>5, ConcatProperties
  <2>7. QED BY <1>1, <2>2, <2>6 DEF AtCommand, CommandNames, RowCommands
<1>6. QED BY <1>2, <1>3, <1>4, <1>5 DEF WriteOK

\* An operation that has nothing left to do is none.
Ended(r) == r.todo = <<>> => r = NotWriting

LEMMA GoOnFalls ==
  ASSUME WritesOK, NEW w \in Writers, write[w].todo # <<>>,
         NEW k, k.todo = write[w].todo, GoOn(w, k),
         k = [op |-> k.op, number |-> k.number, todo |-> k.todo, seen |-> k.seen, row |-> k.row,
              found |-> k.found, locks |-> k.locks]
  PROVE  /\ Len(write'[w].todo) \in Nat /\ Len(write'[w].todo) < Len(write[w].todo)
         /\ Ended(write'[w])
         /\ \A v \in Writers \ {w} : write'[v] = write[v]
<1>1. PICK r : r = CASE Len(k.todo) = 1 -> NotWriting
                     [] Len(k.todo) > 1 /\ "cell" \in DOMAIN k.todo[2] -> [k EXCEPT !.todo = Tail(@)]
                     [] OTHER -> [NotWriting EXCEPT !.todo = Tail(k.todo), !.found = k.found,
                                                    !.locks = k.locks]
  OBVIOUS
<1>2. write' = [write EXCEPT ![w] = r]
  BY <1>1 DEF GoOn
<1>3. write'[w] = r /\ \A v \in Writers \ {w} : write'[v] = write[v]
  BY <1>2 DEF WritesOK
<1>4. PICK t : t = k.todo
  OBVIOUS
<1>5. t \in Seq(RowCommands \cup KeyCommands) /\ t # <<>>
  BY <1>4, TodoListed
<1>6. /\ Len(t) \in Nat \ {0} /\ Len(Tail(t)) = Len(t) - 1
  BY <1>5, HeadTailProperties, EmptySeq, LenProperties
<1>7. CASE Len(t) = 1
  <2>1. r = NotWriting
    BY <1>1, <1>4, <1>7
  <2>2. Len(NotWriting.todo) = 0
    BY DEF NotWriting
  <2>3. QED BY <1>3, <1>4, <1>7, <2>1, <2>2 DEF Ended
<1>8. CASE Len(t) # 1
  <2>1. r \in {[k EXCEPT !.todo = Tail(@)],
               [NotWriting EXCEPT !.todo = Tail(k.todo), !.found = k.found, !.locks = k.locks]}
    BY <1>1, <1>4, <1>8
  <2>2. r.todo = Tail(t)
    BY <1>4, <2>1 DEF NotWriting
  <2>3. Tail(t) # <<>>
    <3>1. Len(Tail(t)) # 0 /\ Len(<<>>) = 0
      BY <1>6, <1>8
    <3>2. QED BY <3>1
  <2>4. QED BY <1>3, <1>4, <1>6, <2>2, <2>3 DEF Ended
<1>9. QED BY <1>3, <1>7, <1>8

LEMMA GiveUpFalls ==
  ASSUME WritesOK, NEW w \in Writers, write[w].todo # <<>>, GiveUp(w)
  PROVE  /\ Len(write'[w].todo) \in Nat /\ Len(write'[w].todo) < Len(write[w].todo)
         /\ Ended(write'[w])
         /\ \A v \in Writers \ {w} : write'[v] = write[v]
<1>1. write'[w] = NotWriting /\ \A v \in Writers \ {w} : write'[v] = write[v]
  BY DEF GiveUp, WritesOK
<1>2. Len(write[w].todo) \in Nat \ {0}
  BY TodoListed, EmptySeq, LenProperties
<1>3. Len(NotWriting.todo) = 0
  BY DEF NotWriting
<1>4. QED BY <1>1, <1>2, <1>3 DEF Ended

\* Each command, whatever comes of it, is one less.
LEMMA CommandFalls ==
  ASSUME WritesOK, NEW w \in Writers, Command(w)
  PROVE  /\ Len(write'[w].todo) \in Nat /\ Len(write'[w].todo) < Len(write[w].todo)
         /\ Ended(write'[w])
         /\ \A v \in Writers \ {w} : write'[v] = write[v]
<1>1. CASE Refused(w)
  BY <1>1, GiveUpFalls DEF Refused, AtCommand
<1>2. CASE ~Refused(w)
  <2>1. write[w].todo # <<>>
    BY <1>2
    DEF Command, Create, Put, Cut, Drop, Wipe, Insert, See, Replace, DelKey, DelLock, Scan,
        DelFound, AtCommand
  <2>a. See(w) => \E S, R : GoOn(w, [write[w] EXCEPT !.seen = S, !.row = R])
    BY DEF See
  <2>b. Scan(w) => \E F, L : GoOn(w, [write[w] EXCEPT !.found = F, !.locks = L])
    BY DEF Scan
  <2>2. \/ GoOn(w, write[w])
        \/ \E S, R : GoOn(w, [write[w] EXCEPT !.seen = S, !.row = R])
        \/ \E F, L : GoOn(w, [write[w] EXCEPT !.found = F, !.locks = L])
    BY <1>2, <2>a, <2>b
    DEF Command, Create, Put, Cut, Drop, Wipe, Insert, Replace, DelKey, DelLock, DelFound, Change
  <2>3. PICK k : /\ GoOn(w, k)
                 /\ \/ k = write[w]
                    \/ \E S, R : k = [write[w] EXCEPT !.seen = S, !.row = R]
                    \/ \E F, L : k = [write[w] EXCEPT !.found = F, !.locks = L]
    BY <2>2
  <2>4. /\ k.todo = write[w].todo
        /\ k = [op |-> k.op, number |-> k.number, todo |-> k.todo, seen |-> k.seen, row |-> k.row,
                found |-> k.found, locks |-> k.locks]
    BY <2>3, WriteFields
  <2>5. QED BY <2>1, <2>3, <2>4, GoOnFalls
<1>3. QED BY <1>1, <1>2

\* Operations have at most eight commands ahead.
OperationsShort ==
  \A w \in Writers : Ended(write[w]) /\ Len(write[w].todo) \in 0..8

LEMMA OperationsStep ==
  ASSUME WritesOK, OperationsShort, [Next]_vars
  PROVE  OperationsFall /\ OperationsShort'
<1>0. ASSUME NEW w \in Writers
      PROVE  /\ Command(w) => Len(write'[w].todo) < Len(write[w].todo)
             /\ Break(w) => Len(write'[w].todo) < Len(write[w].todo)
  <2>1. Break(w) => write[w].todo # <<>> /\ GiveUp(w)
    BY DEF Break, OperationsShort, Ended
  <2>2. QED BY <2>1, CommandFalls, GiveUpFalls
<1>1. ASSUME \A w \in Writers :
               \/ write'[w] = write[w]
               \/ /\ Len(write'[w].todo) \in Nat /\ Len(write'[w].todo) < Len(write[w].todo)
                  /\ Ended(write'[w])
      PROVE  OperationsFall /\ OperationsShort'
  <2>1. OperationsFall
    BY <1>0, <1>1 DEF OperationsFall
  <2>2. ASSUME NEW w \in Writers PROVE Len(write'[w].todo) \in 0..8 /\ Ended(write'[w])
    <3>1. Len(write[w].todo) \in 0..8 /\ Ended(write[w])
      BY DEF OperationsShort
    <3>2. CASE write'[w] = write[w]
      BY <3>1, <3>2
    <3>3. CASE write'[w] # write[w]
      <4>1. /\ Len(write'[w].todo) \in Nat /\ Len(write'[w].todo) < Len(write[w].todo)
            /\ Ended(write'[w])
        BY <1>1, <3>3
      <4>2. PICK m \in 0..8, n \in Nat : m = Len(write[w].todo) /\ n = Len(write'[w].todo)
        BY <3>1, <4>1
      <4>3. n < m
        BY <4>1, <4>2, Zenon
      <4>4. n \in 0..8
        BY <4>3
      <4>5. QED BY <4>1, <4>2, <4>4
    <3>4. QED BY <3>2, <3>3
  <2>3. OperationsShort'
    BY <2>2 DEF OperationsShort, Ended
  <2>4. QED BY <2>1, <2>3
<1>2. ASSUME NEW w \in Writers, Command(w) \/ Break(w) PROVE OperationsFall /\ OperationsShort'
  <2>1. Break(w) => write[w].todo # <<>> /\ GiveUp(w)
    BY DEF Break, OperationsShort, Ended
  <2>2. QED BY <1>1, <1>2, <2>1, CommandFalls, GiveUpFalls
<1>3. ASSUME NEW w \in Writers, NEW o \in Operations[asked], Begin(w, o)
      PROVE  OperationsFall /\ OperationsShort'
  <2>1. o \in OperationNames /\ asked \subseteq Keys
    BY <1>3, OperationsNamed DEF WritesOK
  <2>2. Len(CommandsOf(o)) \in 1..8 /\ CommandsOf(o) \in Seq(RowCommands \cup KeyCommands)
    BY <2>1, FewCommands
  <2>3. PICK r : r = [NotWriting EXCEPT !.op = o, !.number = mutations + 1, !.todo = CommandsOf(o),
                                        !.row = IF o = "assignRoles" THEN db["profile"] ELSE Gone]
    OBVIOUS
  <2>4. r.todo = CommandsOf(o)
    BY <2>3 DEF NotWriting
  <2>5. /\ write[w] = NotWriting /\ write'[w] = r
        /\ \A v \in Writers \ {w} : write'[v] = write[v]
    BY <1>3, <2>3 DEF Begin, WritesOK
  <2>6. OperationsShort'
    <3>1. Ended(r) /\ Len(r.todo) \in 0..8
      <4>1. PICK t : t = CommandsOf(o)
        OBVIOUS
      <4>2. Len(t) \in 1..8 /\ t # <<>>
        <5>1. Len(<<>>) = 0 /\ 0 \notin 1..8
          OBVIOUS
        <5>2. QED BY <2>2, <4>1, <5>1, Zenon
      <4>3. \A n \in 1..8 : n \in 0..8
        OBVIOUS
      <4>4. QED BY <2>4, <4>1, <4>2, <4>3 DEF Ended
    <3>2. \A v \in Writers : Ended(write[v]) /\ Len(write[v].todo) \in 0..8
      BY DEF OperationsShort
    <3>3. \A v \in Writers : Ended(write'[v]) /\ Len(write'[v].todo) \in 0..8
      BY <2>5, <3>1, <3>2
    <3>4. QED BY <3>3 DEF OperationsShort, Ended
  <2>7. ASSUME NEW v \in Writers, write[v] # NotWriting, write'[v] # write[v] PROVE FALSE
    BY <2>5, <2>7
  <2>9. QED BY <1>0, <2>6, <2>7 DEF OperationsFall
<1>4. CASE UNCHANGED write
  BY <1>1, <1>4
<1>5. QED
  BY <1>2, <1>3, <1>4 DEF Next, Happening, ReaderStep, WaitEnds, ValueLapses, OnCache, adminVars, vars

\* Readers and operations come to an end, whatever the others do: a reader has a step at
\* each of at most eight stages, an operation one for each of at most eight commands, and
\* whatever happens to one of them, by its own step, a message or a fault, leaves it fewer.
THEOREM CachesRunOut == Spec => []CallsHaveSteps /\ [][ReadersFall /\ OperationsFall]_vars
<1>1. Init => WritesOK /\ RestTyped /\ OperationsShort
  <2>1. Ended(NotWriting) /\ Len(NotWriting.todo) \in 0..8
    BY DEF Ended, NotWriting
  <2>2. Init => OperationsShort
    BY <2>1 DEF Init, OperationsShort
  <2>3. QED BY <2>2, WritesInit, TypesInit
<1>2. LockInv /\ WritesOK /\ RestTyped /\ OperationsShort /\ [Next]_vars
        => WritesOK' /\ RestTyped' /\ OperationsShort'
  BY WritesStep, RestStep, OperationsStep DEF LockInv
<1>3. LockInv /\ WritesOK /\ RestTyped /\ OperationsShort => CallsHaveSteps
  <2> SUFFICES ASSUME LockInv, WritesOK, RestTyped, OperationsShort PROVE CallsHaveSteps
    OBVIOUS
  <2>1. ASSUME NEW c \in Readers, read[c] # NotReading PROVE StagesLeft(read[c]) \in 1..8
    <3>1. ReadTyped(read[c]) /\ read[c].pc # "idle"
      BY <2>1 DEF LockInv, LocksTyped, RestTyped
    <3>2. QED BY <3>1 DEF ReadTyped, StagesLeft
  <2>2. ASSUME NEW w \in Writers, write[w] # NotWriting
        PROVE  Len(write[w].todo) \in 1..8 /\ \E n \in CommandNames : AtCommand(w, n)
    <3>1. write[w].todo # <<>> /\ Len(write[w].todo) \in 0..8
      BY <2>2 DEF OperationsShort, Ended
    <3>2. Len(write[w].todo) # 0
      BY <3>1, TodoListed, EmptySeq
    <3>3. \A n \in 0..8 : n # 0 => n \in 1..8
      OBVIOUS
    <3>4. QED BY <3>1, <3>2, <3>3, TodoListed
  <2>3. QED BY <2>1, <2>2 DEF CallsHaveSteps
<1>4. LockInv /\ WritesOK /\ RestTyped /\ OperationsShort /\ [Next]_vars
        => ReadersFall /\ OperationsFall
  BY ReadersStep, OperationsStep DEF LockInv
<1>5. QED BY <1>1, <1>2, <1>3, <1>4, LocksKept, PTL DEF Spec
=============================================================================
