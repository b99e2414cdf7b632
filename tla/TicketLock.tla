----------------------------- MODULE TicketLock -----------------------------
(***************************************************************************)
(* The Redis side of a ticket reservation                                  *)
(* (src/src/infrastructure/cache/ticket-lock.service.ts).                  *)
(*                                                                         *)
(* Each ticket type has a counter `ticket_quota:<ticket>` of the units     *)
(* that may still be reserved, and each reservation leaves a key           *)
(* `ticket_lock:<ticket>:<order>` that remembers how many units it took    *)
(* and vanishes by itself ORDER_TTL_MINUTES after it was written.          *)
(*                                                                         *)
(* An operator below is one round trip to Redis: what the service does in  *)
(* several awaited commands is several operators, and the caller decides   *)
(* what can happen between them.  MULTI ... EXEC is one operator.          *)
(***************************************************************************)
EXTENDS Integers

CONSTANTS Tickets, Orders

VARIABLES
  quotaKeys,   \* the tickets whose counter key exists
  counter,     \* counter[t]: value of the counter; Redis takes 0 for a missing key
  lock         \* lock[t][o]: units recorded by the lock key; 0 when there is no key

redisVars == <<quotaKeys, counter, lock>>

RedisTypeOK ==
  /\ quotaKeys \in SUBSET Tickets
  /\ counter \in [Tickets -> Int]
  /\ lock \in [Tickets -> [Orders -> Nat]]

RedisInit ==
  /\ quotaKeys = {}
  /\ counter = [t \in Tickets |-> 0]
  /\ lock = [t \in Tickets |-> [o \in Orders |-> 0]]

(***************************************************************************)
(* SET counter max(0, available) NX.                                       *)
(***************************************************************************)
InitializeQuotaIfAbsent(t, available) ==
  /\ IF t \in quotaKeys
     THEN UNCHANGED counter
     ELSE counter' = [counter EXCEPT ![t] = IF available > 0 THEN available ELSE 0]
  /\ quotaKeys' = quotaKeys \cup {t}
  /\ UNCHANGED lock

(***************************************************************************)
(* lockTicketQuota: first MULTI DECRBY counter, SET lock key EX ttl.  The  *)
(* units are taken before anyone has looked whether they were there.       *)
(***************************************************************************)
TakeQuota(t, o, qty) ==
  /\ quotaKeys' = quotaKeys \cup {t}
  /\ counter' = [counter EXCEPT ![t] = @ - qty]
  /\ lock' = [lock EXCEPT ![t][o] = qty]

(***************************************************************************)
(* lockTicketQuota looks at what DECRBY returned: below zero the units     *)
(* were not there, and the two commands below undo the reservation, one    *)
(* after the other.                                                        *)
(***************************************************************************)
Overdrawn(t, qty) == counter[t] - qty < 0

ReturnOverdraft(t, qty) ==
  /\ counter' = [counter EXCEPT ![t] = @ + qty]
  /\ quotaKeys' = quotaKeys \cup {t}
  /\ UNCHANGED lock

(***************************************************************************)
(* DEL lock key: the end of a failed lockTicketQuota, and all of           *)
(* confirmTicketQuota, which leaves the counter where it is.               *)
(***************************************************************************)
DeleteLock(t, o) ==
  /\ lock' = [lock EXCEPT ![t][o] = 0]
  /\ UNCHANGED <<quotaKeys, counter>>

(***************************************************************************)
(* releaseTicketQuota reads the lock key and then, in a second round trip, *)
(* gives back the number of units it read: MULTI INCRBY counter, DEL lock. *)
(***************************************************************************)
\* Slip: the lock key survives its release.
ReturnQuotaKeepLock(t, o, read) ==
  /\ counter' = [counter EXCEPT ![t] = @ + read]
  /\ quotaKeys' = quotaKeys \cup {t}
  /\ UNCHANGED lock

ReturnQuota(t, o, read) ==
  /\ counter' = [counter EXCEPT ![t] = @ + read]
  /\ lock' = [lock EXCEPT ![t][o] = 0]
  /\ quotaKeys' = quotaKeys \cup {t}

(***************************************************************************)
(* Redis drops a lock key whose time to live has passed.  Nothing runs     *)
(* when it does: the counter keeps what the reservation took.              *)
(***************************************************************************)
LockLapses(t, o) ==
  /\ lock[t][o] > 0
  /\ lock' = [lock EXCEPT ![t][o] = 0]
  /\ UNCHANGED <<quotaKeys, counter>>
=============================================================================
