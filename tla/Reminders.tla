----------------------------- MODULE Reminders -----------------------------
(***************************************************************************)
(* Reminders of one order (src/src/modules/reminders/reminder.service.ts). *)
(*                                                                         *)
(* A reminder is a row and a delayed job on the queue `reminders`.  The    *)
(* job, the sweep of overdue rows each minute, POST /reminders/process,    *)
(* and the scheduling of a reminder whose time is past all come to         *)
(* processReminder, which reads the row, sends, and updates the row, with  *)
(* awaits between.  Cancelling updates the row and leaves the jobs.        *)
(* The reader's account may be removed meanwhile, or brought back by an    *)
(* update of it that overlaps (AdminCaches).                               *)
(***************************************************************************)
EXTENDS Naturals, Sequences, FiniteSets, FiniteSetsExt

CONSTANTS
  Ids,         \* ids of rows
  Plans,       \* what a reminder is about: its type, subject and message
  ChannelsOf,  \* ChannelsOf[p]: what is sent for plan p, in this order
  PlanLists,   \* the lists of plans that a call may schedule
  Calls,       \* calls that may be in progress at a time
  MaxRetries,  \* column `maxRetries`
  MaxFaults,   \* bound on failures
  NoId         \* of a call that has no row yet

Channels == {"email", "notification"}

ASSUME RemindersAssumption ==
  /\ Plans # {}
  /\ ChannelsOf \in [Plans -> {<<"email">>, <<"notification">>, <<"email", "notification">>}]
  /\ PlanLists \subseteq Seq(Plans) \ {<<>>}
  /\ {MaxRetries, MaxFaults} \subseteq Nat
  /\ NoId \notin Ids

VARIABLES
  status,   \* status[r]: column `status`; "absent" before the row is inserted
  plan,     \* plan[r]: what reminder r is about
  retries,  \* retries[r]: column `retryCount`
  jobs,     \* jobs[r]: how many jobs of r are on the queue
  call,     \* call[c]: what call c is doing
  faults,
  \* What the properties speak of:
  sent,     \* sent[r]: channels on which r was sent
  twice,    \* reminders that were sent twice on a channel
  excused,  \* reminders two attempts were at, or one that ended between sending and marking
  mute,     \* calls at an attempt that has left out the e-mail
  raced     \* plans that two calls scheduled at the same time

rows == <<status, plan, retries>>
history == <<sent, twice, excused, mute, raced>>
vars == <<rows, jobs, call, faults, history>>

\* A call works through a list of plans, or through a set of overdue rows, or does a
\* job.  While it processes a reminder it knows `retryCount` as it read it, and the
\* channels that it has left.
Idle == [pc |-> "idle", plans |-> <<>>, todo |-> {}, id |-> NoId, job |-> FALSE,
         read |-> 0, left |-> <<>>]

Begin(c, stage, list, ids, r, isJob) ==
  call' = [call EXCEPT ![c] = [Idle EXCEPT !.pc = stage, !.plans = list, !.todo = ids,
                                           !.id = r, !.job = isJob]]

At(c, stage) == call[c].pc = stage

Goto(c, stage) == call' = [call EXCEPT ![c].pc = stage]

\* The call goes on to the next row of its sweep or the next plan of its list, or ends.
Proceed(c) ==
  LET k == call[c] IN
  \/ /\ k.plans = <<>> /\ k.todo = {}
     /\ call' = [call EXCEPT ![c] = Idle]
  \/ \E r \in k.todo : Begin(c, "read", <<>>, k.todo \ {r}, r, FALSE)
  \/ /\ k.plans # <<>>
     /\ Begin(c, "find", k.plans, {}, NoId, FALSE)

Present == {r \in Ids : status[r] # "absent"}

-----------------------------------------------------------------------------
(***************************************************************************)
(* scheduleReminder, for one plan (createReminder) or for the plans of an  *)
(* order (scheduleRemindersForOrder).                                      *)
(***************************************************************************)
\* Slip: only reminders that are still to be sent count as existing.
ExistsPending(p) == \E r \in Present : plan[r] = p /\ status[r] = "PENDING"

Exists(p) == \E r \in Present : plan[r] = p

\* (Ids bounds the rows: a call begins only if there are enough for all it may insert.)
Missing(list) == {p \in Plans : ~Exists(p) /\ \E i \in DOMAIN list : list[i] = p}

Claims(c) ==
  Missing(call[c].plans) \cup (IF At(c, "insert") THEN {Head(call[c].plans)} ELSE {})

Room(list) ==
  Cardinality(Missing(list)) + MapThenSumSet(LAMBDA c : Cardinality(Claims(c)), Calls)
    <= Cardinality(Ids \ Present)

Schedule(c, list) ==
  /\ call[c] = Idle
  /\ Room(list)
  /\ Begin(c, "find", list, {}, NoId, FALSE)
  /\ UNCHANGED <<rows, jobs, faults, history>>

FindExisting(c) ==
  LET p == Head(call[c].plans) IN
  /\ At(c, "find")
  /\ \/ /\ Exists(p)
        /\ call' = [call EXCEPT ![c] =
                     IF Len(call[c].plans) = 1 THEN Idle ELSE [call[c] EXCEPT !.plans = Tail(@)]]
        /\ UNCHANGED raced
     \/ /\ ~Exists(p)
        /\ Goto(c, "insert")
        /\ raced' = IF \E d \in Calls : At(d, "insert") /\ Head(call[d].plans) = p
                    THEN raced \cup {p} ELSE raced
  /\ UNCHANGED <<rows, jobs, faults, sent, twice, excused, mute>>

\* The row is inserted; a reminder whose time is past is processed at once.
Insert(c) ==
  /\ At(c, "insert")
  /\ \E r \in Ids \ Present, past \in BOOLEAN :
       /\ status' = [status EXCEPT ![r] = "PENDING"]
       /\ plan' = [plan EXCEPT ![r] = Head(call[c].plans)]
       /\ call' = [call EXCEPT ![c] = [call[c] EXCEPT !.pc = IF past THEN "read" ELSE "enqueue",
                                                      !.id = r, !.plans = Tail(@)]]
  /\ UNCHANGED <<retries, jobs, faults, history>>

\* addJob, for a new reminder and for one that has failed.
AddJob(c) ==
  /\ At(c, "enqueue")
  /\ jobs' = [jobs EXCEPT ![call[c].id] = @ + 1]
  /\ Proceed(c)
  /\ UNCHANGED <<rows, faults, history>>

-----------------------------------------------------------------------------
(***************************************************************************)
(* processReminder: for a job, or for each overdue row of a sweep.  When   *)
(* the delay of a job ends, and when a row is overdue, is left open: a new *)
(* row may be overdue (`past`), the row of a delayed job too.              *)
(***************************************************************************)
TakeJob(c, r) ==
  /\ call[c] = Idle /\ jobs[r] > 0
  /\ jobs' = [jobs EXCEPT ![r] = @ - 1]
  /\ Begin(c, "read", <<>>, {}, r, TRUE)
  /\ UNCHANGED <<rows, faults, history>>

Pending == {r \in Ids : status[r] = "PENDING"}

\* processOverdueReminders reads the overdue rows once: any of those that are PENDING.
Sweep(c) ==
  /\ call[c] = Idle
  /\ \E overdue \in SUBSET Pending : \E r \in overdue :
       Begin(c, "read", <<>>, overdue \ {r}, r, FALSE)
  /\ UNCHANGED <<rows, jobs, faults, history>>

\* An attempt that found its reminder PENDING and has not updated it yet.
Trying(c, r) == (At(c, "send") \/ At(c, "fail")) /\ call[c].id = r

\* Slip: the status is not looked at again.
AnyStatus(r) == TRUE

StillPending(r) == status[r] = "PENDING"

Excuse(r, holds) == excused' = IF holds THEN excused \cup {r} ELSE excused

\* sendEmailReminder returns at once if the row came without its user, who is loaded
\* with it unless the account has been removed.  (The e-mail comes first.)
Served(p, found) ==
  IF found \/ Head(ChannelsOf[p]) # "email" THEN ChannelsOf[p] ELSE Tail(ChannelsOf[p])

ReadReminder(c) ==
  LET r == call[c].id IN
  /\ At(c, "read")
  /\ \/ /\ StillPending(r)
        /\ \E found \in BOOLEAN :
             /\ call' = [call EXCEPT ![c] = [@ EXCEPT !.pc = "send", !.read = retries[r],
                                                      !.left = Served(plan[r], found)]]
             /\ mute' = IF Served(plan[r], found) = ChannelsOf[plan[r]] THEN mute
                        ELSE mute \cup {c}
        /\ Excuse(r, \E d \in Calls : Trying(d, r))
     \/ /\ ~StillPending(r)
        /\ Proceed(c)
        /\ UNCHANGED <<excused, mute>>
  /\ UNCHANGED <<rows, jobs, faults, sent, twice, raced>>

\* Slip: one channel is enough.
NoneLeft(left) == <<>>

Remaining(left) == Tail(left)

\* sendEmailReminder, sendNotificationReminder.
Send(c) ==
  LET k == call[c] IN
  /\ At(c, "send") /\ k.left # <<>>
  /\ sent' = [sent EXCEPT ![k.id] = @ \cup {Head(k.left)}]
  /\ twice' = IF Head(k.left) \in sent[k.id] THEN twice \cup {k.id} ELSE twice
  /\ call' = [call EXCEPT ![c].left = Remaining(@)]
  /\ UNCHANGED <<rows, jobs, faults, excused, mute, raced>>

\* The row is SENT, whatever it was meanwhile, and also if the e-mail was left out.
MarkSent(c) ==
  /\ At(c, "send") /\ call[c].left = <<>>
  /\ status' = [status EXCEPT ![call[c].id] = "SENT"]
  /\ mute' = mute \ {c}
  /\ Proceed(c)
  /\ UNCHANGED <<plan, retries, jobs, faults, sent, twice, excused, raced>>

HasSent(c) ==
  /\ At(c, "send")
  /\ call[c].left # Served(plan[call[c].id], c \notin mute)

\* Sending throws, or the update to SENT does.
SendThrows(c) ==
  /\ At(c, "send") /\ faults < MaxFaults
  /\ faults' = faults + 1
  /\ call' = [call EXCEPT ![c] = [@ EXCEPT !.pc = "fail", !.left = <<>>]]
  /\ Excuse(call[c].id, HasSent(c))
  /\ mute' = mute \ {c}
  /\ UNCHANGED <<rows, jobs, sent, twice, raced>>

\* Slip: the count before this failure is compared.
MayRetryOnceMore(n) == n <= MaxRetries + 1

MayRetry(n) == n <= MaxRetries

\* Slip: a retry makes the reminder PENDING again.
StatusPending(r) == [status EXCEPT ![r] = "PENDING"]

StatusOnRetry(r) == status

\* The failure is recorded: with a new time, then with a new job, or for good.
RecordFailure(c) ==
  LET r == call[c].id
      n == call[c].read + 1
  IN
  /\ At(c, "fail")
  /\ retries' = [retries EXCEPT ![r] = n]
  /\ \/ /\ MayRetry(n)
        /\ status' = StatusOnRetry(r)
        /\ call' = [call EXCEPT ![c] = [@ EXCEPT !.pc = "enqueue", !.read = 0, !.left = <<>>]]
     \/ /\ ~MayRetry(n)
        /\ status' = [status EXCEPT ![r] = "FAILED"]
        /\ Proceed(c)
  /\ UNCHANGED <<plan, jobs, faults, history>>

\* A query or a command outside `try` throws, or the process dies: what the call had
\* before it is left undone.  Its job is tried again unless this was its last attempt.
Break(c) ==
  /\ call[c] # Idle /\ faults < MaxFaults
  /\ faults' = faults + 1
  /\ call' = [call EXCEPT ![c] = Idle]
  /\ \/ UNCHANGED jobs
     \/ call[c].job /\ jobs' = [jobs EXCEPT ![call[c].id] = @ + 1]
  /\ Excuse(call[c].id, HasSent(c))
  /\ mute' = mute \ {c}
  /\ UNCHANGED <<rows, sent, twice, raced>>

-----------------------------------------------------------------------------
(***************************************************************************)
(* Cancelling.                                                             *)
(***************************************************************************)
CancelReminder(r) ==
  /\ r \in Present
  /\ status' = [status EXCEPT ![r] = "CANCELLED"]
  /\ UNCHANGED <<plan, retries, jobs, call, faults, history>>

CancelRemindersForOrder ==
  /\ status' = [r \in Ids |-> IF status[r] = "PENDING" THEN "CANCELLED" ELSE status[r]]
  /\ UNCHANGED <<plan, retries, jobs, call, faults, history>>

-----------------------------------------------------------------------------
Init ==
  /\ status = [r \in Ids |-> "absent"]
  /\ plan = [r \in Ids |-> CHOOSE p \in Plans : TRUE]
  /\ retries = [r \in Ids |-> 0]
  /\ jobs = [r \in Ids |-> 0]
  /\ call = [c \in Calls |-> Idle]
  /\ faults = 0
  /\ sent = [r \in Ids |-> {}]
  /\ twice = {} /\ excused = {} /\ mute = {} /\ raced = {}

Step(c) ==
  \/ FindExisting(c) \/ Insert(c) \/ AddJob(c)
  \/ ReadReminder(c) \/ Send(c) \/ MarkSent(c) \/ RecordFailure(c)

Next ==
  \/ \E c \in Calls : Step(c) \/ SendThrows(c) \/ Break(c) \/ Sweep(c)
  \/ \E c \in Calls, list \in PlanLists : Schedule(c, list)
  \/ \E c \in Calls, r \in Ids : TakeJob(c, r)
  \/ \E r \in Ids : CancelReminder(r)
  \/ CancelRemindersForOrder

Spec == Init /\ [][Next]_vars
-----------------------------------------------------------------------------
(***************************************************************************)
(* Properties.                                                             *)
(***************************************************************************)

\* Rows and calls have their types, `retryCount` never passes `maxRetries` by more
\* than one.
TypeOK ==
  /\ status \in [Ids -> {"absent", "PENDING", "SENT", "FAILED", "CANCELLED"}]
  /\ plan \in [Ids -> Plans]
  /\ retries \in [Ids -> 0..MaxRetries + 1]
  /\ jobs \in [Ids -> Nat]
  /\ DOMAIN call = Calls
  /\ \A c \in Calls :
       call[c] # Idle =>
         /\ call[c].pc \in {"find", "insert", "enqueue", "read", "send", "fail"}
         /\ call[c].job \in BOOLEAN
         /\ call[c].plans \in Seq(Plans) /\ call[c].left \in Seq(Channels)
         /\ call[c].todo \subseteq Present /\ call[c].read \in 0..MaxRetries
         /\ IF call[c].pc \in {"find", "insert"} THEN call[c].plans # <<>>
            ELSE call[c].id \in Present
  /\ faults \in 0..MaxFaults
  /\ sent \in [Ids -> SUBSET Channels]
  /\ twice \in SUBSET Present /\ excused \in SUBSET Present
  /\ mute \in SUBSET Calls /\ raced \in SUBSET Plans

\* A plan has one reminder, also after that was sent or cancelled, unless two calls
\* looked for it before either inserted it.
OneRowEach ==
  \A r, s \in Present : r # s /\ plan[r] = plan[s] => plan[r] \in raced

\* A reminder reaches its reader once on a channel, through failures, retries and
\* cancellations, unless two attempts were at it together (its job and the sweep, as
\* a rule), or one ended between sending and marking it SENT.
DuplicatesExcused == twice \subseteq excused

\* A reminder is tried while it has retries left, and is not given up before: of
\* overlapping attempts, however, one may write an older `retryCount`.
RetriesUsedUp ==
  \A r \in Ids :
    /\ status[r] = "PENDING" => retries[r] <= MaxRetries
    /\ status[r] = "FAILED" /\ r \notin excused => retries[r] = MaxRetries + 1

\* A reminder becomes SENT when every channel of it was served, perhaps in several
\* attempts, but for one case: the attempt that marks it found its reader's account
\* gone, and left the e-mail out.
SentIsDelivered ==
  [][\A r \in Ids :
       status[r] # "SENT" /\ status'[r] = "SENT" =>
         \A i \in DOMAIN ChannelsOf[plan[r]] :
           \/ ChannelsOf[plan[r]][i] \in sent[r]
           \/ /\ ChannelsOf[plan[r]][i] = "email"
              /\ \E c \in mute : At(c, "send") /\ call[c].id = r /\ call[c].left = <<>>]_status

\* A reminder that has ended is never PENDING again; and once the attempts that found
\* it PENDING are over, only a cancellation still changes it.
EndedRests ==
  [][\A r \in Present :
       status[r] # "PENDING" =>
         /\ status'[r] # "PENDING"
         /\ (\E c \in Calls : Trying(c, r)) \/ status'[r] \in {status[r], "CANCELLED"}]_status
=============================================================================
