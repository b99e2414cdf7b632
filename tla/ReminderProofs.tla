--------------------------- MODULE ReminderProofs ---------------------------
(***************************************************************************)
(* Theorems about Reminders for any rows and plans, any number of calls in *)
(* progress, retries and faults.                                           *)
(***************************************************************************)
EXTENDS Reminders, SequenceTheorems, TLAPS

Lists == {<<>>, <<"email">>, <<"notification">>, <<"email", "notification">>}

\* What a call knows at each await.
CallOK(k, present) ==
  /\ k = [pc |-> k.pc, plans |-> k.plans, todo |-> k.todo, id |-> k.id, job |-> k.job,
          read |-> k.read, left |-> k.left]
  /\ k.pc \in {"find", "insert", "enqueue", "read", "send", "fail"}
  /\ k.plans \in Seq(Plans) /\ k.todo \subseteq present /\ k.job \in BOOLEAN
  /\ k.read \in 0..MaxRetries /\ k.left \in Lists
  /\ IF k.pc \in {"find", "insert"} THEN k.plans # <<>> ELSE k.id \in present
  /\ k.job => k.id \in present

CallsOK == DOMAIN call = Calls /\ \A c \in Calls : call[c] = Idle \/ CallOK(call[c], Present)

RowsOK ==
  /\ status \in [Ids -> {"absent", "PENDING", "SENT", "FAILED", "CANCELLED"}]
  /\ plan \in [Ids -> Plans]
  /\ retries \in [Ids -> 0..MaxRetries + 1]
  /\ jobs \in [Ids -> Nat]
  /\ faults \in 0..MaxFaults
  /\ sent \in [Ids -> SUBSET Channels]
  /\ twice \in SUBSET Present /\ excused \in SUBSET Present
  /\ mute \in SUBSET Calls /\ raced \in SUBSET Plans
  /\ \A r \in Ids : status[r] \in {"absent", "PENDING"} => retries[r] <= MaxRetries
  /\ \A r \in Ids : jobs[r] > 0 => r \in Present

RemindersInv == RowsOK /\ CallsOK

\* Where a call is that neither scheduled nor sends: it has made no claim.
Away(c) == call[c].pc \in {"idle", "find", "read", "enqueue"}

Others(c) == \A d \in Calls \ {c} : call'[d] = call[d]

-----------------------------------------------------------------------------
(***************************************************************************)
(* Calls.                                                                  *)
(***************************************************************************)

\* A call at an await knows what CallOK says.
LEMMA Awake ==
  ASSUME CallsOK, NEW c \in Calls, call[c].pc # "idle"
  PROVE  CallOK(call[c], Present)
  BY DEF CallsOK, Idle

\* What calls know about rows stays true while rows stay.
LEMMA Lasts ==
  ASSUME NEW S, NEW T, S \subseteq T, NEW k, CallOK(k, S)
  PROVE  CallOK(k, T)
  BY DEF CallOK

LEMMA CallsKept ==
  ASSUME CallsOK, Present \subseteq Present', UNCHANGED call
  PROVE  CallsOK'
  BY Lasts DEF CallsOK

\* One call changes.
LEMMA CallSet ==
  ASSUME CallsOK, Present \subseteq Present', NEW c \in Calls, NEW k, k = Idle \/ CallOK(k, Present'),
         call' = [call EXCEPT ![c] = k]
  PROVE  CallsOK' /\ call'[c] = k /\ Others(c)
<1>1. call'[c] = k /\ Others(c) /\ DOMAIN call' = Calls
  BY DEF CallsOK, Others
<1>2. ASSUME NEW d \in Calls \ {c} PROVE call'[d] = Idle \/ CallOK(call'[d], Present')
  BY <1>1, Lasts DEF CallsOK, Others
<1>3. QED BY <1>1, <1>2 DEF CallsOK

\* A call that begins knows nothing wrong.
LEMMA Begins ==
  ASSUME CallsOK, Present \subseteq Present', NEW c \in Calls, NEW stage \in {"find", "read"},
         NEW list \in Seq(Plans), NEW ids \in SUBSET Present, NEW r, NEW isJob \in BOOLEAN,
         IF stage = "find" THEN list # <<>> ELSE r \in Present, isJob => r \in Present,
         Begin(c, stage, list, ids, r, isJob)
  PROVE  CallsOK' /\ Others(c) /\ Away(c)'
<1>1. PICK k : /\ call' = [call EXCEPT ![c] = k]
               /\ k = [Idle EXCEPT !.pc = stage, !.plans = list, !.todo = ids, !.id = r, !.job = isJob]
  BY DEF Begin
<1>2. k = [pc |-> stage, plans |-> list, todo |-> ids, id |-> r, job |-> isJob, read |-> 0, left |-> <<>>]
  BY <1>1 DEF Idle
<1>3. /\ k.pc = stage /\ k.plans = list /\ k.todo = ids /\ k.id = r /\ k.job = isJob
      /\ k.read = 0 /\ k.left = <<>>
  BY ONLY <1>2
<1>4. k = [pc |-> k.pc, plans |-> k.plans, todo |-> k.todo, id |-> k.id, job |-> k.job,
           read |-> k.read, left |-> k.left]
  BY ONLY <1>2
<1>5. k.read \in 0..MaxRetries /\ k.left \in Lists
  BY <1>3, RemindersAssumption DEF Lists
<1>6. IF k.pc \in {"find", "insert"} THEN k.plans # <<>> ELSE k.id \in Present
  BY <1>3
<1>7. k.job => k.id \in Present
  BY <1>3
<1>8. k.pc \in {"find", "insert", "enqueue", "read", "send", "fail"} /\ k.plans \in Seq(Plans)
      /\ k.todo \subseteq Present /\ k.job \in BOOLEAN
  BY <1>3
<1>9. CallOK(k, Present)
  BY <1>4, <1>5, <1>6, <1>7, <1>8 DEF CallOK
<1>10. CallOK(k, Present')
  BY <1>9, Lasts
<1>11. CallsOK' /\ call'[c] = k /\ Others(c)
  BY <1>1, <1>10, CallSet
<1>12. QED BY <1>3, <1>11 DEF Away

\* A call that goes on begins its next plan or row, or ends.
LEMMA Proceeds ==
  ASSUME CallsOK, Present \subseteq Present', NEW c \in Calls, CallOK(call[c], Present), Proceed(c)
  PROVE  CallsOK' /\ Others(c) /\ Away(c)'
<1>1. CASE call' = [call EXCEPT ![c] = Idle]
  <2>1. CallsOK' /\ call'[c] = Idle /\ Others(c)
    BY <1>1, CallSet
  <2>2. QED BY <2>1 DEF Away, Idle
<1>2. ASSUME NEW r \in call[c].todo, Begin(c, "read", <<>>, call[c].todo \ {r}, r, FALSE)
      PROVE  CallsOK' /\ Others(c) /\ Away(c)'
  <2>1. <<>> \in Seq(Plans) /\ call[c].todo \ {r} \in SUBSET Present /\ r \in Present
    BY DEF CallOK
  <2>2. QED BY <1>2, <2>1, Begins
<1>3. CASE call[c].plans # <<>> /\ Begin(c, "find", call[c].plans, {}, NoId, FALSE)
  <2>1. call[c].plans \in Seq(Plans) /\ {} \in SUBSET Present
    BY DEF CallOK
  <2>2. QED BY <1>3, <2>1, Begins
<1>4. QED BY <1>1, <1>2, <1>3 DEF Proceed

-----------------------------------------------------------------------------
(***************************************************************************)
(* Rows and calls keep their types.  Each lemma also says where the step   *)
(* leaves its call.                                                        *)
(***************************************************************************)

LEMMA ScheduleTypes ==
  ASSUME RemindersInv, NEW c \in Calls, NEW list \in PlanLists, Schedule(c, list)
  PROVE  RemindersInv' /\ Others(c) /\ Away(c)'
<1>1. RowsOK' /\ Present' = Present
  BY DEF RemindersInv, RowsOK, Schedule, rows, history, Present
<1>2. list \in Seq(Plans) /\ list # <<>> /\ {} \in SUBSET Present
  BY RemindersAssumption
<1>3. Begin(c, "find", list, {}, NoId, FALSE)
  BY DEF Schedule
<1>4. CallsOK' /\ Others(c) /\ Away(c)'
  BY <1>1, <1>2, <1>3, Begins DEF RemindersInv
<1>5. QED BY <1>1, <1>4 DEF RemindersInv

LEMMA LongTail ==
  ASSUME NEW S, NEW s \in Seq(S), s # <<>>, Len(s) # 1
  PROVE  Tail(s) \in Seq(S) /\ Tail(s) # <<>>
<1>1. Tail(s) \in Seq(S) /\ Len(Tail(s)) = Len(s) - 1 /\ Len(s) \in Nat
  BY HeadTailProperties, LenProperties
<1>2. Len(<<>>) = 0
  OBVIOUS
<1>3. Len(Tail(s)) # 0
  BY <1>1
<1>4. QED BY ONLY <1>1, <1>2, <1>3, Zenon

LEMMA FindExistingTypes ==
  ASSUME RemindersInv, NEW c \in Calls, FindExisting(c)
  PROVE  /\ RemindersInv' /\ Others(c)
         /\ \/ Away(c)' /\ raced' = raced
            \/ At(c, "insert")' /\ call'[c].plans = call[c].plans /\ ~Exists(Head(call[c].plans))
<1> DEFINE p == Head(call[c].plans)
<1>1. CallOK(call[c], Present) /\ call[c].plans # <<>> /\ call[c].plans \in Seq(Plans)
  BY Awake DEF FindExisting, At, RemindersInv, CallOK
<1>2. p \in Plans
  BY <1>1
<1>3. RowsOK' /\ Present' = Present
  BY <1>2 DEF RemindersInv, RowsOK, FindExisting, rows, Present
<1>4. CASE /\ raced' = raced
           /\ call' = [call EXCEPT ![c] =
                        IF Len(call[c].plans) = 1 THEN Idle ELSE [call[c] EXCEPT !.plans = Tail(@)]]
  <2>1. CASE Len(call[c].plans) = 1
    <3>1. CallsOK' /\ call'[c] = Idle /\ Others(c)
      BY <1>3, <1>4, <2>1, CallSet DEF RemindersInv
    <3>2. QED BY <1>3, <1>4, <3>1 DEF Away, Idle, RemindersInv
  <2>2. CASE Len(call[c].plans) # 1
    <3>1. PICK k : call' = [call EXCEPT ![c] = k] /\ k = [call[c] EXCEPT !.plans = Tail(@)]
      <4>1. call' = [call EXCEPT ![c] = [call[c] EXCEPT !.plans = Tail(@)]]
        BY ONLY <1>4, <2>2
      <4>2. QED BY ONLY <4>1
    <3>2. Tail(call[c].plans) \in Seq(Plans) /\ Tail(call[c].plans) # <<>>
      BY <1>1, <2>2, LongTail
    <3>3. CallOK(k, Present) /\ k.pc = "find"
      BY <1>1, <3>1, <3>2 DEF CallOK, FindExisting, At
    <3>4. CallsOK' /\ call'[c] = k /\ Others(c)
      BY <1>3, <3>1, <3>3, CallSet DEF RemindersInv
    <3>5. QED BY <1>3, <1>4, <3>3, <3>4 DEF Away, RemindersInv
  <2>3. QED BY <2>1, <2>2
<1>5. CASE ~Exists(p) /\ Goto(c, "insert")
  <2>1. PICK k : call' = [call EXCEPT ![c] = k] /\ k = [call[c] EXCEPT !.pc = "insert"]
    BY <1>5 DEF Goto, RemindersInv, CallsOK
  <2>2. CallOK(k, Present) /\ k.pc = "insert" /\ k.plans = call[c].plans
    BY <1>1, <2>1 DEF CallOK
  <2>3. CallsOK' /\ call'[c] = k /\ Others(c)
    BY <1>3, <2>1, <2>2, CallSet DEF RemindersInv
  <2>4. QED BY <1>3, <1>5, <2>2, <2>3 DEF At, RemindersInv
<1>6. QED BY <1>4, <1>5 DEF FindExisting

\* The new row was absent, and is about the first plan of the call.
LEMMA InsertTypes ==
  ASSUME RemindersInv, NEW c \in Calls, Insert(c)
  PROVE  /\ RemindersInv' /\ Others(c) /\ Away(c)'
         /\ call[c].plans # <<>> /\ Head(call[c].plans) \in Plans
         /\ \E r \in Ids \ Present : /\ status' = [status EXCEPT ![r] = "PENDING"]
                                     /\ plan' = [plan EXCEPT ![r] = Head(call[c].plans)]
                                     /\ Present' = Present \cup {r}
<1>1. PICK r \in Ids \ Present, past \in BOOLEAN :
        /\ status' = [status EXCEPT ![r] = "PENDING"]
        /\ plan' = [plan EXCEPT ![r] = Head(call[c].plans)]
        /\ call' = [call EXCEPT ![c] = [call[c] EXCEPT !.pc = IF past THEN "read" ELSE "enqueue",
                                                       !.id = r, !.plans = Tail(@)]]
  BY DEF Insert
<1>2. CallOK(call[c], Present) /\ call[c].plans # <<>> /\ call[c].plans \in Seq(Plans)
  BY Awake DEF Insert, At, RemindersInv, CallOK
<1>3. Head(call[c].plans) \in Plans /\ Tail(call[c].plans) \in Seq(Plans)
  BY <1>2
<1>4. Present' = Present \cup {r}
  BY <1>1 DEF RemindersInv, RowsOK, Present
<1>5. RowsOK'
  <2>0. \A s \in Ids : jobs'[s] > 0 => s \in Present'
    BY <1>4 DEF RemindersInv, RowsOK, Insert
  <2>1. \A s \in Ids : status'[s] \in {"absent", "PENDING"} => retries'[s] <= MaxRetries
    BY <1>1 DEF RemindersInv, RowsOK, Insert, Present
  <2>2. /\ status' \in [Ids -> {"absent", "PENDING", "SENT", "FAILED", "CANCELLED"}]
        /\ plan' \in [Ids -> Plans]
        /\ twice' \in SUBSET Present' /\ excused' \in SUBSET Present'
    BY <1>1, <1>3, <1>4 DEF RemindersInv, RowsOK, Insert, history
  <2>3. QED BY <2>0, <2>1, <2>2 DEF RemindersInv, RowsOK, Insert, history
<1>6. PICK k : /\ call' = [call EXCEPT ![c] = k]
               /\ k = [call[c] EXCEPT !.pc = IF past THEN "read" ELSE "enqueue",
                                      !.id = r, !.plans = Tail(@)]
  <2>1. call' = [call EXCEPT ![c] = [call[c] EXCEPT !.pc = IF past THEN "read" ELSE "enqueue",
                                                    !.id = r, !.plans = Tail(@)]]
    BY ONLY <1>1
  <2>2. QED BY ONLY <2>1
<1>7. CallOK(k, Present') /\ k.pc \in {"read", "enqueue"}
  <2>1. CallOK(call[c], Present')
    BY <1>2, <1>4, Lasts
  <2>2. k = [pc |-> IF past THEN "read" ELSE "enqueue", plans |-> Tail(call[c].plans),
             todo |-> call[c].todo, id |-> r, job |-> call[c].job, read |-> call[c].read,
             left |-> call[c].left]
    BY <1>6, <1>2 DEF CallOK
  <2>3. /\ k.pc \in {"read", "enqueue"} /\ k.plans = Tail(call[c].plans) /\ k.todo = call[c].todo
        /\ k.id = r /\ k.job = call[c].job /\ k.read = call[c].read /\ k.left = call[c].left
    BY <2>2
  <2>4. k = [pc |-> k.pc, plans |-> k.plans, todo |-> k.todo, id |-> k.id, job |-> k.job,
             read |-> k.read, left |-> k.left]
    BY <2>2
  <2>5. QED BY <1>3, <1>4, <2>1, <2>3, <2>4 DEF CallOK
<1>8. CallsOK' /\ call'[c] = k /\ Others(c)
  BY <1>4, <1>6, <1>7, CallSet DEF RemindersInv
<1>9. QED BY <1>1, <1>2, <1>3, <1>4, <1>5, <1>7, <1>8 DEF Away, RemindersInv

LEMMA AddJobTypes ==
  ASSUME RemindersInv, NEW c \in Calls, AddJob(c)
  PROVE  RemindersInv' /\ Others(c) /\ Away(c)'
<1>1. CallOK(call[c], Present) /\ call[c].id \in Present /\ call[c].id \in Ids
  BY Awake DEF AddJob, At, RemindersInv, CallOK, Present
<1>2. RowsOK' /\ Present' = Present
  <2>1. /\ jobs' \in [Ids -> Nat]
        /\ \A r \in Ids : jobs'[r] > 0 => r \in Present
    BY <1>1 DEF RemindersInv, RowsOK, AddJob
  <2>2. QED BY <2>1 DEF RemindersInv, RowsOK, AddJob, rows, history, Present
<1>3. QED BY <1>1, <1>2, Proceeds DEF AddJob, RemindersInv

LEMMA TakeJobTypes ==
  ASSUME RemindersInv, NEW c \in Calls, NEW r \in Ids, TakeJob(c, r)
  PROVE  RemindersInv' /\ Others(c) /\ Away(c)'
<1>1. r \in Present
  BY DEF TakeJob, RemindersInv, RowsOK
<1>2. RowsOK' /\ Present' = Present
  <2>1. jobs' \in [Ids -> Nat] /\ \A s \in Ids : jobs'[s] <= jobs[s]
    BY DEF RemindersInv, RowsOK, TakeJob
  <2>2. QED BY <2>1 DEF RemindersInv, RowsOK, TakeJob, rows, history, Present
<1>3. <<>> \in Seq(Plans) /\ {} \in SUBSET Present
  OBVIOUS
<1>4. CallsOK' /\ Others(c) /\ Away(c)'
  <2>1. Begin(c, "read", <<>>, {}, r, TRUE)
    BY DEF TakeJob
  <2>2. QED BY <1>1, <1>2, <1>3, <2>1, Begins DEF RemindersInv
<1>5. QED BY <1>2, <1>4 DEF RemindersInv

LEMMA SweepTypes ==
  ASSUME RemindersInv, NEW c \in Calls, Sweep(c)
  PROVE  RemindersInv' /\ Others(c) /\ Away(c)'
<1>1. PICK overdue \in SUBSET Pending : \E r \in overdue :
        Begin(c, "read", <<>>, overdue \ {r}, r, FALSE)
  BY DEF Sweep
<1>2. PICK r \in overdue : Begin(c, "read", <<>>, overdue \ {r}, r, FALSE)
  BY <1>1
<1>3. RowsOK' /\ Present' = Present
  BY DEF RemindersInv, RowsOK, Sweep, rows, history, Present
<1>4. <<>> \in Seq(Plans) /\ overdue \ {r} \in SUBSET Present /\ r \in Present
  BY DEF Pending, Present
<1>5. CallsOK' /\ Others(c) /\ Away(c)'
  BY <1>2, <1>3, <1>4, Begins DEF RemindersInv
<1>6. QED BY <1>3, <1>5 DEF RemindersInv

\* Lists of channels.
Els(l) == {l[i] : i \in DOMAIN l}

LEMMA ListFacts ==
  ASSUME NEW l \in Lists
  PROVE  /\ Els(<<>>) = {} /\ Els(l) \subseteq Channels
         /\ l # <<>> => /\ Tail(l) \in Lists
                        /\ Head(l) \in Els(l) /\ Head(l) \notin Els(Tail(l))
                        /\ Els(l) = {Head(l)} \cup Els(Tail(l))
<1>1. Els(<<>>) = {}
  BY DEF Els
<1>2. Els(<<"email">>) = {"email"} /\ Els(<<"notification">>) = {"notification"}
  BY DEF Els
<1>3. Els(<<"email", "notification">>) = {"email", "notification"}
  BY DEF Els
<1>4. CASE l = <<>>
  BY <1>1, <1>4
<1>5. CASE l = <<"email">>
  <2>1. Head(l) = "email" /\ Tail(l) = <<>>
    BY <1>5
  <2>2. QED BY <1>1, <1>2, <1>5, <2>1 DEF Lists, Channels
<1>6. CASE l = <<"notification">>
  <2>1. Head(l) = "notification" /\ Tail(l) = <<>>
    BY <1>6
  <2>2. QED BY <1>1, <1>2, <1>6, <2>1 DEF Lists, Channels
<1>7. CASE l = <<"email", "notification">>
  <2>1. Head(l) = "email" /\ Tail(l) = <<"notification">>
    BY <1>7
  <2>2. QED BY <1>1, <1>2, <1>3, <1>7, <2>1 DEF Lists, Channels
<1>8. QED BY <1>4, <1>5, <1>6, <1>7 DEF Lists

\* An attempt serves all channels of its plan, or all but the e-mail.
LEMMA ServedFacts ==
  ASSUME NEW p \in Plans, NEW found \in BOOLEAN
  PROVE  /\ ChannelsOf[p] \in Lists /\ Served(p, found) \in Lists
         /\ Served(p, TRUE) = ChannelsOf[p]
         /\ Els(ChannelsOf[p]) \subseteq Els(Served(p, found)) \cup {"email"}
         /\ Els(Served(p, found)) \subseteq Els(ChannelsOf[p])
         /\ Served(p, found) # ChannelsOf[p] =>
              "email" \in Els(ChannelsOf[p]) /\ "email" \notin Els(Served(p, found))
<1>1. PICK l : l = ChannelsOf[p] /\ l \in {<<"email">>, <<"notification">>, <<"email", "notification">>}
  BY RemindersAssumption
<1>2. l \in Lists /\ l # <<>>
  BY <1>1 DEF Lists
<1>3. Served(p, found) = l \/ (Head(l) = "email" /\ Served(p, found) = Tail(l))
  BY <1>1 DEF Served
<1>4. QED BY <1>1, <1>2, <1>3, ListFacts DEF Served

\* An attempt that found its reminder PENDING has its channels to serve.
LEMMA ReadReminderTypes ==
  ASSUME RemindersInv, NEW c \in Calls, ReadReminder(c)
  PROVE  /\ RemindersInv' /\ Others(c) /\ call[c].id \in Present
         /\ \/ Away(c)' /\ excused' = excused /\ mute' = mute
            \/ /\ call'[c].pc = "send" /\ call'[c].id = call[c].id
               /\ \E found \in BOOLEAN :
                    /\ call'[c].left = Served(plan[call[c].id], found)
                    /\ mute' = IF Served(plan[call[c].id], found) = ChannelsOf[plan[call[c].id]]
                               THEN mute ELSE mute \cup {c}
               /\ status[call[c].id] = "PENDING"
               /\ Excuse(call[c].id, \E d \in Calls : Trying(d, call[c].id))
<1> DEFINE r == call[c].id
<1>1. CallOK(call[c], Present) /\ r \in Present /\ r \in Ids
  BY Awake DEF ReadReminder, At, RemindersInv, CallOK, Present
<1>2. RowsOK' /\ Present' = Present
  BY <1>1 DEF RemindersInv, RowsOK, ReadReminder, rows, Present, Excuse
<1>3. ASSUME StillPending(r), Excuse(r, \E d \in Calls : Trying(d, r)), NEW found \in BOOLEAN,
             call' = [call EXCEPT ![c] = [@ EXCEPT !.pc = "send", !.read = retries[r],
                                                   !.left = Served(plan[r], found)]],
             mute' = IF Served(plan[r], found) = ChannelsOf[plan[r]] THEN mute ELSE mute \cup {c}
      PROVE  /\ RemindersInv' /\ Others(c) /\ r \in Present
             /\ call'[c].pc = "send" /\ call'[c].id = r
             /\ call'[c].left = Served(plan[r], found)
             /\ status[r] = "PENDING"
  <2>0. PICK l \in Lists : l = Served(plan[r], found)
    BY <1>1, ServedFacts DEF RemindersInv, RowsOK
  <2>1. PICK k : /\ call' = [call EXCEPT ![c] = k]
                 /\ k = [call[c] EXCEPT !.pc = "send", !.read = retries[r], !.left = l]
    BY ONLY <1>3, <2>0
  <2>2. retries[r] \in 0..MaxRetries
    BY <1>1, <1>3, RemindersAssumption DEF StillPending, RemindersInv, RowsOK
  <2>4. k = [pc |-> "send", plans |-> call[c].plans, todo |-> call[c].todo, id |-> r,
             job |-> call[c].job, read |-> retries[r], left |-> l]
    BY <1>1, <2>1 DEF CallOK
  <2>5. /\ k.pc = "send" /\ k.plans = call[c].plans /\ k.todo = call[c].todo /\ k.id = r
        /\ k.job = call[c].job /\ k.read = retries[r] /\ k.left = l
    BY ONLY <2>4
  <2>6. k = [pc |-> k.pc, plans |-> k.plans, todo |-> k.todo, id |-> k.id, job |-> k.job,
             read |-> k.read, left |-> k.left]
    BY ONLY <2>4
  <2>7. CallOK(k, Present)
    BY <1>1, <2>2, <2>5, <2>6 DEF CallOK
  <2>8. CallsOK' /\ call'[c] = k /\ Others(c)
    BY <1>2, <2>1, <2>7, CallSet DEF RemindersInv
  <2>9. QED BY <1>1, <1>2, <1>3, <2>0, <2>5, <2>8 DEF RemindersInv, StillPending
<1>4. CASE Proceed(c) /\ excused' = excused /\ mute' = mute
  <2>1. CallsOK' /\ Others(c) /\ Away(c)'
    BY <1>1, <1>2, <1>4, Proceeds DEF RemindersInv
  <2>2. QED BY <1>1, <1>2, <1>4, <2>1 DEF RemindersInv
<1>5. QED BY <1>3, <1>4 DEF ReadReminder

LEMMA SendTypes ==
  ASSUME RemindersInv, NEW c \in Calls, Send(c)
  PROVE  /\ RemindersInv' /\ Others(c) /\ call[c].id \in Present /\ call[c].left \in Lists
         /\ call'[c].pc = "send" /\ call'[c].id = call[c].id /\ call'[c].left = Tail(call[c].left)
<1>1. CallOK(call[c], Present) /\ call[c].id \in Present /\ call[c].id \in Ids
  BY Awake DEF Send, At, RemindersInv, CallOK, Present
<1>2. call[c].left \in Lists /\ Tail(call[c].left) \in Lists /\ Head(call[c].left) \in Channels
  BY <1>1, ListFacts DEF CallOK, Send
<1>3. RowsOK' /\ Present' = Present
  BY <1>1, <1>2 DEF RemindersInv, RowsOK, Send, rows, Present
<1>4. PICK k : call' = [call EXCEPT ![c] = k] /\ k = [call[c] EXCEPT !.left = Tail(@)]
  <2>1. call' = [call EXCEPT ![c] = [call[c] EXCEPT !.left = Tail(@)]]
    BY DEF Send, Remaining
  <2>2. QED BY ONLY <2>1
<1>5. CallOK(k, Present) /\ k.pc = "send" /\ k.id = call[c].id /\ k.left = Tail(call[c].left)
  BY <1>1, <1>2, <1>4 DEF CallOK, Send, At
<1>6. CallsOK' /\ call'[c] = k /\ Others(c)
  BY <1>3, <1>4, <1>5, CallSet DEF RemindersInv
<1>7. QED BY <1>1, <1>2, <1>3, <1>5, <1>6 DEF RemindersInv

LEMMA MarkSentTypes ==
  ASSUME RemindersInv, NEW c \in Calls, MarkSent(c)
  PROVE  RemindersInv' /\ Others(c) /\ Away(c)' /\ call[c].id \in Present /\ Present' = Present
<1>1. CallOK(call[c], Present) /\ call[c].id \in Present /\ call[c].id \in Ids
  BY Awake DEF MarkSent, At, RemindersInv, CallOK, Present
<1>2. Present' = Present
  BY <1>1 DEF RemindersInv, RowsOK, MarkSent, Present
<1>3. RowsOK'
  BY <1>1, <1>2 DEF RemindersInv, RowsOK, MarkSent, history
<1>4. QED BY <1>1, <1>2, <1>3, Proceeds DEF MarkSent, RemindersInv

LEMMA SendThrowsTypes ==
  ASSUME RemindersInv, NEW c \in Calls, SendThrows(c)
  PROVE  /\ RemindersInv' /\ Others(c) /\ call[c].id \in Present
         /\ call'[c].pc = "fail" /\ call'[c].id = call[c].id
<1>1. CallOK(call[c], Present) /\ call[c].id \in Present /\ call[c].id \in Ids
  BY Awake DEF SendThrows, At, RemindersInv, CallOK, Present
<1>2. RowsOK' /\ Present' = Present
  BY <1>1, RemindersAssumption DEF RemindersInv, RowsOK, SendThrows, rows, Present, Excuse
<1>3. PICK k : call' = [call EXCEPT ![c] = k] /\ k = [call[c] EXCEPT !.pc = "fail", !.left = <<>>]
  BY DEF SendThrows
<1>4. CallOK(k, Present) /\ k.pc = "fail" /\ k.id = call[c].id
  BY <1>1, <1>3 DEF CallOK, Lists
<1>5. CallsOK' /\ call'[c] = k /\ Others(c)
  BY <1>2, <1>3, <1>4, CallSet DEF RemindersInv
<1>6. QED BY <1>1, <1>2, <1>4, <1>5 DEF RemindersInv

LEMMA RecordFailureTypes ==
  ASSUME RemindersInv, NEW c \in Calls, RecordFailure(c)
  PROVE  RemindersInv' /\ Others(c) /\ Away(c)' /\ call[c].id \in Present /\ Present' = Present
<1> DEFINE r == call[c].id
           n == call[c].read + 1
<1>1. CallOK(call[c], Present) /\ r \in Present /\ r \in Ids
  BY Awake DEF RecordFailure, At, RemindersInv, CallOK, Present
<1>2. n \in 0..MaxRetries + 1 /\ retries' = [retries EXCEPT ![r] = n]
  BY <1>1, RemindersAssumption DEF CallOK, RecordFailure
<1>3. CASE /\ MayRetry(n) /\ status' = status
           /\ call' = [call EXCEPT ![c] = [@ EXCEPT !.pc = "enqueue", !.read = 0, !.left = <<>>]]
  <2>1. RowsOK' /\ Present' = Present
    BY <1>1, <1>2, <1>3 DEF RemindersInv, RowsOK, RecordFailure, history, Present, MayRetry
  <2>2. PICK k : /\ call' = [call EXCEPT ![c] = k]
                 /\ k = [call[c] EXCEPT !.pc = "enqueue", !.read = 0, !.left = <<>>]
    BY ONLY <1>3
  <2>3. k = [pc |-> "enqueue", plans |-> call[c].plans, todo |-> call[c].todo, id |-> r,
             job |-> call[c].job, read |-> 0, left |-> <<>>]
    BY <1>1, <2>2 DEF CallOK
  <2>4. /\ k.pc = "enqueue" /\ k.plans = call[c].plans /\ k.todo = call[c].todo /\ k.id = r
        /\ k.job = call[c].job /\ k.read = 0 /\ k.left = <<>>
    BY ONLY <2>3
  <2>5. k = [pc |-> k.pc, plans |-> k.plans, todo |-> k.todo, id |-> k.id, job |-> k.job,
             read |-> k.read, left |-> k.left]
    BY ONLY <2>3
  <2>6. CallOK(k, Present)
    BY <1>1, <2>4, <2>5, RemindersAssumption DEF CallOK, Lists
  <2>7. CallsOK' /\ call'[c] = k /\ Others(c)
    BY <2>1, <2>2, <2>6, CallSet DEF RemindersInv
  <2>8. QED BY <1>1, <2>1, <2>4, <2>7 DEF Away, RemindersInv
<1>4. CASE ~MayRetry(n) /\ status' = [status EXCEPT ![r] = "FAILED"] /\ Proceed(c)
  <2>1. Present' = Present
    BY <1>1, <1>4 DEF RemindersInv, RowsOK, Present
  <2>2. RowsOK'
    BY <1>1, <1>2, <1>4, <2>1 DEF RemindersInv, RowsOK, RecordFailure, history
  <2>3. QED BY <1>1, <1>4, <2>1, <2>2, Proceeds DEF RemindersInv
<1>5. QED BY <1>3, <1>4 DEF RecordFailure, StatusOnRetry

LEMMA BreakTypes ==
  ASSUME RemindersInv, NEW c \in Calls, Break(c)
  PROVE  RemindersInv' /\ Others(c) /\ Away(c)'
<1>1. CallOK(call[c], Present)
  BY DEF Break, RemindersInv, CallsOK
<1>2. HasSent(c) => call[c].id \in Present
  BY <1>1 DEF HasSent, At, CallOK
<1>3. RowsOK' /\ Present' = Present
  <2>1. Present' = Present /\ faults' \in 0..MaxFaults /\ excused' \in SUBSET Present
    BY <1>2, RemindersAssumption DEF RemindersInv, RowsOK, Break, rows, Present, Excuse
  <2>2. call[c].job => call[c].id \in Present /\ call[c].id \in Ids
    BY <1>1 DEF CallOK, Present
  <2>3. /\ jobs' \in [Ids -> Nat]
        /\ \A r \in Ids : jobs'[r] > 0 => r \in Present
    BY <2>2 DEF RemindersInv, RowsOK, Break
  <2>4. QED BY <2>1, <2>3 DEF RemindersInv, RowsOK, Break, rows
<1>4. CallsOK' /\ call'[c] = Idle /\ Others(c)
  BY <1>3, CallSet DEF Break, RemindersInv
<1>5. QED BY <1>3, <1>4 DEF Away, Idle, RemindersInv

LEMMA CancelTypes ==
  ASSUME RemindersInv, CancelRemindersForOrder \/ \E r \in Ids : CancelReminder(r)
  PROVE  RemindersInv' /\ Present' = Present
<1>1. Present' = Present
  BY DEF RemindersInv, RowsOK, CancelRemindersForOrder, CancelReminder, Present
<1>2. RowsOK'
  BY <1>1 DEF RemindersInv, RowsOK, CancelRemindersForOrder, CancelReminder, history
<1>3. QED BY <1>1, <1>2, CallsKept DEF CancelRemindersForOrder, CancelReminder, RemindersInv

LEMMA TypesStep ==
  ASSUME RemindersInv, [Next]_vars
  PROVE  RemindersInv'
<1>1. CASE UNCHANGED vars
  <2>1. Present' = Present
    BY <1>1 DEF vars, rows, Present
  <2>2. RowsOK' /\ CallsOK'
    BY <1>1, <2>1, CallsKept DEF RemindersInv, RowsOK, vars, rows, history
  <2>3. QED BY <2>2 DEF RemindersInv
<1>2. ASSUME NEW c \in Calls, Step(c) \/ SendThrows(c) \/ Break(c) \/ Sweep(c)
      PROVE  RemindersInv'
  BY <1>2, FindExistingTypes, InsertTypes, AddJobTypes, ReadReminderTypes, SendTypes, MarkSentTypes,
     RecordFailureTypes, SendThrowsTypes, BreakTypes, SweepTypes DEF Step
<1>3. QED
  BY <1>1, <1>2, ScheduleTypes, TakeJobTypes, CancelTypes DEF Next

LEMMA TypesInit == ASSUME Init PROVE RemindersInv
<1>1. ASSUME NEW r \in Ids PROVE plan[r] \in Plans
  BY RemindersAssumption DEF Init
<1>2. QED BY <1>1, RemindersAssumption DEF Init, RemindersInv, RowsOK, CallsOK, Present

\* Rows and calls have their types, `retryCount` never passes `maxRetries` by more
\* than one, for any number of calls and faults.
THEOREM ReminderTypes == Spec => []TypeOK
<1>1. RemindersInv => TypeOK
  <2>1. Lists \subseteq Seq(Channels)
    BY DEF Lists, Channels
  <2>2. QED BY <2>1 DEF RemindersInv, RowsOK, CallsOK, CallOK, TypeOK, Idle
<1>2. QED BY <1>1, TypesInit, TypesStep, PTL DEF Spec

-----------------------------------------------------------------------------
(***************************************************************************)
(* Two calls insert the same reminder only if both looked for it before    *)
(* either inserted it.                                                     *)
(***************************************************************************)
Claiming(c, p) == At(c, "insert") /\ Head(call[c].plans) = p

\* A call about to insert has overlooked only reminders of raced plans.
ClaimsAreRaced ==
  \A c \in Calls :
    At(c, "insert") =>
      /\ \A r \in Present : plan[r] = Head(call[c].plans) => plan[r] \in raced
      /\ \A d \in Calls \ {c} :
           Claiming(d, Head(call[c].plans)) => Head(call[c].plans) \in raced

RaceInv == ClaimsAreRaced /\ OneRowEach

\* Steps that neither look for a reminder nor insert one.
LEMMA RaceKept ==
  ASSUME RaceInv, Present' = Present, plan' = plan, raced \subseteq raced',
         \A d \in Calls : At(d, "insert")' => At(d, "insert") /\ call'[d].plans = call[d].plans
  PROVE  RaceInv'
  BY DEF RaceInv, ClaimsAreRaced, Claiming, OneRowEach, At

LEMMA AwayClaimsNothing ==
  ASSUME NEW c \in Calls, Others(c), call'[c].pc # "insert", NEW d \in Calls, At(d, "insert")'
  PROVE  d # c /\ At(d, "insert") /\ call'[d] = call[d]
  BY DEF Others, At

LEMMA RaceFind ==
  ASSUME RemindersInv, RaceInv, NEW c \in Calls, FindExisting(c)
  PROVE  RaceInv'
<1> DEFINE p == Head(call[c].plans)
<1>1. Present' = Present /\ plan' = plan
  BY DEF FindExisting, rows, Present
<1>2. CASE Away(c)' /\ raced' = raced
  BY <1>1, <1>2, FindExistingTypes, RaceKept, AwayClaimsNothing DEF Away
<1>3. CASE At(c, "insert")' /\ call'[c].plans = call[c].plans /\ ~Exists(p)
  <2>1. Others(c)
    BY FindExistingTypes
  <2>2. raced' = IF \E d \in Calls : Claiming(d, p) THEN raced \cup {p} ELSE raced
    BY <1>3 DEF FindExisting, Claiming
  <2>3. \A d \in Calls \ {c} : \A q : Claiming(d, q)' <=> Claiming(d, q)
    BY <2>1 DEF Others, Claiming, At
  <2>4. \A q : Claiming(c, q)' <=> q = p
    BY <1>3 DEF Claiming, At
  <2>5. OneRowEach'
    BY <1>1, <2>2 DEF RaceInv, OneRowEach
  <2>6. ASSUME NEW a \in Calls, At(a, "insert")',
               NEW q, q = Head(call'[a].plans), NEW r \in Present, plan[r] = q
        PROVE  q \in raced'
    <3>1. CASE a = c
      BY <1>3, <2>6, <3>1 DEF Exists
    <3>2. CASE a # c
      BY <2>1, <2>2, <2>6, <3>2 DEF Others, At, RaceInv, ClaimsAreRaced
    <3>3. QED BY <3>1, <3>2
  <2>7. ASSUME NEW a \in Calls, NEW b \in Calls \ {a}, NEW q, Claiming(a, q)', Claiming(b, q)'
        PROVE  q \in raced'
    <3>1. CASE a = c
      BY <2>2, <2>3, <2>4, <2>7, <3>1
    <3>2. CASE b = c
      BY <2>2, <2>3, <2>4, <2>7, <3>2
    <3>3. CASE a # c /\ b # c
      <4>1. Claiming(a, q) /\ Claiming(b, q)
        BY <2>3, <2>7, <3>3
      <4>2. QED BY <2>2, <4>1 DEF RaceInv, ClaimsAreRaced, Claiming
    <3>4. QED BY <3>1, <3>2, <3>3
  <2>8. ClaimsAreRaced'
    BY <1>1, <2>6, <2>7 DEF ClaimsAreRaced, Claiming
  <2>9. QED BY <2>5, <2>8 DEF RaceInv
<1>4. QED BY <1>2, <1>3, FindExistingTypes

LEMMA RaceInsert ==
  ASSUME RemindersInv, RaceInv, NEW c \in Calls, Insert(c)
  PROVE  RaceInv'
<1> DEFINE p == Head(call[c].plans)
<1>1. PICK r \in Ids \ Present : plan' = [plan EXCEPT ![r] = p] /\ Present' = Present \cup {r}
  BY InsertTypes
<1>2. /\ plan'[r] = p /\ \A s \in Present : plan'[s] = plan[s]
  BY <1>1 DEF RemindersInv, RowsOK, Present
<1>3. raced' = raced /\ Others(c) /\ call'[c].pc # "insert" /\ At(c, "insert")
  BY InsertTypes DEF Insert, history, Away
<1>4. \A s \in Present : plan[s] = p => p \in raced
  BY <1>3 DEF RaceInv, ClaimsAreRaced
<1>5. OneRowEach'
  BY <1>1, <1>2, <1>3, <1>4 DEF RaceInv, OneRowEach
<1>6. ASSUME NEW a \in Calls, At(a, "insert")'
      PROVE  /\ a # c /\ At(a, "insert") /\ call'[a] = call[a]
             /\ Head(call[a].plans) = p => p \in raced
  <2>1. a # c /\ At(a, "insert") /\ call'[a] = call[a]
    BY <1>3, <1>6, AwayClaimsNothing
  <2>2. QED BY <1>3, <2>1 DEF RaceInv, ClaimsAreRaced, Claiming
<1>7. ClaimsAreRaced'
  BY <1>1, <1>2, <1>3, <1>6 DEF RaceInv, ClaimsAreRaced, Claiming
<1>8. QED BY <1>5, <1>7 DEF RaceInv

LEMMA RaceStep ==
  ASSUME RemindersInv, RaceInv, [Next]_vars
  PROVE  RaceInv'
<1>1. CASE UNCHANGED vars
  <2>1. Present' = Present
    BY <1>1 DEF vars, rows, Present
  <2>2. QED BY <1>1, <2>1, RaceKept DEF vars, rows, history, At
<1>2. ASSUME NEW c \in Calls, NEW list \in PlanLists, Schedule(c, list)
      PROVE  RaceInv'
  <2>1. Present' = Present /\ plan' = plan /\ raced' = raced
    BY <1>2 DEF Schedule, rows, history, Present
  <2>2. QED BY <1>2, <2>1, ScheduleTypes, RaceKept, AwayClaimsNothing DEF Away
<1>3. ASSUME NEW c \in Calls, AddJob(c)
      PROVE  RaceInv'
  <2>1. Present' = Present /\ plan' = plan /\ raced' = raced
    BY <1>3 DEF AddJob, rows, history, Present
  <2>2. QED BY <1>3, <2>1, AddJobTypes, RaceKept, AwayClaimsNothing DEF Away
<1>4. ASSUME NEW c \in Calls, ReadReminder(c)
      PROVE  RaceInv'
  <2>1. Present' = Present /\ plan' = plan /\ raced' = raced
    BY <1>4 DEF ReadReminder, rows, Present
  <2>2. QED BY <1>4, <2>1, ReadReminderTypes, RaceKept, AwayClaimsNothing DEF Away
<1>5. ASSUME NEW c \in Calls, Send(c)
      PROVE  RaceInv'
  <2>1. Present' = Present /\ plan' = plan /\ raced' = raced
    BY <1>5 DEF Send, rows, Present
  <2>2. QED BY <1>5, <2>1, SendTypes, RaceKept, AwayClaimsNothing
<1>6. ASSUME NEW c \in Calls, MarkSent(c)
      PROVE  RaceInv'
  <2>1. plan' = plan /\ raced' = raced
    BY <1>6 DEF MarkSent, history
  <2>2. QED BY <1>6, <2>1, MarkSentTypes, RaceKept, AwayClaimsNothing DEF Away
<1>7. ASSUME NEW c \in Calls, RecordFailure(c)
      PROVE  RaceInv'
  <2>1. plan' = plan /\ raced' = raced
    BY <1>7 DEF RecordFailure, history
  <2>2. QED BY <1>7, <2>1, RecordFailureTypes, RaceKept, AwayClaimsNothing DEF Away
<1>8. ASSUME NEW c \in Calls, SendThrows(c)
      PROVE  RaceInv'
  <2>1. Present' = Present /\ plan' = plan /\ raced' = raced
    BY <1>8 DEF SendThrows, rows, Present
  <2>2. QED BY <1>8, <2>1, SendThrowsTypes, RaceKept, AwayClaimsNothing
<1>9. ASSUME NEW c \in Calls, Break(c)
      PROVE  RaceInv'
  <2>1. Present' = Present /\ plan' = plan /\ raced' = raced
    BY <1>9 DEF Break, rows, Present
  <2>2. QED BY <1>9, <2>1, BreakTypes, RaceKept, AwayClaimsNothing DEF Away
<1>10. ASSUME NEW c \in Calls, Sweep(c)
       PROVE  RaceInv'
  <2>1. Present' = Present /\ plan' = plan /\ raced' = raced
    BY <1>10 DEF Sweep, rows, history, Present
  <2>2. QED BY <1>10, <2>1, SweepTypes, RaceKept, AwayClaimsNothing DEF Away
<1>11. ASSUME NEW c \in Calls, NEW r \in Ids, TakeJob(c, r)
       PROVE  RaceInv'
  <2>1. Present' = Present /\ plan' = plan /\ raced' = raced
    BY <1>11 DEF TakeJob, rows, history, Present
  <2>2. QED BY <1>11, <2>1, TakeJobTypes, RaceKept, AwayClaimsNothing DEF Away
<1>12. CASE CancelRemindersForOrder \/ \E r \in Ids : CancelReminder(r)
  <2>1. plan' = plan /\ raced' = raced /\ call' = call
    BY <1>12 DEF CancelRemindersForOrder, CancelReminder, history
  <2>2. QED BY <1>12, <2>1, CancelTypes, RaceKept DEF At
<1>13. QED
  BY <1>1, <1>2, <1>3, <1>4, <1>5, <1>6, <1>7, <1>8, <1>9, <1>10, <1>11, <1>12, RaceFind,
     RaceInsert DEF Next, Step

\* A plan has one reminder, whatever became of it, unless two calls looked for it before
\* either inserted it: scheduleReminder's check for an existing row is enough for calls
\* that do not overlap, however many retries and cancellations come between.
THEOREM OneReminderEach == Spec => []OneRowEach
<1>1. Init => RaceInv
  BY DEF Init, RaceInv, ClaimsAreRaced, OneRowEach, At, Idle, Present
<1>2. RaceInv => OneRowEach
  BY DEF RaceInv
<1>3. QED BY <1>1, <1>2, TypesInit, TypesStep, RaceStep, PTL DEF Spec

\* A reminder that has ended is never PENDING again; and once the attempts that found it
\* PENDING are over, only a cancellation still changes it.
THEOREM EndedRemindersRest == Spec => EndedRests
<1> DEFINE Rests == \A r \in Present :
             status[r] # "PENDING" =>
               /\ status'[r] # "PENDING"
               /\ (\E c \in Calls : Trying(c, r)) \/ status'[r] \in {status[r], "CANCELLED"}
<1>1. ASSUME RemindersInv, [Next]_vars, NEW r \in Present, status[r] # "PENDING"
      PROVE  /\ status'[r] # "PENDING"
             /\ (\E c \in Calls : Trying(c, r)) \/ status'[r] \in {status[r], "CANCELLED"}
  <2>1. r \in Ids
    BY DEF Present
  <2>2. CASE status' = status
    BY <1>1, <2>2
  <2>3. ASSUME NEW c \in Calls, Insert(c)
        PROVE  status'[r] = status[r]
    BY <2>1, <2>3, InsertTypes, <1>1 DEF RemindersInv, RowsOK
  <2>4. ASSUME NEW c \in Calls, MarkSent(c) \/ RecordFailure(c), status'[r] # status[r]
        PROVE  status'[r] # "PENDING" /\ Trying(c, r)
    BY <2>1, <2>4, <1>1 DEF RemindersInv, RowsOK, MarkSent, RecordFailure, StatusOnRetry, Trying
  <2>5. CASE CancelRemindersForOrder \/ \E s \in Ids : CancelReminder(s)
    BY <1>1, <2>1, <2>5 DEF RemindersInv, RowsOK, CancelRemindersForOrder, CancelReminder
  <2>6. CASE UNCHANGED vars
    BY <2>2, <2>6 DEF vars, rows
  <2>7. QED
    BY <1>1, <2>2, <2>3, <2>4, <2>5, <2>6 DEF Next, Step, Schedule, FindExisting, AddJob,
       TakeJob, Sweep, ReadReminder, Send, SendThrows, Break, rows
<1>2. RemindersInv /\ [Next]_vars => [Rests]_status
  BY <1>1
<1>3. QED BY <1>2, TypesInit, TypesStep, PTL DEF Spec, EndedRests

-----------------------------------------------------------------------------
(***************************************************************************)
(* What was sent.                                                          *)
(***************************************************************************)
Sending(c, r) == At(c, "send") /\ call[c].id = r

ToSend(r) == Els(ChannelsOf[plan[r]])

\* Only channels of a reminder are sent, and none before an attempt found it.
SentOfPlan == \A r \in Ids : sent[r] \subseteq ToSend(r) /\ (r \notin Present => sent[r] = {})

\* What an attempt leaves out, and with it what it has not served.
Omitted(c) == IF c \in mute THEN {"email"} ELSE {}

Unserved(c) == Els(call[c].left) \cup Omitted(c)

MuteSends == \A c \in mute : At(c, "send") /\ "email" \notin Els(call[c].left)

\* An attempt has channels left that it has not served, and has served the others but
\* for what it leaves out.
SendCovers ==
  \A c \in Calls, r \in Present :
    Sending(c, r) => Unserved(c) \subseteq ToSend(r) /\ ToSend(r) \subseteq sent[r] \cup Unserved(c)

\* Two attempts at a reminder excuse it.
TryAlone ==
  \A r \in Ids : \A c \in Calls : \A d \in Calls \ {c} : Trying(c, r) /\ Trying(d, r) => r \in excused

\* What the attempt at a reminder without excuse has not served was not sent.
SendFresh ==
  \A c \in Calls, r \in Present :
    Sending(c, r) /\ r \notin excused => sent[r] \cap Unserved(c) = {}

\* While no attempt is sending a PENDING reminder without excuse, nothing of it was sent.
PendingClean ==
  \A r \in Present :
    status[r] = "PENDING" /\ r \notin excused /\ (\A c \in Calls : ~Sending(c, r)) => sent[r] = {}

\* A FAILED reminder without excuse has used up its retries, and no attempt is at it.
FailedRests ==
  \A r \in Present :
    status[r] = "FAILED" /\ r \notin excused =>
      retries[r] = MaxRetries + 1 /\ \A c \in Calls : ~Trying(c, r)

SendInv ==
  /\ SentOfPlan /\ SendCovers /\ MuteSends
  /\ TryAlone /\ SendFresh /\ PendingClean /\ DuplicatesExcused /\ FailedRests

\* A call that is not at the end of the step where it may send is left alone.
LEMMA OthersTry ==
  ASSUME NEW c \in Calls, Others(c), NEW d \in Calls \ {c}, NEW r
  PROVE  /\ call'[d] = call[d]
         /\ Trying(d, r)' <=> Trying(d, r)
         /\ Sending(d, r)' <=> Sending(d, r)
  BY DEF Others, Trying, Sending, At

LEMMA AwayTriesNothing ==
  ASSUME NEW c, Away(c), NEW r
  PROVE  ~Trying(c, r) /\ ~Sending(c, r)
  BY DEF Away, Trying, Sending, At

\* Steps of calls that neither read, send nor fail, or of no call.
LEMMA SendKept ==
  ASSUME RemindersInv, SendInv, Present' = Present, plan' = plan, retries' = retries, sent' = sent,
         twice' = twice, excused' = excused, mute' = mute,
         \A r \in Present : status'[r] # status[r] => status'[r] = "CANCELLED",
         \A d \in Calls : \A r \in Ids :
           /\ Trying(d, r)' <=> Trying(d, r)
           /\ Sending(d, r)' <=> Sending(d, r)
           /\ Sending(d, r) => call'[d].left = call[d].left
  PROVE  SendInv'
<1>1. Present \subseteq Ids
  BY DEF Present
<1>2. SentOfPlan' /\ DuplicatesExcused' /\ TryAlone'
  BY DEF SendInv, SentOfPlan, ToSend, DuplicatesExcused, TryAlone
<1>3. MuteSends'
  <2>1. ASSUME NEW c \in mute PROVE At(c, "send")' /\ "email" \notin Els(call'[c].left)
    <3>1. c \in Calls /\ At(c, "send") /\ "email" \notin Els(call[c].left)
      BY <2>1 DEF RemindersInv, RowsOK, SendInv, MuteSends
    <3>2. CallOK(call[c], Present)
      BY <3>1, Awake DEF At, RemindersInv
    <3>3. Sending(c, call[c].id) /\ call[c].id \in Ids
      BY <1>1, <3>1, <3>2 DEF Sending, At, CallOK
    <3>4. QED BY <3>1, <3>3 DEF Sending
  <2>2. QED BY <2>1 DEF MuteSends
<1>4. SendCovers' /\ SendFresh'
  <2>1. ASSUME NEW c \in Calls, NEW r \in Present, Sending(c, r)
        PROVE  Unserved(c)' = Unserved(c)
    BY <1>1, <2>1 DEF Unserved, Omitted
  <2>2. QED BY <1>1, <2>1 DEF SendInv, SendCovers, SendFresh, ToSend
<1>5. PendingClean' /\ FailedRests'
  BY <1>1 DEF SendInv, PendingClean, FailedRests
<1>6. QED BY <1>2, <1>3, <1>4, <1>5 DEF SendInv

\* A step that takes its call from one place where it does not send to another.
LEMMA SendNot ==
  ASSUME RemindersInv, SendInv, NEW c \in Calls, Others(c),
         ~At(c, "send"), ~At(c, "fail"), Away(c)' \/ At(c, "insert")',
         Present' = Present, UNCHANGED <<status, plan, retries, sent, twice, excused, mute>>
  PROVE  SendInv'
<1>1. ASSUME NEW d \in Calls, NEW r \in Ids
      PROVE  /\ Trying(d, r)' <=> Trying(d, r)
             /\ Sending(d, r)' <=> Sending(d, r)
             /\ Sending(d, r) => call'[d].left = call[d].left
  <2>1. CASE d = c
    BY <2>1 DEF Trying, Sending, At, Away
  <2>2. CASE d # c
    BY <2>2, OthersTry
  <2>3. QED BY <2>1, <2>2
<1>2. QED BY <1>1, SendKept

LEMMA SendInsert ==
  ASSUME RemindersInv, SendInv, NEW c \in Calls, Insert(c)
  PROVE  SendInv'
<1>1. PICK r \in Ids \ Present : /\ status' = [status EXCEPT ![r] = "PENDING"]
                                 /\ plan' = [plan EXCEPT ![r] = Head(call[c].plans)]
                                 /\ Present' = Present \cup {r}
  BY InsertTypes
<1>2. /\ retries' = retries /\ sent' = sent /\ twice' = twice /\ excused' = excused
      /\ mute' = mute /\ At(c, "insert") /\ Others(c) /\ Away(c)' /\ Present \subseteq Ids
  BY InsertTypes DEF Insert, history, Present
<1>3. \A s \in Ids \ {r} : status'[s] = status[s] /\ plan'[s] = plan[s] /\ ToSend(s)' = ToSend(s)
  BY <1>1 DEF RemindersInv, RowsOK, ToSend
<1>4. status'[r] = "PENDING" /\ sent[r] = {}
  BY <1>1 DEF RemindersInv, RowsOK, SendInv, SentOfPlan
<1>5. ASSUME NEW d \in Calls, NEW s \in Ids
      PROVE  /\ Trying(d, s)' <=> Trying(d, s)
             /\ Sending(d, s)' <=> Sending(d, s)
             /\ Sending(d, s) => call'[d].left = call[d].left /\ s \in Present
  <2>1. CASE d = c
    BY <1>2, <2>1 DEF Trying, Sending, At, Away
  <2>2. CASE d # c
    <3>1. Sending(d, s) => s \in Present
      BY Awake DEF Sending, At, RemindersInv, CallOK
    <3>2. QED BY <1>2, <2>2, <3>1, OthersTry
  <2>3. QED BY <2>1, <2>2
<1>6. SentOfPlan' /\ TryAlone'
  BY <1>1, <1>2, <1>3, <1>4, <1>5 DEF SendInv, SentOfPlan, TryAlone
<1>7. MuteSends'
  <2>1. ASSUME NEW d \in mute PROVE At(d, "send")' /\ "email" \notin Els(call'[d].left)
    <3>1. d \in Calls /\ At(d, "send") /\ "email" \notin Els(call[d].left)
      BY <2>1 DEF RemindersInv, RowsOK, SendInv, MuteSends
    <3>2. d # c
      BY <1>2, <3>1 DEF At
    <3>3. call'[d] = call[d]
      BY <1>2, <3>1, <3>2 DEF Others
    <3>4. QED BY <3>1, <3>3 DEF At
  <2>2. QED BY <1>2, <2>1 DEF MuteSends
<1>8. SendCovers' /\ SendFresh'
  <2>1. ASSUME NEW d \in Calls, NEW s \in Ids, Sending(d, s)
        PROVE  Unserved(d)' = Unserved(d)
    BY <1>2, <1>5, <2>1 DEF Unserved, Omitted
  <2>2. QED BY <1>1, <1>2, <1>3, <1>5, <2>1 DEF SendInv, SendCovers, SendFresh
<1>9. PendingClean' /\ FailedRests' /\ DuplicatesExcused'
  BY <1>1, <1>2, <1>3, <1>4, <1>5 DEF SendInv, PendingClean, FailedRests, DuplicatesExcused
<1>10. QED BY <1>6, <1>7, <1>8, <1>9 DEF SendInv

\* An attempt that begins is alone, or excuses its reminder.
LEMMA SendRead ==
  ASSUME RemindersInv, SendInv, NEW c \in Calls, ReadReminder(c)
  PROVE  SendInv'
<1> DEFINE r == call[c].id
<1>1. /\ Present' = Present /\ At(c, "read") /\ Others(c) /\ r \in Present /\ r \in Ids
      /\ UNCHANGED <<status, plan, retries, sent, twice>>
  BY ReadReminderTypes DEF ReadReminder, rows, Present
<1>2. CASE Away(c)' /\ excused' = excused /\ mute' = mute
  BY <1>1, <1>2, SendNot DEF At
<1>3. CASE /\ call'[c].pc = "send" /\ call'[c].id = r
           /\ \E found \in BOOLEAN :
                /\ call'[c].left = Served(plan[r], found)
                /\ mute' = IF Served(plan[r], found) = ChannelsOf[plan[r]]
                           THEN mute ELSE mute \cup {c}
           /\ status[r] = "PENDING" /\ Excuse(r, \E d \in Calls : Trying(d, r))
  <2>1. excused \subseteq excused' /\ excused' \subseteq excused \cup {r}
    BY <1>3 DEF Excuse
  <2>2. r \notin excused' => \A d \in Calls : ~Trying(d, r) /\ ~Sending(d, r)
    BY <1>3 DEF Excuse, Trying, Sending
  <2>3. \A s : /\ Trying(c, s)' <=> s = r
               /\ Sending(c, s)' <=> s = r
               /\ ~Trying(c, s) /\ ~Sending(c, s)
    BY <1>1, <1>3 DEF Trying, Sending, At
  <2>4. \A d \in Calls \ {c} : /\ call'[d] = call[d]
                               /\ \A s : /\ Trying(d, s)' <=> Trying(d, s)
                                         /\ Sending(d, s)' <=> Sending(d, s)
    BY <1>1, OthersTry
  <2>0. c \notin mute
    BY <1>1 DEF SendInv, MuteSends, At
  <2>5. Unserved(c)' = ToSend(r) /\ (c \in mute' => "email" \notin Els(call'[c].left))
    <3>1. PICK found \in BOOLEAN :
            /\ call'[c].left = Served(plan[r], found)
            /\ mute' = IF Served(plan[r], found) = ChannelsOf[plan[r]] THEN mute ELSE mute \cup {c}
      BY <1>3
    <3>2. plan[r] \in Plans
      BY <1>1 DEF RemindersInv, RowsOK
    <3>3. QED BY <2>0, <3>1, <3>2, ServedFacts DEF Unserved, Omitted, ToSend
  <2>m. \A d \in Calls \ {c} : (d \in mute' <=> d \in mute) /\ Unserved(d)' = Unserved(d)
    <3>1. mute' = mute \/ mute' = mute \cup {c}
      BY <1>3
    <3>2. QED BY <2>4, <3>1 DEF Unserved, Omitted
  <2>6. r \notin excused' => sent[r] = {}
    BY <1>1, <1>3, <2>1, <2>2 DEF SendInv, PendingClean
  <2>7. SentOfPlan' /\ DuplicatesExcused'
    BY <1>1, <2>1 DEF SendInv, SentOfPlan, ToSend, DuplicatesExcused
  <2>n. MuteSends'
    <3>1. ASSUME NEW d \in mute' PROVE At(d, "send")' /\ "email" \notin Els(call'[d].left)
      <4>1. CASE d = c
        BY <1>3, <2>5, <3>1, <4>1 DEF At
      <4>2. CASE d # c
        <5>1. d \in Calls /\ d \in mute
          BY <1>3, <3>1, <4>2 DEF RemindersInv, RowsOK
        <5>2. QED BY <2>4, <4>2, <5>1 DEF SendInv, MuteSends, At
      <4>3. QED BY <4>1, <4>2
    <3>2. QED BY <3>1 DEF MuteSends
  <2>8. TryAlone'
    <3>1. ASSUME NEW s \in Ids, NEW a \in Calls, NEW b \in Calls \ {a}, Trying(a, s)', Trying(b, s)'
          PROVE  s \in excused'
      <4>1. CASE a = c
        BY <2>2, <2>3, <2>4, <3>1, <4>1
      <4>2. CASE b = c
        BY <2>2, <2>3, <2>4, <3>1, <4>2
      <4>3. CASE a # c /\ b # c
        BY <2>1, <2>4, <3>1, <4>3 DEF SendInv, TryAlone
      <4>4. QED BY <4>1, <4>2, <4>3
    <3>2. QED BY <3>1 DEF TryAlone
  <2>9. SendCovers' /\ SendFresh'
    <3>1. ASSUME NEW a \in Calls, NEW s \in Present, Sending(a, s)'
          PROVE  /\ Unserved(a)' \subseteq ToSend(s) /\ ToSend(s) \subseteq sent[s] \cup Unserved(a)'
                 /\ s \notin excused' => sent[s] \cap Unserved(a)' = {}
      <4>1. CASE a = c
        BY <2>3, <2>5, <2>6, <3>1, <4>1
      <4>2. CASE a # c
        BY <2>1, <2>4, <2>m, <3>1, <4>2 DEF SendInv, SendCovers, SendFresh
      <4>3. QED BY <4>1, <4>2
    <3>2. QED BY <1>1, <3>1 DEF SendCovers, SendFresh, ToSend
  <2>10. PendingClean'
    <3>1. ASSUME NEW s \in Present, s \notin excused', \A a \in Calls : ~Sending(a, s)'
          PROVE  s \notin excused /\ \A a \in Calls : ~Sending(a, s)
      BY <2>1, <2>3, <2>4, <3>1
    <3>2. QED BY <1>1, <3>1 DEF SendInv, PendingClean
  <2>11. FailedRests'
    <3>1. ASSUME NEW s \in Present, status[s] = "FAILED", s \notin excused'
          PROVE  retries[s] = MaxRetries + 1 /\ \A a \in Calls : ~Trying(a, s)'
      <4>1. s # r /\ s \notin excused
        BY <1>3, <2>1, <3>1
      <4>2. QED BY <2>3, <2>4, <3>1, <4>1 DEF SendInv, FailedRests
    <3>2. QED BY <1>1, <3>1 DEF FailedRests
  <2>12. QED BY <2>7, <2>8, <2>9, <2>10, <2>11, <2>n DEF SendInv
<1>4. QED BY <1>2, <1>3, ReadReminderTypes

\* A channel is served: it leaves the list of the attempt.
LEMMA SendOne ==
  ASSUME RemindersInv, SendInv, NEW c \in Calls, Send(c)
  PROVE  SendInv'
<1> DEFINE r == call[c].id
           l == call[c].left
<1>1. /\ Present' = Present /\ At(c, "send") /\ Others(c) /\ r \in Present /\ r \in Ids
      /\ UNCHANGED <<status, plan, retries, excused, mute>>
      /\ l \in Lists /\ l # <<>> /\ call'[c].left = Tail(l)
      /\ call'[c].pc = "send" /\ call'[c].id = r
      /\ sent' = [sent EXCEPT ![r] = @ \cup {Head(l)}]
      /\ twice' = IF Head(l) \in sent[r] THEN twice \cup {r} ELSE twice
  BY SendTypes DEF Send, rows, Present
<1>2. /\ sent'[r] = sent[r] \cup {Head(l)}
      /\ \A s \in Ids \ {r} : sent'[s] = sent[s]
  BY <1>1 DEF RemindersInv, RowsOK
<1>3. /\ Els(l) = {Head(l)} \cup Els(Tail(l)) /\ Head(l) \notin Els(Tail(l))
  BY <1>1, ListFacts
<1>4. \A d \in Calls : \A s : /\ Trying(d, s)' <=> Trying(d, s)
                              /\ Sending(d, s)' <=> Sending(d, s)
  <2>1. ASSUME NEW s PROVE (Trying(c, s)' <=> Trying(c, s)) /\ (Sending(c, s)' <=> Sending(c, s))
    BY <1>1 DEF Trying, Sending, At
  <2>2. QED BY <1>1, <2>1, OthersTry
<1>5. Sending(c, r) /\ \A s : Sending(c, s) => s = r
  BY <1>1 DEF Sending
<1>o. /\ Omitted(c)' = Omitted(c) /\ Unserved(c) = Els(l) \cup Omitted(c)
      /\ Unserved(c)' = Els(Tail(l)) \cup Omitted(c) /\ Els(l) \cap Omitted(c) = {}
  BY <1>1 DEF Omitted, Unserved, SendInv, MuteSends
<1>6. /\ Els(l) \cup Omitted(c) \subseteq ToSend(r)
      /\ ToSend(r) \subseteq sent[r] \cup Els(l) \cup Omitted(c)
      /\ r \notin excused => sent[r] \cap (Els(l) \cup Omitted(c)) = {}
  BY <1>1, <1>5, <1>o DEF SendInv, SendCovers, SendFresh
<1>7. \A d \in Calls \ {c} : call'[d] = call[d] /\ Unserved(d)' = Unserved(d)
  BY <1>1 DEF Others, Unserved, Omitted
<1>8. \A d \in Calls \ {c} : Sending(d, r) => r \in excused
  BY <1>1, <1>5 DEF SendInv, TryAlone, Trying, Sending
<1>9. SentOfPlan'
  BY <1>1, <1>2, <1>3, <1>6 DEF SendInv, SentOfPlan, ToSend
<1>10. SendCovers'
  <2>1. ASSUME NEW a \in Calls, NEW s \in Present, Sending(a, s)
        PROVE  Unserved(a)' \subseteq ToSend(s) /\ ToSend(s) \subseteq sent'[s] \cup Unserved(a)'
    <3>1. CASE a = c
      BY <1>2, <1>3, <1>5, <1>6, <1>o, <2>1, <3>1
    <3>2. CASE a # c
      <4>1. Unserved(a) \subseteq ToSend(s) /\ ToSend(s) \subseteq sent[s] \cup Unserved(a)
        BY <2>1 DEF SendInv, SendCovers
      <4>2. s \in Ids /\ sent[s] \subseteq sent'[s]
        BY <1>2 DEF Present
      <4>3. QED BY <1>7, <3>2, <4>1, <4>2
    <3>3. QED BY <3>1, <3>2
  <2>2. QED BY <1>1, <1>4, <2>1 DEF SendCovers, ToSend
<1>11. SendFresh'
  <2>1. ASSUME NEW a \in Calls, NEW s \in Present, Sending(a, s), s \notin excused
        PROVE  sent'[s] \cap Unserved(a)' = {}
    <3>1. CASE a = c
      BY <1>2, <1>3, <1>5, <1>6, <1>o, <2>1, <3>1
    <3>2. CASE a # c
      <4>1. s # r /\ s \in Ids
        BY <1>8, <2>1, <3>2 DEF Present
      <4>2. QED BY <1>2, <1>7, <2>1, <3>2, <4>1 DEF SendInv, SendFresh
    <3>3. QED BY <3>1, <3>2
  <2>2. QED BY <1>1, <1>4, <2>1 DEF SendFresh
<1>12. TryAlone' /\ FailedRests'
  BY <1>1, <1>2, <1>4 DEF SendInv, TryAlone, FailedRests
<1>m. MuteSends'
  <2>1. ASSUME NEW d \in mute PROVE At(d, "send")' /\ "email" \notin Els(call'[d].left)
    <3>1. d \in Calls /\ At(d, "send") /\ "email" \notin Els(call[d].left)
      BY <2>1 DEF RemindersInv, RowsOK, SendInv, MuteSends
    <3>2. CASE d = c
      BY <1>1, <1>3, <3>1, <3>2 DEF At
    <3>3. CASE d # c
      BY <1>7, <3>1, <3>3 DEF At
    <3>4. QED BY <3>2, <3>3
  <2>2. QED BY <1>1, <2>1 DEF MuteSends
<1>13. PendingClean'
  <2>1. ASSUME NEW s \in Present, \A a \in Calls : ~Sending(a, s) PROVE sent'[s] = sent[s]
    BY <1>2, <1>5, <2>1 DEF Present
  <2>2. QED BY <1>1, <1>4, <2>1 DEF SendInv, PendingClean
<1>14. DuplicatesExcused'
  BY <1>1, <1>3, <1>6 DEF SendInv, DuplicatesExcused
<1>15. QED BY <1>9, <1>10, <1>11, <1>12, <1>13, <1>14, <1>m DEF SendInv

\* When a call that was sending goes on to something else, the others keep what they
\* have not served.
LEMMA OthersUnserved ==
  ASSUME RemindersInv, SendInv, NEW c \in Calls, Others(c), mute' = mute \ {c}
  PROVE  MuteSends' /\ \A d \in Calls \ {c} : Unserved(d)' = Unserved(d)
  BY DEF RemindersInv, RowsOK, SendInv, MuteSends, At, Others, Unserved, Omitted

LEMMA SendMarked ==
  ASSUME RemindersInv, SendInv, NEW c \in Calls, MarkSent(c)
  PROVE  SendInv'
<1> DEFINE r == call[c].id
<1>1. /\ Present' = Present /\ At(c, "send") /\ Others(c) /\ Away(c)' /\ r \in Present /\ r \in Ids
      /\ UNCHANGED <<plan, retries, excused, sent, twice>> /\ call[c].left = <<>>
      /\ status' = [status EXCEPT ![r] = "SENT"] /\ mute' = mute \ {c}
  BY MarkSentTypes DEF MarkSent, history, Present
<1>2. status'[r] = "SENT" /\ \A s \in Ids \ {r} : status'[s] = status[s]
  BY <1>1 DEF RemindersInv, RowsOK
<1>3. \A d \in Calls \ {c} : /\ call'[d] = call[d]
                             /\ \A s : /\ Trying(d, s)' <=> Trying(d, s)
                                       /\ Sending(d, s)' <=> Sending(d, s)
  BY <1>1, OthersTry
<1>4. \A s : ~Trying(c, s)' /\ ~Sending(c, s)' /\ (Sending(c, s) => s = r)
  BY <1>1 DEF Trying, Sending, At, Away
<1>5. SentOfPlan' /\ DuplicatesExcused' /\ TryAlone'
  BY <1>1, <1>3, <1>4 DEF SendInv, SentOfPlan, ToSend, DuplicatesExcused, TryAlone
<1>6. SendCovers' /\ SendFresh'
  BY <1>1, <1>3, <1>4, OthersUnserved DEF SendInv, SendCovers, SendFresh, ToSend
<1>7. MuteSends'
  BY <1>1, OthersUnserved
<1>8. PendingClean'
  <2>1. ASSUME NEW s \in Present, status'[s] = "PENDING", \A a \in Calls : ~Sending(a, s)'
        PROVE  status[s] = "PENDING" /\ \A a \in Calls : ~Sending(a, s)
    BY <1>2, <1>3, <1>4, <2>1 DEF Present
  <2>2. QED BY <1>1, <2>1 DEF SendInv, PendingClean
<1>9. FailedRests'
  <2>1. ASSUME NEW s \in Present, status'[s] = "FAILED"
        PROVE  status[s] = "FAILED"
    BY <1>2, <2>1 DEF Present
  <2>2. QED BY <1>1, <1>3, <1>4, <2>1 DEF SendInv, FailedRests
<1>10. QED BY <1>5, <1>6, <1>7, <1>8, <1>9 DEF SendInv

\* An attempt that has all before it and finds its reminder without excuse: nothing of
\* that was sent.
LEMMA NothingSent ==
  ASSUME RemindersInv, SendInv, NEW c \in Calls, NEW r \in Present, Sending(c, r),
         ~HasSent(c), r \notin excused
  PROVE  sent[r] = {}
<1>1. r \in Ids /\ plan[r] \in Plans
  BY DEF Present, RemindersInv, RowsOK
<1>2. call[c].left = Served(plan[r], c \notin mute)
  BY DEF HasSent, Sending
<1>3. ToSend(r) \subseteq Unserved(c)
  <2>1. CASE c \in mute
    <3>1. call[c].left = Served(plan[r], FALSE)
      BY <1>2, <2>1
    <3>2. QED BY <1>1, <2>1, <3>1, ServedFacts DEF ToSend, Unserved, Omitted
  <2>2. CASE c \notin mute
    <3>1. call[c].left = Served(plan[r], TRUE)
      BY <1>2, <2>2
    <3>2. QED BY <1>1, <2>2, <3>1, ServedFacts DEF ToSend, Unserved, Omitted
  <2>3. QED BY <2>1, <2>2
<1>4. QED BY <1>1, <1>3 DEF SendInv, SendFresh, SentOfPlan

\* An attempt that throws has sent nothing, or excuses its reminder.
LEMMA SendThrown ==
  ASSUME RemindersInv, SendInv, NEW c \in Calls, SendThrows(c)
  PROVE  SendInv'
<1> DEFINE r == call[c].id
<1>1. /\ Present' = Present /\ At(c, "send") /\ Others(c) /\ r \in Present /\ r \in Ids
      /\ UNCHANGED <<status, plan, retries, sent, twice>>
      /\ call'[c].pc = "fail" /\ call'[c].id = r
      /\ Excuse(r, HasSent(c)) /\ mute' = mute \ {c}
  BY SendThrowsTypes DEF SendThrows, rows, Present
<1>2. excused \subseteq excused' /\ (r \notin excused' => ~HasSent(c))
  BY <1>1 DEF Excuse
<1>3. \A d \in Calls \ {c} : /\ call'[d] = call[d]
                             /\ \A s : /\ Trying(d, s)' <=> Trying(d, s)
                                       /\ Sending(d, s)' <=> Sending(d, s)
  BY <1>1, OthersTry
<1>4. \A s : /\ Trying(c, s)' <=> Trying(c, s)
             /\ ~Sending(c, s)'
             /\ Sending(c, s) <=> s = r
  BY <1>1 DEF Trying, Sending, At
<1>5. SentOfPlan' /\ DuplicatesExcused' /\ MuteSends'
  BY <1>1, <1>2, OthersUnserved DEF SendInv, SentOfPlan, ToSend, DuplicatesExcused
<1>6. TryAlone'
  BY <1>2, <1>3, <1>4 DEF SendInv, TryAlone
<1>7. SendCovers' /\ SendFresh'
  BY <1>1, <1>2, <1>3, <1>4, OthersUnserved DEF SendInv, SendCovers, SendFresh, ToSend
<1>8. PendingClean'
  <2>1. r \notin excused' => sent[r] = {}
    BY <1>1, <1>2, <1>4, NothingSent DEF SendInv
  <2>2. ASSUME NEW s \in Present, s # r, \A a \in Calls : ~Sending(a, s)'
        PROVE  \A a \in Calls : ~Sending(a, s)
    BY <1>3, <1>4, <2>2
  <2>3. QED BY <1>1, <1>2, <2>1, <2>2 DEF SendInv, PendingClean
<1>9. FailedRests'
  BY <1>1, <1>2, <1>3, <1>4 DEF SendInv, FailedRests
<1>10. QED BY <1>5, <1>6, <1>7, <1>8, <1>9 DEF SendInv

\* A reminder FAILED for want of retries, if no other attempt was at it.
LEMMA SendFailed ==
  ASSUME RemindersInv, SendInv, NEW c \in Calls, RecordFailure(c)
  PROVE  SendInv'
<1> DEFINE r == call[c].id
           n == call[c].read + 1
<1>1. /\ Present' = Present /\ At(c, "fail") /\ Others(c) /\ Away(c)' /\ r \in Present /\ r \in Ids
      /\ UNCHANGED <<plan, sent, twice, excused, mute>>
      /\ retries' = [retries EXCEPT ![r] = n]
      /\ \/ status' = status
         \/ n > MaxRetries /\ status' = [status EXCEPT ![r] = "FAILED"]
  <2>1. call[c].read \in 0..MaxRetries
    <3>1. CallOK(call[c], Present)
      BY Awake DEF RecordFailure, At, RemindersInv
    <3>2. QED BY <3>1 DEF CallOK
  <2>2. n \in Nat /\ (n <= MaxRetries \/ n > MaxRetries)
    BY <2>1, RemindersAssumption
  <2>3. /\ Present' = Present /\ Others(c) /\ Away(c)' /\ r \in Present /\ r \in Ids
    BY RecordFailureTypes DEF Present
  <2>4. /\ At(c, "fail") /\ UNCHANGED <<plan, sent, twice, excused, mute>>
        /\ retries' = [retries EXCEPT ![r] = n]
    BY DEF RecordFailure, history
  <2>5. \/ status' = status
        \/ ~(n <= MaxRetries) /\ status' = [status EXCEPT ![r] = "FAILED"]
    BY DEF RecordFailure, MayRetry, StatusOnRetry
  <2>6. QED BY <2>2, <2>3, <2>4, <2>5
<1>2. \A d \in Calls \ {c} : /\ call'[d] = call[d]
                             /\ \A s : /\ Trying(d, s)' <=> Trying(d, s)
                                       /\ Sending(d, s)' <=> Sending(d, s)
  BY <1>1, OthersTry
<1>3. \A s : ~Trying(c, s)' /\ ~Sending(c, s)' /\ ~Sending(c, s) /\ (Trying(c, s) <=> s = r)
  BY <1>1 DEF Trying, Sending, At, Away
<1>4. \A s \in Ids : status'[s] # status[s] => s = r /\ status'[s] = "FAILED" /\ n > MaxRetries
  BY <1>1 DEF RemindersInv, RowsOK
<1>5. n <= MaxRetries + 1 /\ n \in Nat
  <2>1. call[c].read \in 0..MaxRetries
    <3>1. CallOK(call[c], Present)
      BY <1>1, Awake DEF At, RemindersInv
    <3>2. QED BY <3>1 DEF CallOK
  <2>2. QED BY <2>1, RemindersAssumption
<1>6. SentOfPlan' /\ DuplicatesExcused' /\ TryAlone'
  BY <1>1, <1>2, <1>3 DEF SendInv, SentOfPlan, ToSend, DuplicatesExcused, TryAlone
<1>u. c \notin mute
  BY <1>1 DEF SendInv, MuteSends, At
<1>v. mute' = mute \ {c}
  BY <1>1, <1>u
<1>7. SendCovers' /\ SendFresh'
  BY <1>1, <1>2, <1>3, <1>v, OthersUnserved DEF SendInv, SendCovers, SendFresh, ToSend
<1>8. MuteSends'
  BY <1>1, <1>v, OthersUnserved
<1>9. PendingClean'
  <2>1. ASSUME NEW s \in Present, status'[s] = "PENDING", \A a \in Calls : ~Sending(a, s)'
        PROVE  status[s] = "PENDING" /\ \A a \in Calls : ~Sending(a, s)
    BY <1>2, <1>3, <1>4, <2>1 DEF Present
  <2>2. QED BY <1>1, <2>1 DEF SendInv, PendingClean
<1>10. FailedRests'
  <2>1. ASSUME NEW s \in Present, status'[s] = "FAILED", s \notin excused
        PROVE  retries'[s] = MaxRetries + 1 /\ \A a \in Calls : ~Trying(a, s)'
    <3>1. CASE s = r
      <4>1. status[r] # "FAILED"
        BY <1>1, <1>3, <2>1, <3>1 DEF SendInv, FailedRests
      <4>2. n = MaxRetries + 1
        BY <1>1, <1>4, <1>5, <2>1, <3>1, <4>1, RemindersAssumption
      <4>3. retries'[r] = n
        BY <1>1 DEF RemindersInv, RowsOK
      <4>4. \A a \in Calls \ {c} : ~Trying(a, r)
        BY <1>1, <1>3, <2>1, <3>1 DEF SendInv, TryAlone
      <4>5. QED BY <1>2, <1>3, <3>1, <4>2, <4>3, <4>4
    <3>2. CASE s # r
      <4>1. status[s] = "FAILED" /\ retries'[s] = retries[s]
        BY <1>1, <1>4, <2>1, <3>2 DEF RemindersInv, RowsOK, Present
      <4>2. QED BY <1>2, <1>3, <2>1, <4>1 DEF SendInv, FailedRests
    <3>3. QED BY <3>1, <3>2
  <2>2. QED BY <1>1, <2>1 DEF FailedRests
<1>11. QED BY <1>6, <1>7, <1>8, <1>9, <1>10 DEF SendInv

\* A call that dies has sent nothing, or excuses its reminder.
LEMMA SendBroken ==
  ASSUME RemindersInv, SendInv, NEW c \in Calls, Break(c)
  PROVE  SendInv'
<1> DEFINE r == call[c].id
<1>1. /\ Present' = Present /\ Others(c) /\ Away(c)'
      /\ UNCHANGED <<status, plan, retries, sent, twice>>
      /\ Excuse(r, HasSent(c)) /\ mute' = mute \ {c}
  BY BreakTypes DEF Break, rows, Present
<1>2. excused \subseteq excused' /\ (r \notin excused' => ~HasSent(c))
  BY <1>1 DEF Excuse
<1>3. \A d \in Calls \ {c} : /\ call'[d] = call[d]
                             /\ \A s : /\ Trying(d, s)' <=> Trying(d, s)
                                       /\ Sending(d, s)' <=> Sending(d, s)
  BY <1>1, OthersTry
<1>4. \A s : ~Trying(c, s)' /\ ~Sending(c, s)' /\ (Sending(c, s) => s = r /\ At(c, "send"))
  BY <1>1 DEF Trying, Sending, At, Away
<1>5. SentOfPlan' /\ DuplicatesExcused' /\ MuteSends'
  BY <1>1, <1>2, OthersUnserved DEF SendInv, SentOfPlan, ToSend, DuplicatesExcused
<1>6. TryAlone'
  BY <1>2, <1>3, <1>4 DEF SendInv, TryAlone
<1>7. SendCovers' /\ SendFresh'
  BY <1>1, <1>2, <1>3, <1>4, OthersUnserved DEF SendInv, SendCovers, SendFresh, ToSend
<1>8. PendingClean'
  <2>1. ASSUME Sending(c, r), r \in Present, r \notin excused' PROVE sent[r] = {}
    <3>1. QED BY <1>2, <2>1, NothingSent
  <2>2. ASSUME NEW s \in Present, ~Sending(c, s), \A a \in Calls : ~Sending(a, s)'
        PROVE  \A a \in Calls : ~Sending(a, s)
    BY <1>3, <2>2
  <2>3. QED BY <1>1, <1>2, <1>4, <2>1, <2>2 DEF SendInv, PendingClean
<1>9. FailedRests'
  BY <1>1, <1>2, <1>3, <1>4 DEF SendInv, FailedRests
<1>10. QED BY <1>5, <1>6, <1>7, <1>8, <1>9 DEF SendInv

LEMMA IdleTriesNothing ==
  ASSUME NEW c, call[c] = Idle
  PROVE  ~At(c, "send") /\ ~At(c, "fail")
  BY DEF Idle, At

LEMMA SendStep ==
  ASSUME RemindersInv, SendInv, [Next]_vars
  PROVE  SendInv'
<1>1. CASE UNCHANGED vars
  <2>1. Present' = Present
    BY <1>1 DEF vars, rows, Present
  <2>2. QED BY <1>1, <2>1, SendKept DEF vars, rows, history, Trying, Sending, At
<1>2. ASSUME NEW c \in Calls, NEW list \in PlanLists, Schedule(c, list)
      PROVE  SendInv'
  BY <1>2, ScheduleTypes, SendNot, IdleTriesNothing DEF Schedule, rows, history, Present
<1>3. ASSUME NEW c \in Calls, FindExisting(c)
      PROVE  SendInv'
  BY <1>3, FindExistingTypes, SendNot DEF FindExisting, rows, Present, At
<1>4. ASSUME NEW c \in Calls, AddJob(c)
      PROVE  SendInv'
  BY <1>4, AddJobTypes, SendNot DEF AddJob, rows, history, Present, At
<1>5. ASSUME NEW c \in Calls, Sweep(c)
      PROVE  SendInv'
  BY <1>5, SweepTypes, SendNot, IdleTriesNothing DEF Sweep, rows, history, Present
<1>6. ASSUME NEW c \in Calls, NEW r \in Ids, TakeJob(c, r)
      PROVE  SendInv'
  BY <1>6, TakeJobTypes, SendNot, IdleTriesNothing DEF TakeJob, rows, history, Present
<1>7. CASE CancelRemindersForOrder \/ \E r \in Ids : CancelReminder(r)
  <2>1. UNCHANGED <<plan, retries, sent, twice, excused, mute, call>> /\ Present' = Present
    BY <1>7, CancelTypes DEF CancelRemindersForOrder, CancelReminder, history
  <2>2. \A s \in Present : status'[s] # status[s] => status'[s] = "CANCELLED"
    BY <1>7 DEF CancelRemindersForOrder, CancelReminder, RemindersInv, RowsOK, Present
  <2>3. QED BY <2>1, <2>2, SendKept DEF Trying, Sending, At
<1>8. QED
  BY <1>1, <1>2, <1>3, <1>4, <1>5, <1>6, <1>7, SendInsert, SendRead, SendOne, SendMarked,
     SendThrown, SendFailed, SendBroken DEF Next, Step

LEMMA SendStart == ASSUME Init PROVE SendInv
<1>1. \A c \in Calls : \A r : ~Trying(c, r) /\ ~Sending(c, r)
  BY DEF Init, Trying, Sending, At, Idle
<1>2. QED
  BY <1>1 DEF Init, SendInv, SentOfPlan, SendCovers, MuteSends, TryAlone, SendFresh, PendingClean,
     DuplicatesExcused, FailedRests, Present

\* No reminder reaches its reader twice on a channel, through failures, retries, sweeps and
\* cancellations, unless two attempts were at it together or one ended between sending and
\* marking it SENT.
THEOREM SentOnce == Spec => []DuplicatesExcused
<1>1. SendInv => DuplicatesExcused
  BY DEF SendInv
<1>2. QED BY <1>1, TypesInit, TypesStep, SendStart, SendStep, PTL DEF Spec

\* A reminder becomes SENT only when it has been sent on every channel it has, perhaps in
\* several attempts, but for the e-mail that the attempt which marks it left out because
\* the account of the reader was gone; however many attempts fail, overlap or die.
THEOREM MarkedIsDelivered == Spec => SentIsDelivered
<1> DEFINE AllServed ==
      \A r \in Ids :
        status[r] # "SENT" /\ status'[r] = "SENT" =>
          \A i \in DOMAIN ChannelsOf[plan[r]] :
            \/ ChannelsOf[plan[r]][i] \in sent[r]
            \/ /\ ChannelsOf[plan[r]][i] = "email"
               /\ \E c \in mute : At(c, "send") /\ call[c].id = r /\ call[c].left = <<>>
<1>1. ASSUME RemindersInv, SendInv, [Next]_vars, NEW r \in Ids, status[r] # "SENT", status'[r] = "SENT"
      PROVE  \E c \in Calls : MarkSent(c) /\ call[c].id = r
  BY <1>1 DEF RemindersInv, RowsOK, Next, vars, Schedule, Step, FindExisting, Insert, AddJob,
     TakeJob, Sweep, ReadReminder, Send, MarkSent, SendThrows, RecordFailure, StatusOnRetry, Break,
     CancelReminder, CancelRemindersForOrder, rows
<1>2. ASSUME RemindersInv, SendInv, NEW c \in Calls, MarkSent(c), NEW r \in Ids, call[c].id = r
      PROVE  \A i \in DOMAIN ChannelsOf[plan[r]] :
               \/ ChannelsOf[plan[r]][i] \in sent[r]
               \/ ChannelsOf[plan[r]][i] = "email" /\ c \in mute
  <2>1. r \in Present /\ Sending(c, r) /\ call[c].left = <<>>
    BY <1>2, MarkSentTypes DEF MarkSent, Sending
  <2>2. Unserved(c) = Omitted(c)
    BY <2>1, ListFacts DEF Unserved, Lists
  <2>3. ToSend(r) \subseteq sent[r] \cup Omitted(c)
    BY <1>2, <2>1, <2>2 DEF SendInv, SendCovers
  <2>4. QED BY <2>3 DEF ToSend, Els, Omitted
<1>3. RemindersInv /\ SendInv /\ [Next]_vars => [AllServed]_status
  <2>1. ASSUME RemindersInv, SendInv, [Next]_vars PROVE AllServed
    BY <1>1, <1>2, <2>1 DEF MarkSent
  <2>2. QED BY <2>1
<1>4. QED BY <1>3, TypesInit, TypesStep, SendStart, SendStep, PTL DEF Spec, SentIsDelivered

\* A reminder is not given up while it has retries left, unless attempts at it overlapped.
THEOREM GivenUpAtLast == Spec => []RetriesUsedUp
<1>1. RemindersInv /\ SendInv => RetriesUsedUp
  BY DEF RemindersInv, RowsOK, SendInv, FailedRests, RetriesUsedUp, Present
<1>2. QED BY <1>1, TypesInit, TypesStep, SendStart, SendStep, PTL DEF Spec

-----------------------------------------------------------------------------
(***************************************************************************)
(* A reminder that is to be sent has a job, or a call that is at it.       *)
(***************************************************************************)
AtWork(c, r) == call[c].pc \in {"enqueue", "read", "send", "fail"} /\ call[c].id = r

Tended(r) == jobs[r] > 0 \/ \E c \in Calls : AtWork(c, r)

\* From here on only the sweep finds the reminder.
Deserted(r) ==
  status'[r] = "PENDING" /\ (status[r] = "PENDING" => Tended(r)) /\ ~Tended(r)'

\* A reminder is left to the sweep only by the call that breaks off at it.
DesertedByBreakOnly ==
  [][\A r \in Ids : Deserted(r) => \E c \in Calls : Break(c) /\ AtWork(c, r)]_vars

PendingTended == \A r \in Ids : status[r] = "PENDING" => Tended(r)

\* A call other than those that work at r may do what it likes.
LEMMA TendedKept ==
  ASSUME NEW c \in Calls, Others(c), NEW r \in Ids, Tended(r), jobs'[r] = jobs[r],
         AtWork(c, r) => AtWork(c, r)'
  PROVE  Tended(r)'
BY DEF Tended, AtWork, Others

\* The steps of a call that is at no reminder yet.
LEMMA TendedBefore ==
  ASSUME RemindersInv, NEW r \in Ids, NEW c \in Calls,
         \/ FindExisting(c) \/ Sweep(c) \/ Insert(c)
         \/ (\E list \in PlanLists : Schedule(c, list)) \/ (\E s \in Ids : TakeJob(c, s)),
         status'[r] = "PENDING", status[r] = "PENDING" => Tended(r)
  PROVE  Tended(r)'
<1>1. Others(c)
  BY FindExistingTypes, SweepTypes, InsertTypes, ScheduleTypes, TakeJobTypes
<1>2. ~AtWork(c, r)
  <2>1. CASE FindExisting(c) \/ Insert(c)
    BY <2>1 DEF FindExisting, Insert, At, AtWork
  <2>2. CASE ~(FindExisting(c) \/ Insert(c))
    <3>1. call[c] = Idle
      BY <2>2 DEF Sweep, Schedule, TakeJob
    <3>2. QED BY <3>1 DEF Idle, AtWork
  <2>3. QED BY <2>1, <2>2
<1>3. CASE Insert(c)
  <2>1. PICK s \in Ids \ Present, past \in BOOLEAN :
          /\ status' = [status EXCEPT ![s] = "PENDING"]
          /\ call' = [call EXCEPT ![c] = [call[c] EXCEPT !.pc = IF past THEN "read" ELSE "enqueue",
                                                         !.id = s, !.plans = Tail(@)]]
    BY <1>3 DEF Insert
  <2>2. CASE r = s
    <3>1. PICK k : /\ call' = [call EXCEPT ![c] = k]
                   /\ k = [call[c] EXCEPT !.pc = IF past THEN "read" ELSE "enqueue",
                                          !.id = s, !.plans = Tail(@)]
      <4>1. call' = [call EXCEPT ![c] = [call[c] EXCEPT !.pc = IF past THEN "read" ELSE "enqueue",
                                                        !.id = s, !.plans = Tail(@)]]
        BY ONLY <2>1
      <4>2. QED BY ONLY <4>1
    <3>2. CallOK(call[c], Present)
      BY <1>3, Awake DEF Insert, At, RemindersInv
    <3>3. k = [pc |-> IF past THEN "read" ELSE "enqueue", plans |-> Tail(call[c].plans),
               todo |-> call[c].todo, id |-> s, job |-> call[c].job, read |-> call[c].read,
               left |-> call[c].left]
      BY <3>1, <3>2 DEF CallOK
    <3>4. k.pc \in {"read", "enqueue"} /\ k.id = s
      BY ONLY <3>3
    <3>5. call'[c] = k
      BY <3>1 DEF RemindersInv, CallsOK
    <3>6. AtWork(c, r)'
      BY <2>2, <3>4, <3>5 DEF AtWork
    <3>7. QED BY <3>6 DEF Tended
  <2>3. CASE r # s
    <3>1. status[r] = "PENDING" /\ jobs' = jobs
      BY <1>3, <2>1, <2>3 DEF Insert, RemindersInv, RowsOK
    <3>2. QED BY <1>1, <1>2, <3>1, TendedKept
  <2>4. QED BY <2>2, <2>3
<1>4. ASSUME NEW s \in Ids, TakeJob(c, s) PROVE Tended(r)'
  <2>1. CASE r = s
    <3>1. PICK k : /\ call' = [call EXCEPT ![c] = k]
                   /\ k = [Idle EXCEPT !.pc = "read", !.plans = <<>>, !.todo = {}, !.id = s, !.job = TRUE]
      BY <1>4 DEF TakeJob, Begin
    <3>2. k.pc = "read" /\ k.id = s
      BY <3>1 DEF Idle
    <3>3. call'[c] = k
      BY <3>1 DEF RemindersInv, CallsOK
    <3>4. AtWork(c, r)'
      BY <2>1, <3>2, <3>3 DEF AtWork
    <3>5. QED BY <3>4 DEF Tended
  <2>2. CASE r # s
    <3>1. status[r] = "PENDING" /\ jobs'[r] = jobs[r]
      BY <1>4, <2>2 DEF TakeJob, rows, RemindersInv, RowsOK
    <3>2. QED BY <1>1, <1>2, <3>1, TendedKept
  <2>3. QED BY <2>1, <2>2
<1>5. CASE FindExisting(c) \/ Sweep(c) \/ \E list \in PlanLists : Schedule(c, list)
  <2>1. status[r] = "PENDING" /\ jobs' = jobs
    BY <1>5 DEF FindExisting, Sweep, Schedule, rows
  <2>2. QED BY <1>1, <1>2, <2>1, TendedKept
<1>6. QED BY <1>3, <1>4, <1>5

\* The steps of a call at a reminder: it stays, or leaves a job, or the reminder is not
\* PENDING any more.
LEMMA TendedAtWork ==
  ASSUME RemindersInv, NEW r \in Ids, NEW c \in Calls,
         AddJob(c) \/ ReadReminder(c) \/ Send(c) \/ MarkSent(c) \/ RecordFailure(c) \/ SendThrows(c),
         status'[r] = "PENDING", status[r] = "PENDING" => Tended(r)
  PROVE  Tended(r)'
<1>1. Others(c)
  BY AddJobTypes, ReadReminderTypes, SendTypes, MarkSentTypes, RecordFailureTypes, SendThrowsTypes
<1>2. status[r] = "PENDING"
  BY DEF AddJob, ReadReminder, Send, MarkSent, RecordFailure, SendThrows, StatusOnRetry, rows,
         RemindersInv, RowsOK
<1>3. CASE AddJob(c)
  <2>1. CASE r = call[c].id
    <3>1. jobs[r] \in Nat /\ jobs'[r] = jobs[r] + 1
      BY <1>3, <2>1 DEF AddJob, RemindersInv, RowsOK
    <3>2. jobs'[r] > 0
      BY <3>1
    <3>3. QED BY <3>2 DEF Tended
  <2>2. CASE r # call[c].id
    <3>1. jobs'[r] = jobs[r] /\ ~AtWork(c, r)
      BY <1>3, <2>2 DEF AddJob, RemindersInv, RowsOK, AtWork
    <3>2. QED BY <1>1, <1>2, <3>1, TendedKept
  <2>3. QED BY <2>1, <2>2
<1>4. CASE ReadReminder(c) \/ Send(c) \/ SendThrows(c)
  <2>1. jobs' = jobs
    BY <1>4 DEF ReadReminder, Send, SendThrows
  <2>2. ASSUME AtWork(c, r) PROVE AtWork(c, r)'
    <3>1. CASE ReadReminder(c)
      <4>1. CallOK(call[c], Present) /\ call[c].id = r
        BY <2>2, <3>1, Awake DEF ReadReminder, At, RemindersInv, AtWork
      <4>f. PICK found \in BOOLEAN :
              call' = [call EXCEPT ![c] = [@ EXCEPT !.pc = "send", !.read = retries[r],
                                                    !.left = Served(plan[r], found)]]
        BY <1>2, <3>1, <4>1 DEF ReadReminder, StillPending
      <4>2. PICK k : /\ call' = [call EXCEPT ![c] = k]
                     /\ k = [call[c] EXCEPT !.pc = "send", !.read = retries[r],
                                            !.left = Served(plan[r], found)]
        BY <4>f
      <4>3. k.pc = "send" /\ k.id = r
        BY <4>1, <4>2 DEF CallOK
      <4>4. call'[c] = k
        BY <4>2 DEF RemindersInv, CallsOK
      <4>5. QED BY <4>3, <4>4 DEF AtWork
    <3>2. CASE Send(c)
      BY <2>2, <3>2, SendTypes DEF AtWork
    <3>3. CASE SendThrows(c)
      BY <2>2, <3>3, SendThrowsTypes DEF AtWork
    <3>4. QED BY <1>4, <3>1, <3>2, <3>3
  <2>3. QED BY <1>1, <1>2, <2>1, <2>2, TendedKept
<1>5. CASE MarkSent(c) \/ RecordFailure(c)
  <2>1. jobs' = jobs
    BY <1>5 DEF MarkSent, RecordFailure
  <2>2. ASSUME AtWork(c, r) PROVE AtWork(c, r)'
    <3>1. CallOK(call[c], Present) /\ call[c].id = r
      BY <2>2, <1>5, Awake DEF MarkSent, RecordFailure, At, RemindersInv, AtWork
    <3>2. status'[r] = status[r] /\ ~MarkSent(c)
      BY <1>2, <1>5, <3>1 DEF MarkSent, RecordFailure, StatusOnRetry, RemindersInv, RowsOK
    <3>3. call' = [call EXCEPT ![c] = [@ EXCEPT !.pc = "enqueue", !.read = 0, !.left = <<>>]]
      BY <1>5, <3>1, <3>2, <1>2 DEF RecordFailure, RemindersInv, RowsOK
    <3>4. PICK k : /\ call' = [call EXCEPT ![c] = k]
                   /\ k = [call[c] EXCEPT !.pc = "enqueue", !.read = 0, !.left = <<>>]
      BY ONLY <3>3
    <3>5. k.pc = "enqueue" /\ k.id = r
      BY <3>1, <3>4 DEF CallOK
    <3>6. call'[c] = k
      BY <3>4 DEF RemindersInv, CallsOK
    <3>7. QED BY <3>5, <3>6 DEF AtWork
  <2>3. QED BY <1>1, <1>2, <2>1, <2>2, TendedKept
<1>6. QED BY <1>3, <1>4, <1>5

\* A call that breaks off deserts at most the reminder that it is at.
LEMMA TendedBroken ==
  ASSUME RemindersInv, NEW r \in Ids, NEW c \in Calls, Break(c), ~AtWork(c, r),
         status'[r] = "PENDING", status[r] = "PENDING" => Tended(r)
  PROVE  Tended(r)'
<1>1. Others(c) /\ Tended(r)
  BY BreakTypes DEF Break, rows
<1>2. CallOK(call[c], Present)
  BY DEF Break, RemindersInv, CallsOK
<1>3. jobs[r] \in Nat /\ (jobs'[r] = jobs[r] \/ jobs'[r] = jobs[r] + 1)
  BY <1>2 DEF Break, RemindersInv, RowsOK
<1>4. CASE jobs[r] > 0
  <2>1. jobs'[r] > 0
    BY <1>3, <1>4
  <2>2. QED BY <2>1 DEF Tended
<1>5. CASE ~(jobs[r] > 0)
  BY <1>1, <1>5 DEF Tended, AtWork, Others
<1>6. QED BY <1>4, <1>5

LEMMA TendedStep ==
  ASSUME RemindersInv, [Next]_vars, NEW r \in Ids, Deserted(r)
  PROVE  \E c \in Calls : Break(c) /\ AtWork(c, r)
<1>1. SUFFICES ASSUME \A c \in Calls : ~(Break(c) /\ AtWork(c, r)) PROVE Tended(r)'
  BY DEF Deserted
<1>2. status'[r] = "PENDING" /\ (status[r] = "PENDING" => Tended(r))
  BY DEF Deserted
<1>3. CASE UNCHANGED vars
  BY <1>2, <1>3 DEF vars, rows, Tended, AtWork
<1>4. CASE CancelRemindersForOrder \/ \E s \in Ids : CancelReminder(s)
  <2>1. status[r] = "PENDING" /\ UNCHANGED <<jobs, call>>
    BY <1>2, <1>4 DEF CancelRemindersForOrder, CancelReminder, RemindersInv, RowsOK
  <2>2. QED BY <1>2, <2>1 DEF Tended, AtWork
<1>5. QED
  BY <1>1, <1>2, <1>3, <1>4, TendedBefore, TendedAtWork, TendedBroken DEF Next, Step

\* Every attempt leaves its reminder sent, given up, cancelled, or with a new job: a
\* PENDING reminder is left to the sweep alone only by a call that breaks off at it.
THEOREM DesertedByBreaks == Spec => DesertedByBreakOnly
<1>1. RemindersInv /\ [Next]_vars
        => [\A r \in Ids : Deserted(r) => \E c \in Calls : Break(c) /\ AtWork(c, r)]_vars
  BY TendedStep
<1>2. QED BY <1>1, TypesInit, TypesStep, PTL DEF Spec, DesertedByBreakOnly

\* ... so that while no call breaks off every PENDING reminder has a job waiting or a call
\* at it, whatever sending does, and however calls, sweeps and cancellations overlap.
THEOREM NoneForgotten == Spec /\ [][\A c \in Calls : ~Break(c)]_vars => []PendingTended
<1>1. Init => PendingTended
  BY DEF Init, PendingTended
<1>2. RemindersInv /\ PendingTended /\ [Next]_vars /\ [\A c \in Calls : ~Break(c)]_vars => PendingTended'
  <2> SUFFICES ASSUME RemindersInv, PendingTended, [Next]_vars, [\A c \in Calls : ~Break(c)]_vars,
                      NEW r \in Ids, status'[r] = "PENDING"
               PROVE  Tended(r)'
    BY DEF PendingTended
  <2>1. CASE UNCHANGED vars
    BY <2>1 DEF PendingTended, vars, rows, Tended, AtWork
  <2>2. CASE \A c \in Calls : ~Break(c)
    <3>1. ~Deserted(r)
      BY <2>2, TendedStep
    <3>2. QED BY <3>1 DEF Deserted, PendingTended
  <2>3. QED BY <2>1, <2>2
<1>3. QED BY <1>1, <1>2, TypesInit, TypesStep, PTL DEF Spec
=============================================================================
