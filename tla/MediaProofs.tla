----------------------------- MODULE MediaProofs -----------------------------
(***************************************************************************)
(* Theorems about EventMedia for any media and events, any number of calls *)
(* in progress, attempts and faults.                                       *)
(***************************************************************************)
EXTENDS EventMedia, FiniteSetTheorems, TLAPS

\* The awaits of each operation on a medium.
StagesOf ==
  [presign |-> {"sign"}, confirm |-> {"stat", "save", "remove"},
   update |-> {"find", "erase", "remove"}, file |-> {"erase"}]

\* Whoever deletes a file deletes one that somebody wanted out of storage.
MediumCall(k) ==
  /\ k \in [op : {"presign", "confirm", "update", "file"}, medium : Media,
            pc : {"sign", "stat", "save", "remove", "find", "erase"},
            tries : 0..MaxAttempts - 1]
  /\ k.pc \in StagesOf[k.op]
  /\ k.op # "file" => k.medium \in asked
  /\ k.op \in {"update", "file"} => k.medium \in resigned

\* An attachment replaces banners of its own event only.
AttachCall(k) ==
  /\ k \in [op : {"attach"}, pc : {"attach"}, link : AllLinks, seen : SUBSET AllLinks]
  /\ k.link.event \in saved
  /\ \A l \in k.seen : l.event = k.link.event /\ l.type = "banner"
  /\ k.link.type = "gallery" => k.seen = {}

CallTyped(k) == k = Idle \/ MediumCall(k) \/ AttachCall(k)

CallsTyped == DOMAIN call = Calls /\ \A c \in Calls : CallTyped(call[c])

StoresTyped ==
  /\ rows \in SUBSET asked /\ objects \in SUBSET put /\ urls \in SUBSET asked
  /\ asked \in SUBSET Media /\ put \in SUBSET asked
  /\ resigned \in SUBSET Media /\ forgone \in SUBSET asked
  /\ links \in SUBSET AllLinks
  /\ \A l \in links : l.event \in saved /\ l.medium \in rows
  /\ saved \in SUBSET Events /\ hidden \in SUBSET saved
  /\ faults \in 0..MaxFaults

MediaInv == StoresTyped /\ CallsTyped

\* Who removes a row has seen its object deleted, or leaves one that was put since.
ErasedFirst ==
  \A c \in Calls :
    At(c, "remove") /\ call[c].op = "update" /\ call[c].medium \in objects
      => call[c].medium \in forgone

OrphansInv == ErasedFirst /\ OrphansExcused

\* Only what somebody wanted out of storage leaves it, linked or not.
LostResigned == put \ objects \subseteq resigned

Grows == asked \subseteq asked' /\ saved \subseteq saved' /\ resigned \subseteq resigned'

-----------------------------------------------------------------------------
(***************************************************************************)
(* Calls.                                                                  *)
(***************************************************************************)

\* What a call that is at an await of storage or of media_objects knows.
LEMMA AtMedium ==
  ASSUME CallsTyped, NEW c \in Calls,
         call[c].pc \in {"sign", "stat", "save", "remove", "find", "erase"}
  PROVE  /\ MediumCall(call[c]) /\ call[c].medium \in Media
         /\ At(c, "sign") => call[c].op = "presign"
         /\ At(c, "stat") \/ At(c, "save") => call[c].op = "confirm"
         /\ At(c, "find") => call[c].op = "update"
         /\ At(c, "erase") => call[c].op \in {"update", "file"}
         /\ At(c, "remove") => call[c].op \in {"confirm", "update"}
  BY DEF CallsTyped, CallTyped, MediumCall, AttachCall, Idle, StagesOf, At

\* What a call that attaches a medium knows.
LEMMA AtAttach ==
  ASSUME CallsTyped, NEW c \in Calls, At(c, "attach")
  PROVE  AttachCall(call[c])
  BY DEF CallsTyped, CallTyped, MediumCall, AttachCall, Idle, StagesOf, At

\* What calls know does not depend on what else is stored.
LEMMA CallSet ==
  ASSUME CallsTyped, Grows, NEW c \in Calls, NEW k, CallTyped(k)',
         call' = [call EXCEPT ![c] = k]
  PROVE  CallsTyped'
<1>1. DOMAIN call' = Calls
  BY DEF CallsTyped
<1>2. ASSUME NEW d \in Calls PROVE CallTyped(call[d])'
  <2>1. CASE d = c
    BY <2>1 DEF CallsTyped
  <2>2. CASE d # c
    <3>1. call'[d] = call[d] /\ CallTyped(call[d])
      BY <2>2 DEF CallsTyped
    <3>2. MediumCall(call[d]) => MediumCall(call[d])'
      BY <3>1 DEF MediumCall, Grows
    <3>3. AttachCall(call[d]) => AttachCall(call[d])'
      BY <3>1 DEF AttachCall, Grows
    <3>4. QED BY <3>1, <3>2, <3>3 DEF CallTyped
  <2>3. QED BY <2>1, <2>2
<1>3. QED BY <1>1, <1>2 DEF CallsTyped

\* ... nor do they change while nobody moves.
LEMMA CallsSame ==
  ASSUME CallsTyped, Grows, UNCHANGED call
  PROVE  CallsTyped'
<1>1. ASSUME NEW d \in Calls PROVE CallTyped(call[d])'
  <2>1. call'[d] = call[d] /\ CallTyped(call[d])
    BY DEF CallsTyped
  <2>2. MediumCall(call[d]) => MediumCall(call[d])'
    BY <2>1 DEF MediumCall, Grows
  <2>3. AttachCall(call[d]) => AttachCall(call[d])'
    BY <2>1 DEF AttachCall, Grows
  <2>4. QED BY <2>1, <2>2, <2>3 DEF CallTyped
<1>2. QED BY <1>1 DEF CallsTyped

\* A call that ends is idle.
LEMMA FinishTyped ==
  ASSUME CallsTyped, Grows, NEW c \in Calls, Finish(c)
  PROVE  CallsTyped' /\ call' = [call EXCEPT ![c] = Idle]
<1>1. CallTyped(Idle)'
  BY DEF CallTyped, Idle
<1>2. QED BY <1>1, CallSet DEF Finish

\* A call that goes on stays with its operation and its medium.
LEMMA GotoTyped ==
  ASSUME CallsTyped, Grows, NEW c \in Calls, MediumCall(call[c]),
         NEW stage \in StagesOf[call[c].op], Goto(c, stage)
  PROVE  CallsTyped'
<1> DEFINE moved == [call[c] EXCEPT !.pc = stage, !.tries = 0]
<1>1. PICK k : k = moved
  OBVIOUS
<1>2. k = [op |-> call[c].op, pc |-> stage, medium |-> call[c].medium, tries |-> 0]
  BY <1>1 DEF MediumCall
<1>3. call' = [call EXCEPT ![c] = k]
  <2>1. call' = [call EXCEPT ![c] = moved]
    BY Zenon DEF Goto
  <2> HIDE DEF moved
  <2>2. QED BY <2>1, <1>1
<1> HIDE DEF moved
<1>4. MediumCall(k)'
  BY <1>2, MediaAssumption DEF MediumCall, StagesOf, Grows
<1>5. CallTyped(k)'
  BY <1>4 DEF CallTyped
<1>6. QED BY <1>3, <1>5, CallSet

\* After a failed attempt there is another, or the caller goes on, or it ends.
LEMMA AttemptTyped ==
  ASSUME CallsTyped, Grows, NEW c \in Calls, MediumCall(call[c]),
         call[c].op # "presign", AttemptFails(c)
  PROVE  CallsTyped'
<1>1. CASE call[c].tries + 1 < MaxAttempts
  <2>1. PICK k : k = [call[c] EXCEPT !.tries = @ + 1]
    OBVIOUS
  <2>2. call' = [call EXCEPT ![c] = k]
    BY <1>1, <2>1 DEF AttemptFails, CallsTyped
  <2>3. MediumCall(k)'
    BY <1>1, <2>1, MediaAssumption DEF MediumCall, StagesOf, Grows
  <2>4. CallTyped(k)'
    BY <2>3 DEF CallTyped
  <2>5. QED BY <2>2, <2>4, CallSet
<1>2. CASE ~(call[c].tries + 1 < MaxAttempts) /\ AfterFailure[call[c].op] = "idle"
  BY <1>2, FinishTyped DEF AttemptFails
<1>3. CASE ~(call[c].tries + 1 < MaxAttempts) /\ AfterFailure[call[c].op] # "idle"
  <2>1. call[c].op = "confirm" /\ AfterFailure[call[c].op] = "remove"
    BY <1>3 DEF AfterFailure, MediumCall
  <2>2. "remove" \in StagesOf[call[c].op] /\ Goto(c, "remove")
    BY <1>3, <2>1 DEF StagesOf, AttemptFails
  <2>3. QED BY <2>2, GotoTyped
<1>4. QED BY <1>1, <1>2, <1>3

\* Every operation on a medium that is there begins with a typed call.
LEMMA BeginTyped ==
  ASSUME CallsTyped, Grows, NEW c \in Calls, NEW m \in Media,
         NEW op \in {"presign", "confirm", "update", "file"}, NEW stage \in StagesOf[op],
         op # "file" => m \in asked', op \in {"update", "file"} => m \in resigned',
         Begin(c, OnMedium(op, stage, m))
  PROVE  CallsTyped'
<1>1. MediumCall(OnMedium(op, stage, m))'
  BY MediaAssumption DEF MediumCall, OnMedium, StagesOf
<1>2. CallTyped(OnMedium(op, stage, m))'
  BY <1>1 DEF CallTyped
<1>3. QED BY <1>2, CallSet DEF Begin

-----------------------------------------------------------------------------
(***************************************************************************)
(* Types.                                                                  *)
(***************************************************************************)

\* The steps of calls in progress, faults included, keep the types.
LEMMA CallStepTyped ==
  ASSUME MediaInv, NEW c \in Calls, GoOn(c) \/ Fails(c) \/ Breaks(c)
  PROVE  MediaInv'
<1> USE DEF MediaInv
<1>1. CASE Sign(c)
  <2>1. call[c].medium \in asked
    BY <1>1, AtMedium DEF Sign, MediumCall, At
  <2>2. StoresTyped'
    BY <1>1, <2>1 DEF Sign, StoresTyped, history
  <2>3. CallsTyped'
    BY <1>1, FinishTyped DEF Sign, Grows, history
  <2>4. QED BY <2>2, <2>3
<1>2. CASE Stat(c)
  <2>1. MediumCall(call[c]) /\ call[c].op = "confirm"
    BY <1>2, AtMedium DEF Stat, At
  <2>2. StoresTyped' /\ Grows
    BY <1>2 DEF Stat, StoresTyped, stores, history, Grows
  <2>3. CallsTyped'
    BY <1>2, <2>1, <2>2, GotoTyped, AttemptTyped DEF Stat, StagesOf
  <2>4. QED BY <2>2, <2>3
<1>3. CASE SaveConfirmed(c)
  <2>1. call[c].medium \in asked
    BY <1>3, AtMedium DEF SaveConfirmed, MediumCall, At
  <2>2. StoresTyped'
    BY <1>3, <2>1 DEF SaveConfirmed, StoresTyped, history
  <2>3. CallsTyped'
    BY <1>3, FinishTyped DEF SaveConfirmed, Grows, history
  <2>4. QED BY <2>2, <2>3
<1>4. CASE RemoveRow(c)
  <2>1. StoresTyped'
    BY <1>4 DEF RemoveRow, StoresTyped, Linked
  <2>2. CallsTyped'
    BY <1>4, FinishTyped DEF RemoveRow, Grows
  <2>3. QED BY <2>1, <2>2
<1>5. CASE Attach(c)
  <2>1. AttachCall(call[c])
    BY <1>5, AtAttach DEF Attach
  <2>2. StoresTyped'
    BY <1>5, <2>1 DEF Attach, StoresTyped, AttachCall, AllLinks, history
  <2>3. CallsTyped'
    BY <1>5, FinishTyped DEF Attach, Grows, history
  <2>4. QED BY <2>2, <2>3
<1>6. CASE FindOld(c)
  <2>1. MediumCall(call[c]) /\ call[c].op = "update"
    BY <1>6, AtMedium DEF FindOld, At
  <2>2. StoresTyped' /\ Grows
    BY <1>6 DEF FindOld, StoresTyped, stores, history, Grows
  <2>3. CallsTyped'
    BY <1>6, <2>1, <2>2, GotoTyped, FinishTyped DEF FindOld, StagesOf
  <2>4. QED BY <2>2, <2>3
<1>7. CASE Erase(c)
  <2>1. MediumCall(call[c]) /\ call[c].op \in {"update", "file"}
    BY <1>7, AtMedium DEF Erase, At
  <2>2. StoresTyped' /\ Grows
    BY <1>7 DEF Erase, StoresTyped, history, Grows
  <2>3. CallsTyped'
    BY <1>7, <2>1, <2>2, GotoTyped, FinishTyped DEF Erase, StagesOf
  <2>4. QED BY <2>2, <2>3
<1>8. CASE Fails(c)
  <2>1. StoresTyped' /\ Grows
    BY <1>8, MediaAssumption DEF Fails, StoresTyped, history, Grows
  <2>2. CASE (At(c, "stat") \/ At(c, "erase")) /\ AttemptFails(c)
    BY <2>1, <2>2, AtMedium, AttemptTyped DEF At
  <2>3. CASE At(c, "save") /\ Goto(c, "remove")
    BY <2>1, <2>3, AtMedium, GotoTyped DEF At, StagesOf
  <2>4. QED BY <1>8, <2>1, <2>2, <2>3 DEF Fails
<1>9. CASE Breaks(c)
  <2>1. StoresTyped' /\ Grows
    BY <1>9, MediaAssumption DEF Breaks, StoresTyped, stores, history, Grows
  <2>2. QED BY <1>9, <2>1, FinishTyped DEF Breaks
<1>10. QED BY <1>1, <1>2, <1>3, <1>4, <1>5, <1>6, <1>7, <1>8, <1>9 DEF GoOn

\* Calls begin with their types.
LEMMA RequestTyped ==
  ASSUME MediaInv, NEW c \in Calls, NEW m \in Media, Request(c, m)
  PROVE  MediaInv'
<1> USE DEF MediaInv
<1>1. CASE SaveRow(c, m)
  <2>1. StoresTyped' /\ Grows /\ m \in asked'
    BY <1>1 DEF SaveRow, StoresTyped, Grows
  <2>2. CallsTyped'
    BY <1>1, <2>1, BeginTyped DEF SaveRow, StagesOf
  <2>3. QED BY <2>1, <2>2
<1>2. CASE Confirm(c, m)
  <2>1. StoresTyped' /\ Grows /\ m \in asked'
    BY <1>2 DEF Confirm, StoresTyped, stores, history, Grows
  <2>2. CallsTyped'
    BY <1>2, <2>1, BeginTyped DEF Confirm, StagesOf
  <2>3. QED BY <2>1, <2>2
<1>3. CASE EraseFile(c, m)
  <2>1. StoresTyped' /\ Grows /\ m \in resigned'
    BY <1>3 DEF EraseFile, StoresTyped, stores, Grows
  <2>2. CallsTyped'
    BY <1>3, <2>1, BeginTyped DEF EraseFile, StagesOf
  <2>3. QED BY <2>1, <2>2
<1>4. QED BY <1>1, <1>2, <1>3 DEF Request

\* What clients do by themselves, and the lapse of URLs, keeps the types.
LEMMA OutsideTyped ==
  ASSUME MediaInv, NEW m \in Media, Put(m) \/ UrlLapses(m)
  PROVE  MediaInv'
<1> USE DEF MediaInv
<1>1. StoresTyped' /\ Grows /\ UNCHANGED call
  BY DEF Put, UrlLapses, StoresTyped, history, Grows
<1>2. QED BY <1>1, CallsSame

\* Events are created and changed with their types.
LEMMA EventTyped ==
  ASSUME MediaInv, NEW e \in Events, NEW m \in Media,
         \/ CreateEvent(e, m)
         \/ \E c \in Calls : Update(c, e, m) \/ \E type \in Types : SeeBanner(c, e, m, type)
  PROVE  MediaInv'
<1> USE DEF MediaInv
<1>1. CASE CreateEvent(e, m)
  <2>1. StoresTyped' /\ Grows /\ UNCHANGED call
    BY <1>1 DEF CreateEvent, StoresTyped, history, Grows, Link, AllLinks, Types
  <2>2. QED BY <2>1, CallsSame
<1>2. ASSUME NEW c \in Calls, Update(c, e, m) PROVE MediaInv'
  <2>1. PICK old \in OldBanner(e, m) : Begin(c, OnMedium("update", "find", old))
    BY <1>2 DEF Update
  <2>2. StoresTyped' /\ Grows
    BY <1>2 DEF Update, StoresTyped, stores, Grows, Banners, AllLinks
  <2>3. old \in Media /\ old \in asked' /\ old \in resigned'
    BY <1>2, <2>2 DEF Update, StoresTyped, OldBanner, Banners, AllLinks, stores
  <2>4. CallsTyped'
    BY <2>1, <2>2, <2>3, BeginTyped DEF StagesOf
  <2>5. QED BY <2>2, <2>4
<1>3. ASSUME NEW c \in Calls, NEW type \in Types, SeeBanner(c, e, m, type) PROVE MediaInv'
  <2>1. StoresTyped' /\ Grows
    BY <1>3 DEF SeeBanner, StoresTyped, stores, history, Grows
  <2>2. PICK k : k = [op |-> "attach", pc |-> "attach", link |-> Link(e, m, type),
                      seen |-> IF type = "banner" THEN Banners(e) ELSE {}]
    OBVIOUS
  <2>3. AttachCall(k)'
    BY <1>3, <2>1, <2>2
    DEF SeeBanner, StoresTyped, AttachCall, Alive, Banners, Link, AllLinks, Types, stores
  <2>4. call' = [call EXCEPT ![c] = k]
    BY <1>3, <2>2 DEF SeeBanner, Begin
  <2>5. CallsTyped'
    BY <2>1, <2>3, <2>4, CallSet DEF CallTyped
  <2>6. QED BY <2>1, <2>5
<1>4. QED BY <1>1, <1>2, <1>3

\* Every step keeps the types.
LEMMA MediaStep ==
  ASSUME MediaInv, [Next]_vars
  PROVE  MediaInv'
<1>1. CASE UNCHANGED vars
  <2>1. StoresTyped' /\ Grows
    BY <1>1 DEF MediaInv, StoresTyped, vars, stores, history, Grows
  <2>2. QED BY <1>1, <2>1, CallsSame DEF MediaInv, vars
<1>2. ASSUME NEW e \in Events, DeleteEvent(e) PROVE MediaInv'
  <2>1. StoresTyped' /\ Grows /\ UNCHANGED call
    BY <1>2 DEF MediaInv, DeleteEvent, StoresTyped, history, Grows, Alive
  <2>2. QED BY <2>1, CallsSame DEF MediaInv
<1>3. QED
  BY <1>1, <1>2, CallStepTyped, RequestTyped, OutsideTyped, EventTyped DEF Next

\* What is stored has its types, and calls know what the steps below rely on: who
\* erases a file, or which banners an attachment replaces.
THEOREM MediaInvariant == Spec => []MediaInv
<1>1. Init => MediaInv
  BY MediaAssumption DEF Init, MediaInv, StoresTyped, CallsTyped, CallTyped
<1>2. QED BY <1>1, MediaStep, PTL DEF Spec

\* Rows, objects and calls have their types, for any number of calls and failures.
THEOREM MediaTypes == Spec => []TypeOK
<1>1. MediaInv => TypeOK
  <2> SUFFICES ASSUME MediaInv PROVE TypeOK
    OBVIOUS
  <2>1. ASSUME NEW c \in Calls, MediumCall(call[c])
        PROVE  /\ At(c, "sign") => call[c].op = "presign" /\ call[c].medium \in asked
               /\ call[c].op \in {"confirm", "update"} => call[c].medium \in asked
    BY <2>1 DEF MediumCall, StagesOf, At
  <2>2. QED
    BY <2>1 DEF MediaInv, StoresTyped, CallsTyped, CallTyped, MediumCall, AttachCall, TypeOK
<1>2. QED BY <1>1, MediaInvariant, PTL

-----------------------------------------------------------------------------
(***************************************************************************)
(* Banners.                                                                *)
(***************************************************************************)

\* A step that adds or takes no banner leaves their number.
LEMMA BannersSame ==
  ASSUME OneBanner, saved' = saved, \A e \in saved : Banners(e)' = Banners(e)
  PROVE  OneBanner'
  BY DEF OneBanner

\* An attachment leaves the links of other events, and replaces a banner by another.
LEMMA AttachKeepsOne ==
  ASSUME MediaInv, OneBanner, NEW c \in Calls, Attach(c)
  PROVE  OneBanner'
<1>1. AttachCall(call[c]) /\ saved' = saved /\ links \in SUBSET AllLinks
  BY AtAttach DEF Attach, MediaInv, StoresTyped
<1> DEFINE link == call[c].link
           seen == call[c].seen
<1>2. CASE links' = links
  BY <1>1, <1>2, BannersSame DEF Banners
<1>3. CASE links' = (links \ seen) \cup {link} /\ OnlyBanner(c)
  <2> SUFFICES ASSUME NEW e \in saved PROVE Cardinality(Banners(e)') = 1
    BY <1>1 DEF OneBanner
  <2>1. CASE e # link.event \/ link.type # "banner"
    <3>1. Banners(e)' = Banners(e)
      BY <1>1, <1>3, <2>1 DEF AttachCall, Banners, AllLinks, Types
    <3>2. QED BY <3>1 DEF OneBanner
  <2>2. CASE e = link.event /\ link.type = "banner"
    <3>1. Banners(e) \subseteq seen
      BY <1>3, <2>2 DEF OnlyBanner
    <3>2. Banners(e)' = {link}
      BY <1>3, <2>2, <3>1 DEF Banners
    <3>3. QED BY <3>2, FS_Singleton
  <2>3. QED BY <1>1, <2>1, <2>2 DEF AttachCall, AllLinks, Types
<1>4. QED BY <1>2, <1>3 DEF Attach

\* An event begins with the banner that it is created with.
LEMMA CreateWithOne ==
  ASSUME MediaInv, OneBanner, NEW e \in Events, NEW m \in Media, CreateEvent(e, m)
  PROVE  OneBanner'
<1> SUFFICES ASSUME NEW d \in saved' PROVE Cardinality(Banners(d)') = 1
  BY DEF OneBanner
<1>1. CASE d = e
  <2>1. Banners(e)' = {Link(e, m, "banner")}
    BY DEF CreateEvent, Banners, Link, MediaInv, StoresTyped
  <2>2. QED BY <1>1, <2>1, FS_Singleton
<1>2. CASE d # e
  <2>1. d \in saved /\ Banners(d)' = Banners(d)
    BY <1>2 DEF CreateEvent, Banners, Link
  <2>2. QED BY <2>1 DEF OneBanner
<1>3. QED BY <1>1, <1>2

\* Nothing else touches links or creates events.
LEMMA OthersLeaveLinks ==
  ASSUME Next
  PROVE  \/ UNCHANGED <<links, saved>>
         \/ \E c \in Calls : Attach(c)
         \/ \E e \in Events, m \in Media : CreateEvent(e, m)
<1>1. ASSUME NEW c \in Calls, GoOn(c) \/ Fails(c) \/ Breaks(c)
      PROVE  UNCHANGED <<links, saved>> \/ Attach(c)
  BY <1>1 DEF GoOn, Sign, Stat, SaveConfirmed, RemoveRow, FindOld, Erase, Fails, Breaks, stores
<1>2. ASSUME NEW c \in Calls, NEW m \in Media, Request(c, m) PROVE UNCHANGED <<links, saved>>
  BY <1>2 DEF Request, SaveRow, Confirm, EraseFile, stores
<1>3. ASSUME NEW m \in Media, Put(m) \/ UrlLapses(m) PROVE UNCHANGED <<links, saved>>
  BY <1>3 DEF Put, UrlLapses
<1>4. ASSUME NEW e \in Events, DeleteEvent(e) PROVE UNCHANGED <<links, saved>>
  BY <1>4 DEF DeleteEvent
<1>5. ASSUME NEW c \in Calls, NEW e \in Events, NEW m \in Media,
             Update(c, e, m) \/ \E type \in Types : SeeBanner(c, e, m, type)
      PROVE  UNCHANGED <<links, saved>>
  BY <1>5 DEF Update, SeeBanner, stores
<1>6. QED BY <1>1, <1>2, <1>3, <1>4, <1>5 DEF Next

\* An event has one banner, however many requests replace it at once.
THEOREM BannerAlone == Spec => []OneBanner
<1>1. Init => OneBanner
  BY DEF Init, OneBanner
<1>2. MediaInv /\ OneBanner /\ [Next]_vars => OneBanner'
  <2> SUFFICES ASSUME MediaInv, OneBanner, [Next]_vars PROVE OneBanner'
    OBVIOUS
  <2>1. CASE UNCHANGED <<links, saved>>
    BY <2>1, BannersSame DEF Banners
  <2>2. QED
    BY <2>1, OthersLeaveLinks, AttachKeepsOne, CreateWithOne DEF vars, stores
<1>3. QED BY <1>1, <1>2, MediaInvariant, PTL DEF Spec

-----------------------------------------------------------------------------
(***************************************************************************)
(* Objects.                                                                *)
(***************************************************************************)

\* Objects leave storage only by an erasure, complete or not.
LEMMA ObjectsLeave ==
  ASSUME MediaInv, Next
  PROVE  /\ put \subseteq put' /\ resigned \subseteq resigned'
         /\ put' \ put \subseteq objects'
         /\ \A m \in objects \ objects' :
              \E c \in Calls : At(c, "erase") /\ call[c].medium = m
<1> DEFINE Kept ==
      /\ put \subseteq put' /\ resigned \subseteq resigned' /\ put' \ put \subseteq objects'
      /\ \A m \in objects \ objects' :
           \E c \in Calls : At(c, "erase") /\ call[c].medium = m
<1>1. ASSUME NEW c \in Calls, GoOn(c) PROVE Kept
  BY <1>1 DEF GoOn, Sign, Stat, SaveConfirmed, RemoveRow, Attach, FindOld, Erase, stores, history
<1>2. ASSUME NEW c \in Calls, Fails(c) \/ Breaks(c) PROVE Kept
  BY <1>2 DEF Fails, Breaks, stores, history
<1>3. ASSUME NEW c \in Calls, NEW m \in Media, Request(c, m) PROVE Kept
  BY <1>3 DEF Request, SaveRow, Confirm, EraseFile, stores, history
<1>4. ASSUME NEW m \in Media, Put(m) \/ UrlLapses(m) PROVE Kept
  BY <1>4 DEF Put, UrlLapses, history
<1>5. ASSUME NEW e \in Events, NEW m \in Media, CreateEvent(e, m) PROVE Kept
  BY <1>5 DEF CreateEvent, history
<1>6. ASSUME NEW e \in Events, DeleteEvent(e) PROVE Kept
  BY <1>6 DEF DeleteEvent, history
<1>7. ASSUME NEW c \in Calls, NEW e \in Events, NEW m \in Media,
             Update(c, e, m) \/ \E type \in Types : SeeBanner(c, e, m, type)
      PROVE  Kept
  BY <1>7 DEF Update, SeeBanner, stores, history
<1>8. QED BY <1>1, <1>2, <1>3, <1>4, <1>5, <1>6, <1>7 DEF Next

\* No picture of an event is lost that nobody wanted out of storage.
THEOREM PicturesStay == Spec => []PicturesKept
<1>1. Init => LostResigned
  BY DEF Init, LostResigned
<1>2. MediaInv /\ LostResigned /\ [Next]_vars => LostResigned'
  <2> SUFFICES ASSUME MediaInv, LostResigned, [Next]_vars PROVE LostResigned'
    OBVIOUS
  <2>1. CASE UNCHANGED vars
    BY <2>1 DEF LostResigned, vars, stores, history
  <2>2. CASE Next
    <3>1. \A c \in Calls : At(c, "erase") => call[c].medium \in resigned
      BY AtMedium DEF MediaInv, MediumCall, At
    <3>2. QED BY <2>2, <3>1, ObjectsLeave DEF LostResigned
  <2>3. QED BY <2>1, <2>2
<1>3. LostResigned => PicturesKept
  BY DEF LostResigned, PicturesKept
<1>4. QED BY <1>1, <1>2, <1>3, MediaInvariant, PTL DEF Spec

\* A step of a call leaves the others, and its own operation and medium.
LEMMA Moves ==
  ASSUME CallsTyped, NEW c \in Calls, NEW d \in Calls, MediumCall(call[c])
  PROVE  /\ \A stage : Goto(c, stage) =>
              IF d # c THEN call'[d] = call[d]
              ELSE call'[d].pc = stage /\ call'[d].op = call[c].op /\ call'[d].medium = call[c].medium
         /\ AttemptFails(c) /\ call[c].op # "presign" /\ call[c].pc # "remove" =>
              IF d # c THEN call'[d] = call[d]
              ELSE call'[d].pc # "remove" \/ call'[d].op = "confirm"
<1> DEFINE Moved(stage) ==
      IF d # c THEN call'[d] = call[d]
      ELSE call'[d].pc = stage /\ call'[d].op = call[c].op /\ call'[d].medium = call[c].medium
<1>1. ASSUME NEW stage, Goto(c, stage) PROVE Moved(stage)
  <2>1. d # c => call'[d] = call[d]
    BY <1>1 DEF Goto, CallsTyped
  <2>2. d = c => call'[d] = [call[c] EXCEPT !.pc = stage, !.tries = 0]
    BY <1>1 DEF Goto, CallsTyped
  <2>3. QED BY <2>1, <2>2 DEF MediumCall
<1>2. ASSUME AttemptFails(c), call[c].op # "presign", call[c].pc # "remove"
      PROVE  IF d # c THEN call'[d] = call[d]
             ELSE call'[d].pc # "remove" \/ call'[d].op = "confirm"
  <2>1. CASE call[c].tries + 1 < MaxAttempts
    <3>1. d # c => call'[d] = call[d]
      BY <1>2, <2>1 DEF AttemptFails, CallsTyped
    <3>2. d = c => call'[d] = [call[c] EXCEPT !.tries = @ + 1]
      BY <1>2, <2>1 DEF AttemptFails, CallsTyped
    <3>3. QED BY <1>2, <3>1, <3>2 DEF MediumCall
  <2>2. CASE ~(call[c].tries + 1 < MaxAttempts) /\ Finish(c)
    BY <2>2 DEF Finish, Idle, CallsTyped
  <2>3. CASE Goto(c, "remove") /\ call[c].op = "confirm"
    BY <1>1, <2>3
  <2>4. QED
    BY <1>2, <2>1, <2>2, <2>3 DEF AttemptFails, AfterFailure, MediumCall
<1>3. QED BY <1>1, <1>2

\* A call that is to remove a row after an update was so before, or has just erased the
\* object.
LEMMA RemoversErased ==
  ASSUME MediaInv, Next, NEW d \in Calls, call'[d].pc = "remove", call'[d].op = "update"
  PROVE  \/ call'[d] = call[d]
         \/ Erase(d) /\ call'[d].medium = call[d].medium
<1> USE DEF MediaInv
<1>0. DOMAIN call = Calls
  BY DEF CallsTyped
<1>1. ASSUME NEW c \in Calls, GoOn(c), ~Erase(c) PROVE call'[d] = call[d]
  <2>1. CASE Sign(c) \/ SaveConfirmed(c) \/ RemoveRow(c) \/ Attach(c)
    BY <1>0, <2>1 DEF Sign, SaveConfirmed, RemoveRow, Attach, Finish, Idle
  <2>2. CASE Stat(c)
    <3>1. MediumCall(call[c]) /\ call[c].op = "confirm"
      BY <2>2, AtMedium DEF Stat, At
    <3>2. QED BY <2>2, <3>1, Moves DEF Stat, At
  <2>3. CASE FindOld(c)
    <3>1. MediumCall(call[c])
      BY <2>3, AtMedium DEF FindOld, At
    <3>2. QED BY <1>0, <2>3, <3>1, Moves DEF FindOld, Finish, Idle
  <2>4. QED BY <1>1, <2>1, <2>2, <2>3 DEF GoOn
<1>2. ASSUME NEW c \in Calls, Erase(c)
      PROVE  call'[d] = call[d] \/ (c = d /\ call'[d].medium = call[d].medium)
  <2>1. MediumCall(call[c])
    BY <1>2, AtMedium DEF Erase, At
  <2>2. QED BY <1>0, <1>2, <2>1, Moves DEF Erase, Finish, Idle
<1>3. ASSUME NEW c \in Calls, Fails(c) PROVE call'[d] = call[d]
  <2>1. /\ MediumCall(call[c])
        /\ At(c, "stat") \/ At(c, "save") => call[c].op = "confirm"
        /\ At(c, "erase") => call[c].op \in {"update", "file"}
    BY <1>3, AtMedium DEF Fails, At
  <2>2. CASE At(c, "save") /\ Goto(c, "remove")
    BY <2>1, <2>2, Moves
  <2>3. CASE (At(c, "stat") \/ At(c, "erase")) /\ AttemptFails(c)
    BY <2>1, <2>3, Moves DEF At
  <2>4. QED BY <1>3, <2>2, <2>3 DEF Fails
<1>4. ASSUME NEW c \in Calls, Breaks(c) PROVE call'[d] = call[d]
  BY <1>0, <1>4 DEF Breaks, Finish, Idle
<1>5. ASSUME NEW c \in Calls, NEW m \in Media, Request(c, m) PROVE call'[d] = call[d]
  BY <1>0, <1>5 DEF Request, SaveRow, Confirm, EraseFile, Begin, OnMedium
<1>6. ASSUME NEW m \in Media, Put(m) \/ UrlLapses(m) PROVE call'[d] = call[d]
  BY <1>6 DEF Put, UrlLapses
<1>7. ASSUME NEW e \in Events, NEW m \in Media, CreateEvent(e, m) PROVE call'[d] = call[d]
  BY <1>7 DEF CreateEvent
<1>8. ASSUME NEW e \in Events, DeleteEvent(e) PROVE call'[d] = call[d]
  BY <1>8 DEF DeleteEvent
<1>9. ASSUME NEW c \in Calls, NEW e \in Events, NEW m \in Media,
             Update(c, e, m) \/ \E type \in Types : SeeBanner(c, e, m, type)
      PROVE  call'[d] = call[d]
  BY <1>0, <1>9 DEF Update, SeeBanner, Begin, OnMedium
<1>10. QED BY <1>1, <1>2, <1>3, <1>4, <1>5, <1>6, <1>7, <1>8, <1>9 DEF Next

\* Rows leave by RemoveRow, objects come by Put; what is forgone stays forgone.
LEMMA StoresMove ==
  ASSUME MediaInv, Next
  PROVE  /\ forgone \subseteq forgone'
         /\ \A m \in objects' \ objects : Put(m)
         /\ \A m \in rows \ rows' : \E c \in Calls : RemoveRow(c) /\ call[c].medium = m
<1> DEFINE Moved ==
      /\ forgone \subseteq forgone' /\ \A m \in objects' \ objects : Put(m)
      /\ \A m \in rows \ rows' : \E c \in Calls : RemoveRow(c) /\ call[c].medium = m
<1>1. ASSUME NEW c \in Calls, GoOn(c) PROVE Moved
  <2>1. CASE RemoveRow(c)
    <3>1. rows \ rows' \subseteq {call[c].medium} /\ objects' = objects /\ forgone \subseteq forgone'
      BY <2>1 DEF RemoveRow
    <3>2. QED BY <2>1, <3>1
  <2>2. CASE ~RemoveRow(c)
    BY <1>1, <2>2 DEF GoOn, Sign, Stat, SaveConfirmed, Attach, FindOld, Erase, stores, history
  <2>3. QED BY <2>1, <2>2
<1>2. ASSUME NEW c \in Calls, Fails(c) \/ Breaks(c) PROVE Moved
  BY <1>2 DEF Fails, Breaks, stores, history
<1>3. ASSUME NEW c \in Calls, NEW m \in Media, Request(c, m) PROVE Moved
  BY <1>3 DEF Request, SaveRow, Confirm, EraseFile, stores, history
<1>4. ASSUME NEW m \in Media, Put(m) PROVE Moved
  <2>1. objects' \ objects \subseteq {m} /\ rows' = rows /\ forgone \subseteq forgone'
    BY <1>4 DEF Put
  <2>2. QED BY <1>4, <2>1
<1>5. ASSUME NEW m \in Media, UrlLapses(m) PROVE Moved
  BY <1>5 DEF UrlLapses, history
<1>6. ASSUME NEW e \in Events, NEW m \in Media, CreateEvent(e, m) PROVE Moved
  BY <1>6 DEF CreateEvent, history
<1>7. ASSUME NEW e \in Events, DeleteEvent(e) PROVE Moved
  BY <1>7 DEF DeleteEvent, history
<1>8. ASSUME NEW c \in Calls, NEW e \in Events, NEW m \in Media,
             Update(c, e, m) \/ \E type \in Types : SeeBanner(c, e, m, type)
      PROVE  Moved
  BY <1>8 DEF Update, SeeBanner, stores, history
<1>9. QED BY <1>1, <1>2, <1>3, <1>4, <1>5, <1>6, <1>7, <1>8 DEF Next

\* ErasedFirst is kept: a call comes to remove the row of a banner only when the object
\* has just been erased, and who puts an object then is told so.
LEMMA ErasedStep ==
  ASSUME MediaInv, ErasedFirst, Next
  PROVE  ErasedFirst'
<1> SUFFICES ASSUME NEW d \in Calls, call'[d].pc = "remove", call'[d].op = "update",
                    call'[d].medium \in objects'
             PROVE  call'[d].medium \in forgone'
  BY DEF ErasedFirst, At
<1> DEFINE m == call'[d].medium
<1>1. CASE Erase(d) /\ call'[d].medium = call[d].medium
  BY <1>1 DEF Erase
<1>2. CASE call'[d] = call[d]
  <2>1. CASE m \in objects
    BY <1>2, <2>1, StoresMove DEF ErasedFirst, At
  <2>2. CASE m \notin objects
    <3>1. Put(m) /\ Leaving(m)
      BY <1>2, <2>2, StoresMove DEF Leaving, At
    <3>2. QED BY <3>1 DEF Put
  <2>3. QED BY <2>1, <2>2
<1>3. QED BY <1>1, <1>2, RemoversErased

\* OrphansExcused is kept: a row is removed by a confirmation, which says so, or after
\* its object.
LEMMA OrphansStep ==
  ASSUME MediaInv, ErasedFirst, OrphansExcused, Next
  PROVE  OrphansExcused'
<1> SUFFICES ASSUME NEW m \in objects', m \notin rows' PROVE m \in forgone'
  BY DEF OrphansExcused
<1>1. CASE m \notin objects
  <2>1. Put(m)
    BY <1>1, StoresMove
  <2>2. QED BY <2>1 DEF Put
<1>2. CASE m \in objects /\ m \notin rows
  BY <1>2, StoresMove DEF OrphansExcused
<1>3. CASE m \in objects /\ m \in rows
  <2>1. PICK c \in Calls : RemoveRow(c) /\ call[c].medium = m
    BY <1>3, StoresMove
  <2>2. CASE call[c].op = "confirm"
    BY <1>3, <2>1, <2>2 DEF RemoveRow
  <2>3. CASE call[c].op = "update"
    <3>1. m \in forgone
      BY <1>3, <2>1, <2>3 DEF RemoveRow, ErasedFirst
    <3>2. QED BY <3>1, StoresMove
  <2>4. QED BY <2>1, <2>2, <2>3, AtMedium DEF RemoveRow, MediaInv, At
<1>4. QED BY <1>1, <1>2, <1>3

\* An object that nobody will find again had its row removed by a confirmation, or was
\* put too late.
THEOREM OrphansHaveReasons == Spec => []OrphansExcused
<1>1. Init => OrphansInv
  BY DEF Init, OrphansInv, ErasedFirst, OrphansExcused
<1>2. MediaInv /\ OrphansInv /\ [Next]_vars => OrphansInv'
  <2> SUFFICES ASSUME MediaInv, OrphansInv, [Next]_vars PROVE OrphansInv'
    OBVIOUS
  <2>1. CASE UNCHANGED vars
    BY <2>1 DEF OrphansInv, ErasedFirst, OrphansExcused, vars, stores, history, At
  <2>2. CASE Next
    BY <2>2, ErasedStep, OrphansStep DEF OrphansInv
  <2>3. QED BY <2>1, <2>2
<1>3. OrphansInv => OrphansExcused
  BY DEF OrphansInv
<1>4. QED BY <1>1, <1>2, <1>3, MediaInvariant, PTL DEF Spec
-----------------------------------------------------------------------------
(***************************************************************************)
(* Calls come to an end.                                                   *)
(***************************************************************************)

\* The awaits that a call has before it, each attempt that RetryStrategy may still make
\* counted as one.
AwaitsLeft(k) ==
  CASE k.pc = "idle" -> 0
    [] k.pc \in {"sign", "remove", "attach"} -> 1
    [] k.pc = "save" -> 2
    [] k.pc = "erase" -> MaxAttempts - k.tries + 1
    [] k.pc = "stat" -> MaxAttempts - k.tries + 2
    [] k.pc = "find" -> MaxAttempts + 2

AwaitsBounded ==
  \A c \in Calls : call[c] # Idle => AwaitsLeft(call[c]) \in 1..MaxAttempts + 2

AwaitsFall ==
  \A c \in Calls :
    call[c] # Idle /\ (GoOn(c) \/ call'[c] # call[c])
      => AwaitsLeft(call'[c]) < AwaitsLeft(call[c])

\* What is left of a call that has just come to a stage, in terms of the one before.
LEMMA AwaitsAt ==
  ASSUME CallsTyped, NEW c \in Calls
  PROVE  /\ AwaitsLeft(call[c]) \in 0..MaxAttempts + 2
         /\ call[c] # Idle => AwaitsLeft(call[c]) # 0
         /\ At(c, "stat") => AwaitsLeft(call[c]) > 2
         /\ At(c, "erase") => AwaitsLeft(call[c]) > 1
<1>1. CASE call[c] = Idle
  BY <1>1, MediaAssumption DEF AwaitsLeft, Idle, At
<1>2. CASE MediumCall(call[c])
  <2>1. /\ call[c].tries \in 0..MaxAttempts - 1
        /\ call[c].pc \in {"sign", "stat", "save", "remove", "find", "erase"}
    BY <1>2 DEF MediumCall
  <2>2. QED BY <2>1, MediaAssumption DEF AwaitsLeft, At
<1>3. CASE AttachCall(call[c])
  <2>1. call[c].pc = "attach"
    BY <1>3 DEF AttachCall
  <2>2. QED BY <2>1, MediaAssumption DEF AwaitsLeft, At
<1>4. QED BY <1>1, <1>2, <1>3 DEF CallsTyped, CallTyped

\* Whoever goes on to save, erase or remove has fewer awaits left at the new stage.
LEMMA GotoFalls ==
  ASSUME CallsTyped, NEW c \in Calls, MediumCall(call[c]), NEW stage, Goto(c, stage),
         \/ At(c, "stat") /\ stage \in {"save", "remove"}
         \/ At(c, "find") /\ stage = "erase"
         \/ At(c, "erase") /\ stage = "remove"
         \/ At(c, "save") /\ stage = "remove"
  PROVE  AwaitsLeft(call'[c]) < AwaitsLeft(call[c]) /\ \A d \in Calls \ {c} : call'[d] = call[d]
<1>1. call'[c] = [call[c] EXCEPT !.pc = stage, !.tries = 0]
  BY DEF Goto, CallsTyped
<1>2. call'[c].pc = stage /\ call'[c].tries = 0
  BY <1>1 DEF MediumCall
<1>3. call[c].tries \in 0..MaxAttempts - 1
  BY DEF MediumCall
<1>4. AwaitsLeft(call'[c]) < AwaitsLeft(call[c])
  BY <1>2, <1>3, MediaAssumption DEF AwaitsLeft, At
<1>5. QED BY <1>4 DEF Goto, CallsTyped

\* A call that ends has no await left.
LEMMA FinishFalls ==
  ASSUME CallsTyped, NEW c \in Calls, call[c] # Idle, Finish(c)
  PROVE  AwaitsLeft(call'[c]) < AwaitsLeft(call[c]) /\ \A d \in Calls \ {c} : call'[d] = call[d]
<1>1. call'[c] = Idle
  BY DEF Finish, CallsTyped
<1>2. AwaitsLeft(call'[c]) = 0
  BY <1>1 DEF AwaitsLeft, Idle
<1>3. AwaitsLeft(call[c]) \in 0..MaxAttempts + 2 /\ AwaitsLeft(call[c]) # 0
  BY AwaitsAt
<1>4. AwaitsLeft(call'[c]) < AwaitsLeft(call[c])
  BY <1>2, <1>3, MediaAssumption
<1>5. QED BY <1>4 DEF Finish, CallsTyped

\* A failed attempt is one attempt less, and after the last one the caller gives up.
LEMMA AttemptFalls ==
  ASSUME CallsTyped, NEW c \in Calls, MediumCall(call[c]), At(c, "stat") \/ At(c, "erase"),
         AttemptFails(c)
  PROVE  AwaitsLeft(call'[c]) < AwaitsLeft(call[c]) /\ \A d \in Calls \ {c} : call'[d] = call[d]
<1>0. call[c] # Idle
  BY DEF At, Idle
<1>1. CASE call[c].tries + 1 < MaxAttempts
  <2>1. call'[c] = [call[c] EXCEPT !.tries = @ + 1] /\ \A d \in Calls \ {c} : call'[d] = call[d]
    BY <1>1 DEF AttemptFails, CallsTyped
  <2>2. call'[c].pc = call[c].pc /\ call'[c].tries = call[c].tries + 1
    BY <2>1 DEF MediumCall
  <2>3. call[c].tries \in 0..MaxAttempts - 1
    BY DEF MediumCall
  <2>4. AwaitsLeft(call'[c]) < AwaitsLeft(call[c])
    BY <2>2, <2>3, MediaAssumption DEF AwaitsLeft, At
  <2>5. QED BY <2>1, <2>4
<1>2. CASE ~(call[c].tries + 1 < MaxAttempts) /\ AfterFailure[call[c].op] = "idle"
  <2>1. Finish(c)
    BY <1>2 DEF AttemptFails
  <2>2. QED BY <1>0, <2>1, FinishFalls
<1>3. CASE ~(call[c].tries + 1 < MaxAttempts) /\ AfterFailure[call[c].op] # "idle"
  <2>1. At(c, "stat")
    BY <1>3, AtMedium DEF At, AfterFailure
  <2>2. AfterFailure[call[c].op] = "remove"
    BY <2>1, AtMedium DEF At, AfterFailure
  <2>3. Goto(c, "remove")
    BY <1>3, <2>2 DEF AttemptFails
  <2>4. QED BY <2>1, <2>3, GotoFalls
<1>4. QED BY <1>1, <1>2, <1>3

\* Whatever a call in progress does, and whatever fails it, leaves it fewer awaits.
LEMMA MoveFalls ==
  ASSUME CallsTyped, NEW c \in Calls, GoOn(c) \/ Fails(c) \/ Breaks(c)
  PROVE  AwaitsLeft(call'[c]) < AwaitsLeft(call[c]) /\ \A d \in Calls \ {c} : call'[d] = call[d]
<1>1. CASE Sign(c) \/ SaveConfirmed(c) \/ RemoveRow(c) \/ Attach(c)
  <2>1. Finish(c) /\ call[c] # Idle
    BY <1>1 DEF Sign, SaveConfirmed, RemoveRow, Attach, At, Idle
  <2>2. QED BY <2>1, FinishFalls
<1>2. CASE Stat(c)
  <2>1. MediumCall(call[c]) /\ At(c, "stat") /\ (Goto(c, "save") \/ AttemptFails(c))
    BY <1>2, AtMedium DEF Stat, At
  <2>2. QED BY <2>1, GotoFalls, AttemptFalls
<1>3. CASE FindOld(c)
  <2>1. /\ MediumCall(call[c]) /\ At(c, "find") /\ call[c] # Idle
        /\ Goto(c, "erase") \/ Finish(c)
    BY <1>3, AtMedium DEF FindOld, At, Idle
  <2>2. QED BY <2>1, GotoFalls, FinishFalls
<1>4. CASE Erase(c)
  <2>1. /\ MediumCall(call[c]) /\ At(c, "erase") /\ call[c] # Idle
        /\ Goto(c, "remove") \/ Finish(c)
    BY <1>4, AtMedium DEF Erase, At, Idle
  <2>2. QED BY <2>1, GotoFalls, FinishFalls
<1>5. CASE Fails(c)
  <2>1. /\ MediumCall(call[c])
        /\ \/ (At(c, "stat") \/ At(c, "erase")) /\ AttemptFails(c)
           \/ At(c, "save") /\ Goto(c, "remove")
    BY <1>5, AtMedium DEF Fails, At
  <2>2. QED BY <2>1, GotoFalls, AttemptFalls
<1>6. CASE Breaks(c)
  BY <1>6, FinishFalls DEF Breaks
<1>7. QED BY <1>1, <1>2, <1>3, <1>4, <1>5, <1>6 DEF GoOn

\* Nobody else touches a call that is in progress.
LEMMA OthersStay ==
  ASSUME CallsTyped, NEW d \in Calls, call[d] # Idle, [Next]_vars,
         ~(GoOn(d) \/ Fails(d) \/ Breaks(d))
  PROVE  call'[d] = call[d]
<1>1. ASSUME NEW c \in Calls, GoOn(c) \/ Fails(c) \/ Breaks(c) PROVE call'[d] = call[d]
  BY <1>1, MoveFalls
<1>2. ASSUME NEW c \in Calls, NEW k, Begin(c, k) PROVE call'[d] = call[d]
  BY <1>2 DEF Begin, CallsTyped
<1>3. ASSUME NEW c \in Calls, NEW m \in Media, Request(c, m) PROVE call'[d] = call[d]
  BY <1>2, <1>3 DEF Request, SaveRow, Confirm, EraseFile
<1>4. ASSUME NEW c \in Calls, NEW e \in Events, NEW m \in Media,
             Update(c, e, m) \/ \E type \in Types : SeeBanner(c, e, m, type)
      PROVE  call'[d] = call[d]
  BY <1>2, <1>4, Zenon DEF Update, SeeBanner
<1>5. ASSUME UNCHANGED call PROVE call'[d] = call[d]
  BY <1>5
<1>6. QED
  BY <1>1, <1>3, <1>4, <1>5 DEF Next, Put, UrlLapses, DeleteEvent, CreateEvent, vars

\* Calls come to an end, RetryStrategy included: each has between 1 and MaxAttempts + 2
\* awaits before it, and its own steps, failed attempts and errors leave it fewer.
THEOREM MediaCallsRunOut == Spec => []AwaitsBounded /\ [][AwaitsFall]_vars
<1>1. MediaInv => AwaitsBounded
  <2> SUFFICES ASSUME CallsTyped, NEW c \in Calls, call[c] # Idle
               PROVE  AwaitsLeft(call[c]) \in 1..MaxAttempts + 2
    BY DEF MediaInv, AwaitsBounded
  <2>1. AwaitsLeft(call[c]) \in 0..MaxAttempts + 2 /\ AwaitsLeft(call[c]) # 0
    BY AwaitsAt
  <2>2. QED BY <2>1, MediaAssumption
<1>2. MediaInv /\ [Next]_vars => AwaitsFall
  <2> SUFFICES ASSUME CallsTyped, [Next]_vars, NEW c \in Calls, call[c] # Idle,
                      GoOn(c) \/ call'[c] # call[c]
               PROVE  AwaitsLeft(call'[c]) < AwaitsLeft(call[c])
    BY DEF MediaInv, AwaitsFall
  <2>1. GoOn(c) \/ Fails(c) \/ Breaks(c)
    BY OthersStay
  <2>2. QED BY <2>1, MoveFalls
<1>3. QED BY <1>1, <1>2, MediaInvariant, PTL DEF Spec
=============================================================================
