------------------------------ MODULE EventMedia ------------------------------
(***************************************************************************)
(* The pictures of events: objects in MinIO, their rows in media_objects,  *)
(* and the links of events to them in event_media                          *)
(* (src/src/modules/events/event.service.ts,                               *)
(* src/src/infrastructure/storage: media.controller.ts, storage.service.ts *)
(* and retry.strategy.ts).                                                 *)
(*                                                                         *)
(* A client asks for a row and a URL, puts the object there by itself,     *)
(* confirms, and names the medium when it creates or changes an event.     *)
(* The two stores have no common transaction.                              *)
(***************************************************************************)
EXTENDS Naturals, FiniteSets

CONSTANTS
  Media,
  Events,
  Calls,         \* calls in progress at a time
  MaxAttempts,   \* RETRY_MAX_ATTEMPTS
  MaxFaults      \* bound on failures

ASSUME MediaAssumption == MaxAttempts \in Nat \ {0} /\ MaxFaults \in Nat

VARIABLES
  rows,      \* the rows of media_objects
  objects,   \* the media whose object is in storage
  urls,      \* the media whose presigned URL can still be used
  links,     \* the rows of event_media
  saved,     \* the rows of events
  hidden,    \* the events that are deleted softly: they keep their links
  call,      \* call[c]: what call c is doing
  faults,
  \* What the properties speak of:
  asked,     \* media that had a row at some time
  put,       \* media whose object was in storage at some time
  resigned,  \* media that somebody wanted out of storage
  forgone    \* media whose row a confirmation removed, or that were put too late to save it

stores == <<rows, objects, urls, links, saved, hidden>>
history == <<asked, put, resigned, forgone>>
vars == <<stores, call, faults, history>>

Types == {"banner", "gallery"}
Link(e, m, type) == [event |-> e, medium |-> m, type |-> type]
AllLinks == [event : Events, medium : Media, type : Types]

Idle == [pc |-> "idle"]

\* A call at its first await.  `tries` counts the attempts of the storage call it is at.
At(c, stage) == call[c].pc = stage
Begin(c, k) == call[c] = Idle /\ call' = [call EXCEPT ![c] = k]
Goto(c, stage) == call' = [call EXCEPT ![c] = [@ EXCEPT !.pc = stage, !.tries = 0]]
Finish(c) == call' = [call EXCEPT ![c] = Idle]

OnMedium(op, stage, m) == [op |-> op, pc |-> stage, medium |-> m, tries |-> 0]

Alive(e) == e \in saved \ hidden
Banners(e) == {l \in links : l.event = e /\ l.type = "banner"}
\* Slip: event_media without its foreign key.
NeverLinked(m) == FALSE

Linked(m) == \E l \in links : l.medium = m

\* The row of m is about to be removed.
Leaving(m) == \E c \in Calls : At(c, "remove") /\ call[c].medium = m

-----------------------------------------------------------------------------
(***************************************************************************)
(* RetryStrategy.execute: an attempt that fails is followed by another,    *)
(* the last one by what the caller does about it.                          *)
(***************************************************************************)

\* Slip: whatever became of the object, its row is removed.
AlwaysRemoves == [confirm |-> "remove", update |-> "remove", file |-> "idle"]

\* confirmUpload removes the row of what it cannot find; update only logs.
AfterFailure == [confirm |-> "remove", update |-> "idle", file |-> "idle"]

AttemptFails(c) ==
  IF call[c].tries + 1 < MaxAttempts THEN call' = [call EXCEPT ![c].tries = @ + 1]
  ELSE IF AfterFailure[call[c].op] = "idle" THEN Finish(c) ELSE Goto(c, AfterFailure[call[c].op])

-----------------------------------------------------------------------------
(***************************************************************************)
(* MediaController.                                                        *)
(***************************************************************************)

\* getPresignedUrl saves a new row ...
SaveRow(c, m) ==
  /\ m \notin asked
  /\ Begin(c, OnMedium("presign", "sign", m))
  /\ rows' = rows \cup {m}
  /\ asked' = asked \cup {m}
  /\ UNCHANGED <<objects, urls, links, saved, hidden, faults, put, resigned, forgone>>

\* ... and hands out a URL to put its object.
Sign(c) ==
  /\ At(c, "sign")
  /\ urls' = urls \cup {call[c].medium}
  /\ Finish(c)
  /\ UNCHANGED <<rows, objects, links, saved, hidden, faults, history>>

\* confirmUpload finds the row.  The client may also say that it has given up.
Confirm(c, m) ==
  /\ m \in rows
  /\ \E stage \in {"stat", "remove"} : Begin(c, OnMedium("confirm", stage, m))
  /\ UNCHANGED <<stores, faults, history>>

\* getFileMetadata
Stat(c) ==
  /\ At(c, "stat")
  /\ IF call[c].medium \in objects THEN Goto(c, "save") ELSE AttemptFails(c)
  /\ UNCHANGED <<stores, faults, history>>

\* Saving a row that was removed meanwhile inserts it again.
SaveConfirmed(c) ==
  /\ At(c, "save")
  /\ rows' = rows \cup {call[c].medium}
  /\ Finish(c)
  /\ UNCHANGED <<objects, urls, links, saved, hidden, faults, history>>

\* Rows that events refer to cannot be removed: the foreign key of event_media.
RemoveRow(c) ==
  LET m == call[c].medium IN
  /\ At(c, "remove")
  /\ \/ /\ ~Linked(m) /\ m \in rows
        /\ rows' = rows \ {m}
        /\ forgone' = IF call[c].op = "confirm" THEN forgone \cup {m} ELSE forgone
     \/ (Linked(m) \/ m \notin rows) /\ UNCHANGED <<rows, forgone>>
  /\ Finish(c)
  /\ UNCHANGED <<objects, urls, links, saved, hidden, faults, asked, put, resigned>>

-----------------------------------------------------------------------------
(***************************************************************************)
(* EventService.                                                           *)
(***************************************************************************)

\* create: the event and its banner in one transaction.
CreateEvent(e, m) ==
  /\ e \notin saved /\ m \in rows
  /\ saved' = saved \cup {e}
  /\ links' = links \cup {Link(e, m, "banner")}
  /\ UNCHANGED <<rows, objects, urls, hidden, call, faults, history>>

\* delete, bulkDelete
DeleteEvent(e) ==
  /\ Alive(e)
  /\ hidden' = hidden \cup {e}
  /\ UNCHANGED <<rows, objects, urls, links, saved, call, faults, history>>

\* attachMedia deletes the banner that it sees ...
SeeBanner(c, e, m, type) ==
  /\ Alive(e)
  /\ Begin(c, [op |-> "attach", pc |-> "attach", link |-> Link(e, m, type),
               seen |-> IF type = "banner" THEN Banners(e) ELSE {}])
  /\ UNCHANGED <<stores, faults, history>>

\* Slip: no unique index.
AnyNumber(c) == TRUE

\* The unique index: no other banner of the event was inserted meanwhile.
OnlyBanner(c) == call[c].link.type = "banner" => Banners(call[c].link.event) \subseteq call[c].seen

\* ... and commits with its own, or rolls back.
Attach(c) ==
  LET may == call[c].link.medium \in rows /\ OnlyBanner(c) IN
  /\ At(c, "attach")
  /\ links' = IF may THEN (links \ call[c].seen) \cup {call[c].link} ELSE links
  /\ Finish(c)
  /\ UNCHANGED <<rows, objects, urls, saved, hidden, faults, history>>

\* Slip: the type of the link is not looked at.
AnyPicture(e, m) == {l.medium : l \in {l \in links : l.event = e}} \ {m}

\* The medium that update will erase when it is told another banner.
OldBanner(e, m) == {l.medium : l \in Banners(e)} \ {m}

\* update reads the event with its links; what it is told may be any id.  The links
\* stay as they are, and its own columns are not modelled.
Update(c, e, m) ==
  /\ Alive(e)
  /\ \E old \in OldBanner(e, m) : Begin(c, OnMedium("update", "find", old))
  /\ resigned' = resigned \cup {l.medium : l \in Banners(e)}
  /\ UNCHANGED <<stores, faults, asked, put, forgone>>

FindOld(c) ==
  /\ At(c, "find")
  /\ IF call[c].medium \in rows THEN Goto(c, "erase") ELSE Finish(c)
  /\ UNCHANGED <<stores, faults, history>>

\* DELETE /storage/:bucket/:filename
EraseFile(c, m) ==
  /\ Begin(c, OnMedium("file", "erase", m))
  /\ resigned' = resigned \cup {m}
  /\ UNCHANGED <<stores, faults, asked, put, forgone>>

\* deleteFile.  Removing what is not there is no error.
Erase(c) ==
  /\ At(c, "erase")
  /\ objects' = objects \ {call[c].medium}
  /\ IF call[c].op = "update" THEN Goto(c, "remove") ELSE Finish(c)
  /\ UNCHANGED <<rows, urls, links, saved, hidden, faults, history>>

-----------------------------------------------------------------------------
(***************************************************************************)
(* Outside: clients, time, faults.                                         *)
(***************************************************************************)
Put(m) ==
  /\ m \in urls
  /\ objects' = objects \cup {m}
  /\ put' = put \cup {m}
  /\ forgone' = IF m \notin rows \/ Leaving(m) THEN forgone \cup {m} ELSE forgone
  /\ UNCHANGED <<rows, urls, links, saved, hidden, call, faults, asked, resigned>>

UrlLapses(m) ==
  /\ m \in urls
  /\ urls' = urls \ {m}
  /\ UNCHANGED <<rows, objects, links, saved, hidden, call, faults, history>>

\* MinIO or the database fails; of MinIO the answer may be all that is lost.
Fails(c) ==
  /\ faults < MaxFaults
  /\ faults' = faults + 1
  /\ \/ /\ At(c, "stat") /\ AttemptFails(c)
        /\ UNCHANGED objects
     \/ /\ At(c, "erase") /\ AttemptFails(c)
        /\ objects' \in {objects, objects \ {call[c].medium}}
     \/ /\ At(c, "save") /\ Goto(c, "remove")
        /\ UNCHANGED objects
  /\ UNCHANGED <<rows, urls, links, saved, hidden, history>>

\* Any other error, or the process dies: what is left undone stays undone.
Breaks(c) ==
  /\ call[c] # Idle /\ faults < MaxFaults
  /\ faults' = faults + 1
  /\ Finish(c)
  /\ UNCHANGED <<stores, history>>

-----------------------------------------------------------------------------
Init ==
  /\ rows = {} /\ objects = {} /\ urls = {} /\ links = {}
  /\ saved = {} /\ hidden = {}
  /\ call = [c \in Calls |-> Idle]
  /\ faults = 0
  /\ asked = {} /\ put = {} /\ resigned = {} /\ forgone = {}

GoOn(c) ==
  \/ Sign(c) \/ Stat(c) \/ SaveConfirmed(c) \/ RemoveRow(c) \/ Attach(c) \/ FindOld(c) \/ Erase(c)

Request(c, m) == SaveRow(c, m) \/ Confirm(c, m) \/ EraseFile(c, m)

Next ==
  \/ \E c \in Calls : GoOn(c) \/ Fails(c) \/ Breaks(c)
  \/ \E c \in Calls, m \in Media : Request(c, m)
  \/ \E m \in Media : Put(m) \/ UrlLapses(m)
  \/ \E e \in Events : DeleteEvent(e)
  \/ \E e \in Events, m \in Media :
       \/ CreateEvent(e, m)
       \/ \E c \in Calls : Update(c, e, m) \/ \E type \in Types : SeeBanner(c, e, m, type)

Spec == Init /\ [][Next]_vars
-----------------------------------------------------------------------------
(***************************************************************************)
(* Properties.                                                             *)
(***************************************************************************)

\* Rows, objects and calls have their types; links refer to rows that are there.
TypeOK ==
  /\ rows \in SUBSET asked /\ objects \in SUBSET put /\ urls \in SUBSET asked
  /\ asked \in SUBSET Media /\ put \in SUBSET asked
  /\ resigned \in SUBSET Media /\ forgone \in SUBSET asked
  /\ links \in SUBSET AllLinks
  /\ \A l \in links : l.event \in saved /\ l.medium \in rows
  /\ saved \in SUBSET Events /\ hidden \in SUBSET saved
  /\ DOMAIN call = Calls
  /\ \A c \in Calls :
       \/ call[c] = Idle
       \/ /\ call[c] \in [op : {"presign", "confirm", "update", "file"}, medium : Media,
                          pc : {"sign", "stat", "save", "remove", "find", "erase"},
                          tries : 0..MaxAttempts - 1]
          /\ At(c, "sign") => call[c].op = "presign" /\ call[c].medium \in asked
          /\ call[c].op \in {"confirm", "update"} => call[c].medium \in asked
       \/ /\ call[c] \in [op : {"attach"}, pc : {"attach"}, link : AllLinks, seen : SUBSET AllLinks]
          /\ call[c].link.event \in saved
  /\ faults \in 0..MaxFaults

\* An event has one banner from its creation on, however its replacements overlap and
\* fail.
OneBanner == \A e \in saved : Cardinality(Banners(e)) = 1

\* An object in storage without a row, that nobody will find again, had its row removed
\* by a confirmation, or its client put it when the row was gone or already given up.  In
\* particular, to give a banner up never leaves the object that it had, wherever it fails.
OrphansExcused == objects \ rows \subseteq forgone

\* What an event shows is in storage once it was there, unless somebody deleted the
\* file, or an event, perhaps another, was told a new banner when it was its banner.
PicturesKept == \A l \in links : l.medium \in put \ objects => l.medium \in resigned
=============================================================================
