------------------------------ MODULE CheckIn ------------------------------
(***************************************************************************)
(* Check-in at the gates (src/src/modules/check-in/check-in.service.ts)    *)
(* and the QR codes it accepts (src/src/modules/qr-code/qr-code.service.ts)*)
(*                                                                         *)
(* A QR code carries a ticket, an event and a signature.  The signature    *)
(* has a random nonce and is not computed again: a process accepts the     *)
(* codes it remembers to have issued.  A scan decodes the code, finds the  *)
(* ticket and marks it used; between these awaits other requests run, and  *)
(* processes may be restarted.                                             *)
(***************************************************************************)
EXTENDS Naturals

CONSTANTS
  Procs,     \* processes of the application
  Gates,     \* requests for check-in that may be in progress at a time
  Tickets,   \* ids of generated tickets
  Events,
  EventOf,   \* EventOf[t]: the event of ticket t
  Nonces     \* bound on the codes issued for a ticket and an event

ASSUME CheckInAssumption == EventOf \in [Tickets -> Events]

VARIABLES
  issued,    \* issued[p]: `issuedSignatures` of process p
  minted,    \* the codes that were ever issued
  revoked,   \* the codes whose revocation was confirmed
  rows,      \* tickets that have been saved
  used,      \* tickets whose column `isUsed` is set
  scan,      \* scan[g]: what request g is doing
  admits     \* admits[t]: how often somebody was let in with ticket t

codes == <<issued, minted, revoked>>
vars == <<codes, rows, used, scan, admits>>

QRs == [ticket : Tickets, event : Events, nonce : Nonces]

Answers == {"VALID", "ALREADY_USED", "bad signature", "not found", "other event",
            "no ticket type"}

Idle == [pc |-> "idle"]

Scans ==
  {Idle}
    \cup [pc : {"find", "mark"}, qr : QRs, proc : Procs]
    \cup [pc : {"answer"}, qr : QRs, proc : Procs, answer : Answers]

Begin(g, p, q) == scan' = [scan EXCEPT ![g] = [pc |-> "find", qr |-> q, proc |-> p]]

Reply(g, p, q, a) ==
  scan' = [scan EXCEPT ![g] = [pc |-> "answer", qr |-> q, proc |-> p, answer |-> a]]

-----------------------------------------------------------------------------
(***************************************************************************)
(* QR codes.                                                               *)
(***************************************************************************)

\* generate, for a ticket of a paid order that is about to be saved, or for
\* whatever ticket and event POST /qr/generate names.
Generate(p, q) ==
  /\ q \notin minted
  /\ issued' = [issued EXCEPT ![p] = @ \cup {q}]
  /\ minted' = minted \cup {q}
  /\ UNCHANGED <<revoked, rows, used, scan, admits>>

\* generateTicketsForOrder saves the ticket after its code was issued.
SaveTicket(t) ==
  /\ t \notin rows
  /\ \E q \in minted : q.ticket = t
  /\ rows' = rows \cup {t}
  /\ UNCHANGED <<codes, used, scan, admits>>

\* Slip: the set that remembers the code is forgotten only if it runs empty.
WithoutIfLast(S, q) == IF S = {q} THEN {} ELSE S

Without(S, q) == S \ {q}

\* revoke, by a process that remembers the code; any other changes nothing.
Revoke(p, q) ==
  /\ q \in issued[p]
  /\ issued' = [issued EXCEPT ![p] = Without(@, q)]
  /\ revoked' = revoked \cup {q}
  /\ UNCHANGED <<minted, rows, used, scan, admits>>

-----------------------------------------------------------------------------
(***************************************************************************)
(* validateTicket, which processPdfTicket calls as well.                   *)
(***************************************************************************)

\* decode, by the process that has got the request.
Decode(g, p, q) ==
  /\ scan[g] = Idle
  /\ IF q \in issued[p] THEN Begin(g, p, q) ELSE Reply(g, p, q, "bad signature")
  /\ UNCHANGED <<codes, rows, used, admits>>

\* Slip: the event of the code is not compared.
AnyEvent(q) == TRUE

SameEvent(q) == EventOf[q.ticket] = q.event

\* Slip: nobody looks whether a ticket was found.
AnyTicket(t) == TRUE

Saved(t) == t \in rows

\* A scan may also find that the ticket type has been removed in the meantime:
\* then there is no event to compare, and the request ends with an error.
FindTicket(g) ==
  LET q == scan[g].qr
      p == scan[g].proc
  IN
  /\ scan[g].pc = "find"
  /\ \/ ~Saved(q.ticket) /\ Reply(g, p, q, "not found")
     \/ Saved(q.ticket) /\ Reply(g, p, q, "no ticket type")
     \/ Saved(q.ticket) /\ ~SameEvent(q) /\ Reply(g, p, q, "other event")
     \/ Saved(q.ticket) /\ SameEvent(q) /\ scan' = [scan EXCEPT ![g].pc = "mark"]
  /\ UNCHANGED <<codes, rows, used, admits>>

\* Slip: the update does not demand isUsed = false.
AnyRow(t) == TRUE

Unused(t) == t \notin used

Marks(t) == {t}

\* UPDATE ... SET isUsed = true WHERE id = ... AND isUsed = false.
MarkUsed(g) ==
  LET q == scan[g].qr
      p == scan[g].proc
  IN
  /\ scan[g].pc = "mark"
  /\ IF Unused(q.ticket)
     THEN used' = used \cup Marks(q.ticket) /\ Reply(g, p, q, "VALID")
     ELSE UNCHANGED used /\ Reply(g, p, q, "ALREADY_USED")
  /\ UNCHANGED <<codes, rows, admits>>

\* The gate has its answer, and lets the holder in if it is VALID.
Answer(g) ==
  /\ scan[g].pc = "answer"
  /\ admits' = IF scan[g].answer = "VALID"
               THEN [admits EXCEPT ![scan[g].qr.ticket] = @ + 1] ELSE admits
  /\ scan' = [scan EXCEPT ![g] = Idle]
  /\ UNCHANGED <<codes, rows, used>>

\* A process ends, with its requests and the codes it remembers, and starts anew.
Restart(p) ==
  /\ issued' = [issued EXCEPT ![p] = {}]
  /\ scan' = [g \in Gates |-> IF scan[g] # Idle /\ scan[g].proc = p THEN Idle ELSE scan[g]]
  /\ UNCHANGED <<minted, revoked, rows, used, admits>>

-----------------------------------------------------------------------------
Init ==
  /\ issued = [p \in Procs |-> {}]
  /\ minted = {} /\ revoked = {} /\ rows = {} /\ used = {}
  /\ scan = [g \in Gates |-> Idle]
  /\ admits = [t \in Tickets |-> 0]

Next ==
  \/ \E p \in Procs, q \in QRs : Generate(p, q) \/ Revoke(p, q)
  \/ \E t \in Tickets : SaveTicket(t)
  \/ \E g \in Gates, p \in Procs, q \in QRs : Decode(g, p, q)
  \/ \E g \in Gates : FindTicket(g) \/ MarkUsed(g) \/ Answer(g)
  \/ \E p \in Procs : Restart(p)

Spec == Init /\ [][Next]_vars
-----------------------------------------------------------------------------
(***************************************************************************)
(* Properties.                                                             *)
(***************************************************************************)

\* Codes, rows and requests have their types, and no ticket is used or admitted
\* with that was never saved.
TypeOK ==
  /\ issued \in [Procs -> SUBSET QRs]
  /\ minted \in SUBSET QRs /\ revoked \in SUBSET minted
  /\ rows \in SUBSET Tickets /\ used \in SUBSET rows
  /\ scan \in [Gates -> Scans]
  /\ admits \in [Tickets -> Nat]

\* A holder who is to be let in, but has not been told yet.
Granted(g, t) ==
  scan[g].pc = "answer" /\ scan[g].answer = "VALID" /\ scan[g].qr.ticket = t

\* One ticket lets one holder in: also if several gates scan it at once, with
\* different codes, at different processes, and through restarts.
AdmittedOnce == \A t \in Tickets : admits[t] <= 1

\* Whoever is let in has shown a code that was issued, for the event of its
\* ticket, and the ticket was saved.
OnlyGenuine ==
  \A g \in Gates, t \in Tickets :
    Granted(g, t) =>
      /\ scan[g].qr \in minted
      /\ scan[g].qr.event = EventOf[t]
      /\ t \in rows

\* A code that was revoked is not accepted by a scan that begins afterwards, at
\* whatever process.
RevokedRefused ==
  [][\A g \in Gates :
       scan[g] = Idle /\ scan'[g].pc = "find" => scan'[g].qr \notin revoked]_scan
=============================================================================
