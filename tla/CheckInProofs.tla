--------------------------- MODULE CheckInProofs ---------------------------
(***************************************************************************)
(* Theorems about CheckIn for any number of processes, gates, tickets,     *)
(* events and codes.                                                       *)
(***************************************************************************)
EXTENDS CheckIn, TLAPS

\* What a request knows at its stage.  Each conjunct is about requests in
\* progress, and about what others may have done since they last looked.
ScanInv ==
  \* A code that was accepted was issued; processes remember what they issued.
  /\ \A p \in Procs : issued[p] \subseteq minted
  /\ \A g \in Gates : scan[g].pc \in {"find", "mark"} => scan[g].qr \in minted
  \* A scan that is about to mark its ticket has found it, for the code's event.
  /\ \A g \in Gates :
       scan[g].pc = "mark" =>
         scan[g].qr.ticket \in rows /\ EventOf[scan[g].qr.ticket] = scan[g].qr.event
  /\ OnlyGenuine

\* A ticket that lets somebody in, or is about to, is used: by one scan.
OnceInv ==
  /\ \A t \in Tickets : admits[t] > 0 => t \in used
  /\ \A g \in Gates, t \in Tickets : Granted(g, t) => t \in used /\ admits[t] = 0
  /\ \A g, h \in Gates, t \in Tickets : Granted(g, t) /\ Granted(h, t) => g = h
  /\ AdmittedOnce

\* A code is remembered by one process, and by none once it was revoked.
RevokedInv ==
  /\ \A p \in Procs : issued[p] \subseteq minted \ revoked
  /\ \A p, r \in Procs : p # r => issued[p] \cap issued[r] = {}

-----------------------------------------------------------------------------
(***************************************************************************)
(* Types.                                                                  *)
(***************************************************************************)

\* A request that is not idle is about a code and a process.
LEMMA ScanFields ==
  ASSUME TypeOK, NEW g \in Gates, scan[g].pc # "idle"
  PROVE  /\ scan[g].qr \in QRs /\ scan[g].qr.ticket \in Tickets
         /\ scan[g].proc \in Procs
         /\ scan[g] # Idle
  BY DEF TypeOK, Scans, Idle, QRs

\* A request that is not idle is a scan at its stage or waits for its answer.
LEMMA ScanRecord ==
  ASSUME TypeOK, NEW g \in Gates
  PROVE  scan[g].pc \in {"find", "mark"} =>
           scan[g] \in [pc : {"find", "mark"}, qr : QRs, proc : Procs]
<1>1. scan[g] \in Scans
  BY DEF TypeOK
<1>2. \A r \in [pc : {"answer"}, qr : QRs, proc : Procs, answer : Answers] : r.pc = "answer"
  OBVIOUS
<1>3. scan[g] # Idle => scan[g].pc = "answer"
                        \/ scan[g] \in [pc : {"find", "mark"}, qr : QRs, proc : Procs]
  BY <1>1, <1>2 DEF Scans
<1> QED
  BY <1>3 DEF Idle

\* The replies of validateTicket are requests that wait for their answer.
LEMMA ReplyTyped ==
  ASSUME TypeOK, NEW g \in Gates, NEW p \in Procs, NEW q \in QRs, NEW a \in Answers,
         Reply(g, p, q, a)
  PROVE  scan' \in [Gates -> Scans]
  BY DEF TypeOK, Reply, Scans

\* The variables start with their types.
LEMMA TypeInit == Init => TypeOK
  BY DEF Init, TypeOK, Scans

\* Every step keeps the types; that a used ticket has been saved rests on what
\* the scan that marks it has found.
LEMMA TypeNext == TypeOK /\ ScanInv /\ [Next]_vars => TypeOK'
<1> SUFFICES ASSUME TypeOK, ScanInv, [Next]_vars PROVE TypeOK'
  OBVIOUS
<1>1. ASSUME NEW p \in Procs, NEW q \in QRs, Generate(p, q) PROVE TypeOK'
  BY <1>1 DEF TypeOK, Generate
<1>2. ASSUME NEW p \in Procs, NEW q \in QRs, Revoke(p, q) PROVE TypeOK'
  BY <1>2 DEF TypeOK, Revoke, Without, ScanInv
<1>3. ASSUME NEW t \in Tickets, SaveTicket(t) PROVE TypeOK'
  BY <1>3 DEF TypeOK, SaveTicket, codes
<1>4. ASSUME NEW g \in Gates, NEW p \in Procs, NEW q \in QRs, Decode(g, p, q) PROVE TypeOK'
  <2>1. CASE Begin(g, p, q)
    BY <1>4, <2>1 DEF TypeOK, Decode, Begin, Scans, codes
  <2>2. CASE Reply(g, p, q, "bad signature")
    <3>1. scan' \in [Gates -> Scans]
      BY <2>2, ReplyTyped DEF Answers
    <3> QED
      BY <1>4, <3>1 DEF TypeOK, Decode, codes
  <2> QED
    BY <1>4, <2>1, <2>2 DEF Decode
<1>5. ASSUME NEW g \in Gates, FindTicket(g) PROVE TypeOK'
  <2>1. scan[g].qr \in QRs /\ scan[g].proc \in Procs /\ scan[g].pc = "find"
    BY <1>5, ScanFields DEF FindTicket
  <2>2. ASSUME NEW a \in Answers, Reply(g, scan[g].proc, scan[g].qr, a) PROVE TypeOK'
    <3>1. scan' \in [Gates -> Scans]
      BY <2>1, <2>2, ReplyTyped
    <3> QED
      BY <1>5, <3>1 DEF TypeOK, FindTicket, codes
  <2>3. CASE scan' = [scan EXCEPT ![g].pc = "mark"]
    <3>1. [scan[g] EXCEPT !.pc = "mark"] \in Scans
      BY <2>1 DEF TypeOK, Scans, Idle
    <3>2. scan' \in [Gates -> Scans]
      BY <2>3, <3>1 DEF TypeOK
    <3> QED
      BY <1>5, <3>2 DEF TypeOK, FindTicket, codes
  <2> QED
    BY <1>5, <2>2, <2>3 DEF FindTicket, Answers
<1>6. ASSUME NEW g \in Gates, MarkUsed(g) PROVE TypeOK'
  <2>1. /\ scan[g].qr \in QRs /\ scan[g].proc \in Procs
        /\ scan[g].qr.ticket \in rows
    BY <1>6, ScanFields DEF MarkUsed, ScanInv
  <2>2. scan' \in [Gates -> Scans]
    BY <1>6, <2>1, ReplyTyped DEF MarkUsed, Answers
  <2> QED
    BY <1>6, <2>1, <2>2 DEF TypeOK, MarkUsed, Marks, codes
<1>7. ASSUME NEW g \in Gates, Answer(g) PROVE TypeOK'
  BY <1>7, ScanFields DEF TypeOK, Answer, Scans, codes
<1>8. ASSUME NEW p \in Procs, Restart(p) PROVE TypeOK'
  BY <1>8 DEF TypeOK, Restart, Scans
<1>9. CASE UNCHANGED vars
  BY <1>9 DEF TypeOK, vars, codes
<1> QED
  BY <1>1, <1>2, <1>3, <1>4, <1>5, <1>6, <1>7, <1>8, <1>9 DEF Next

-----------------------------------------------------------------------------
(***************************************************************************)
(* What requests know.                                                     *)
(***************************************************************************)

\* A request moves from stage to stage and keeps its code and its process.
LEMMA ReplyFields ==
  ASSUME TypeOK, NEW g \in Gates, NEW p, NEW q, NEW a, Reply(g, p, q, a)
  PROVE  /\ scan'[g].pc = "answer" /\ scan'[g].qr = q /\ scan'[g].answer = a
         /\ \A h \in Gates \ {g} : scan'[h] = scan[h]
  BY DEF TypeOK, Reply

\* No request knows anything at the start.
LEMMA ScanInit == Init => ScanInv
  BY DEF Init, ScanInv, OnlyGenuine, Granted, Idle

\* Codes are never unissued and tickets never removed, so what a request found
\* stays true while others run.
LEMMA ScanNext == TypeOK /\ ScanInv /\ [Next]_vars => ScanInv'
<1> SUFFICES ASSUME TypeOK, ScanInv, [Next]_vars PROVE ScanInv'
  OBVIOUS
<1> USE DEF ScanInv, OnlyGenuine, Granted
<1>1. ASSUME NEW p \in Procs, NEW q \in QRs, Generate(p, q) PROVE ScanInv'
  BY <1>1 DEF TypeOK, Generate
<1>2. ASSUME NEW p \in Procs, NEW q \in QRs, Revoke(p, q) PROVE ScanInv'
  BY <1>2 DEF TypeOK, Revoke, Without
<1>3. ASSUME NEW t \in Tickets, SaveTicket(t) PROVE ScanInv'
  BY <1>3 DEF SaveTicket, codes
<1>4. ASSUME NEW g \in Gates, NEW p \in Procs, NEW q \in QRs, Decode(g, p, q) PROVE ScanInv'
  <2>1. CASE q \in issued[p] /\ Begin(g, p, q)
    <3>1. /\ scan'[g].pc = "find" /\ scan'[g].qr = q
          /\ \A h \in Gates \ {g} : scan'[h] = scan[h]
      BY <2>1 DEF Begin, TypeOK
    <3> QED
      BY <1>4, <2>1, <3>1 DEF Decode, codes
  <2>2. CASE Reply(g, p, q, "bad signature")
    <3>1. /\ scan'[g].pc = "answer" /\ scan'[g].answer = "bad signature"
          /\ \A h \in Gates \ {g} : scan'[h] = scan[h]
      BY <2>2 DEF Reply, TypeOK
    <3> QED
      BY <1>4, <3>1 DEF Decode, codes
  <2> QED
    BY <1>4, <2>1, <2>2 DEF Decode
<1>5. ASSUME NEW g \in Gates, FindTicket(g) PROVE ScanInv'
  <2>1. ASSUME NEW a, a # "VALID", Reply(g, scan[g].proc, scan[g].qr, a) PROVE ScanInv'
    <3>1. /\ scan'[g].pc = "answer" /\ scan'[g].answer = a
          /\ \A h \in Gates \ {g} : scan'[h] = scan[h]
      BY <2>1, ReplyFields
    <3>2. UNCHANGED <<issued, minted, rows>>
      BY <1>5 DEF FindTicket, codes
    <3> QED
      BY <2>1, <3>1, <3>2
  <2>2. CASE /\ Saved(scan[g].qr.ticket) /\ SameEvent(scan[g].qr)
             /\ scan' = [scan EXCEPT ![g].pc = "mark"]
    <3>1. scan[g] \in [pc : {"find", "mark"}, qr : QRs, proc : Procs]
      BY <1>5, ScanRecord DEF FindTicket
    <3>2. /\ scan'[g].pc = "mark" /\ scan'[g].qr = scan[g].qr
          /\ \A h \in Gates \ {g} : scan'[h] = scan[h]
      BY <2>2, <3>1 DEF TypeOK
    <3>3. UNCHANGED <<issued, minted, rows>> /\ scan[g].pc = "find"
      BY <1>5 DEF FindTicket, codes
    <3>4. /\ scan[g].qr \in minted /\ scan[g].qr.ticket \in rows
          /\ EventOf[scan[g].qr.ticket] = scan[g].qr.event
      BY <2>2, <3>3 DEF Saved, SameEvent
    <3> QED
      BY <3>2, <3>3, <3>4
  <2> QED
    BY <1>5, <2>1, <2>2 DEF FindTicket
<1>6. ASSUME NEW g \in Gates, MarkUsed(g) PROVE ScanInv'
  <2>1. PICK a : Reply(g, scan[g].proc, scan[g].qr, a)
    BY <1>6 DEF MarkUsed
  <2> QED
    BY <1>6, <2>1, ReplyFields DEF MarkUsed, codes
<1>7. ASSUME NEW g \in Gates, Answer(g) PROVE ScanInv'
  BY <1>7 DEF TypeOK, Answer, Idle, codes
<1>8. ASSUME NEW p \in Procs, Restart(p) PROVE ScanInv'
  BY <1>8 DEF TypeOK, Restart, Idle
<1>9. CASE UNCHANGED vars
  BY <1>9 DEF vars, codes
<1> QED
  BY <1>1, <1>2, <1>3, <1>4, <1>5, <1>6, <1>7, <1>8, <1>9 DEF Next

\* Codes, rows and requests always have their types.
THEOREM CheckInTypes == Spec => []TypeOK
<1>1. Spec => [](TypeOK /\ ScanInv)
  BY TypeInit, ScanInit, TypeNext, ScanNext, PTL DEF Spec
<1> QED
  BY <1>1, PTL

\* Requests always know what their stage takes for granted.
LEMMA ScanInvariant == Spec => []ScanInv
<1>1. Spec => [](TypeOK /\ ScanInv)
  BY TypeInit, ScanInit, TypeNext, ScanNext, PTL DEF Spec
<1> QED
  BY <1>1, PTL

\* Whoever is let in has shown a code that was issued for the event of a saved
\* ticket, although code and row are looked at in different steps.
THEOREM GenuineOnly == Spec => []OnlyGenuine
  BY ScanInvariant, PTL DEF ScanInv

-----------------------------------------------------------------------------
(***************************************************************************)
(* One ticket, one admission.                                              *)
(***************************************************************************)

\* A step that changes neither `used` nor `admits`, and grants nothing new,
\* keeps what was granted once.
LEMMA OnceKept ==
  ASSUME OnceInv, UNCHANGED <<used, admits>>,
         \A g \in Gates, t \in Tickets : Granted(g, t)' => Granted(g, t)
  PROVE  OnceInv'
  BY DEF OnceInv, AdmittedOnce

\* A reply other than VALID grants nothing.
LEMMA RefusalGrantsNothing ==
  ASSUME TypeOK, NEW g \in Gates, NEW p, NEW q, NEW a, a # "VALID", Reply(g, p, q, a)
  PROVE  \A h \in Gates, t \in Tickets : Granted(h, t)' => Granted(h, t)
  BY ReplyFields DEF Granted

\* Nobody was let in at the start.
LEMMA OnceInit == Init => OnceInv
  BY DEF Init, OnceInv, AdmittedOnce, Granted, Idle

\* Only the update grants admission: of a ticket that was not used, for which
\* therefore no other gate has been granted it, or has let anybody in.
LEMMA OnceNext == TypeOK /\ OnceInv /\ [Next]_vars => OnceInv'
<1> SUFFICES ASSUME TypeOK, OnceInv, [Next]_vars PROVE OnceInv'
  OBVIOUS
<1>1. ASSUME NEW p \in Procs, NEW q \in QRs, Generate(p, q) \/ Revoke(p, q) PROVE OnceInv'
  BY <1>1, OnceKept DEF Generate, Revoke, Granted
<1>2. ASSUME NEW t \in Tickets, SaveTicket(t) PROVE OnceInv'
  BY <1>2, OnceKept DEF SaveTicket, Granted
<1>3. ASSUME NEW g \in Gates, NEW p \in Procs, NEW q \in QRs, Decode(g, p, q) PROVE OnceInv'
  <2>1. UNCHANGED <<used, admits>>
    BY <1>3 DEF Decode
  <2>2. CASE Begin(g, p, q)
    <3>1. scan'[g].pc = "find" /\ \A h \in Gates \ {g} : scan'[h] = scan[h]
      BY <2>2 DEF Begin, TypeOK
    <3> QED
      BY <2>1, <3>1, OnceKept DEF Granted
  <2>3. CASE Reply(g, p, q, "bad signature")
    BY <2>1, <2>3, RefusalGrantsNothing, OnceKept
  <2> QED
    BY <1>3, <2>2, <2>3 DEF Decode
<1>4. ASSUME NEW g \in Gates, FindTicket(g) PROVE OnceInv'
  <2>1. UNCHANGED <<used, admits>> /\ scan[g].pc = "find"
    BY <1>4 DEF FindTicket
  <2>2. ASSUME NEW a, a # "VALID", Reply(g, scan[g].proc, scan[g].qr, a) PROVE OnceInv'
    BY <2>1, <2>2, RefusalGrantsNothing, OnceKept
  <2>3. CASE scan' = [scan EXCEPT ![g].pc = "mark"]
    <3>1. scan'[g].pc = "mark" /\ \A h \in Gates \ {g} : scan'[h] = scan[h]
      BY <2>1, <2>3, ScanRecord DEF TypeOK
    <3> QED
      BY <2>1, <3>1, OnceKept DEF Granted
  <2> QED
    BY <1>4, <2>2, <2>3 DEF FindTicket
<1>5. ASSUME NEW g \in Gates, MarkUsed(g) PROVE OnceInv'
  <2> DEFINE mine == scan[g].qr.ticket
  <2>1. UNCHANGED admits /\ scan[g].pc = "mark" /\ mine \in Tickets
    BY <1>5, ScanFields DEF MarkUsed
  <2>2. CASE ~Unused(mine)
    <3>1. UNCHANGED used /\ Reply(g, scan[g].proc, scan[g].qr, "ALREADY_USED")
      BY <1>5, <2>2 DEF MarkUsed
    <3> QED
      BY <2>1, <3>1, RefusalGrantsNothing, OnceKept
  <2>3. CASE Unused(mine)
    <3>1. /\ used' = used \cup {mine}
          /\ Reply(g, scan[g].proc, scan[g].qr, "VALID")
      BY <1>5, <2>3 DEF MarkUsed, Marks
    <3>2. \A h \in Gates, t \in Tickets :
            Granted(h, t)' => IF h = g THEN t = mine ELSE Granted(h, t)
      BY <3>1, ReplyFields DEF Granted
    <3>3. mine \notin used /\ admits[mine] = 0
      BY <2>1, <2>3 DEF Unused, OnceInv, TypeOK
    <3>4. \A h \in Gates : ~Granted(h, mine)
      BY <2>1, <3>3 DEF OnceInv
    <3> HIDE DEF mine
    <3> QED
      BY <2>1, <3>1, <3>2, <3>3, <3>4 DEF OnceInv, AdmittedOnce
  <2> QED
    BY <2>2, <2>3
<1>6. ASSUME NEW g \in Gates, Answer(g) PROVE OnceInv'
  <2>1. /\ scan[g].pc = "answer" /\ UNCHANGED used /\ scan'[g] = Idle
        /\ \A h \in Gates \ {g} : scan'[h] = scan[h]
    BY <1>6 DEF Answer, codes, TypeOK
  <2>2. \A h \in Gates, t \in Tickets : Granted(h, t)' => h # g /\ Granted(h, t)
    BY <2>1 DEF Granted, Idle
  <2>3. CASE scan[g].answer # "VALID"
    BY <1>6, <2>1, <2>2, <2>3, OnceKept DEF Answer
  <2>4. CASE scan[g].answer = "VALID"
    <3> DEFINE mine == scan[g].qr.ticket
    <3>1. mine \in Tickets /\ Granted(g, mine)
      BY <2>1, <2>4, ScanFields DEF Granted
    <3>2. admits' = [admits EXCEPT ![mine] = @ + 1]
      BY <1>6, <2>4 DEF Answer
    <3>3. mine \in used /\ admits[mine] = 0 /\ \A h \in Gates \ {g} : ~Granted(h, mine)
      BY <3>1 DEF OnceInv
    <3> HIDE DEF mine
    <3>4. admits'[mine] = 1 /\ \A t \in Tickets \ {mine} : admits'[t] = admits[t]
      BY <3>1, <3>2, <3>3 DEF TypeOK
    <3> QED
      BY <2>1, <2>2, <3>1, <3>3, <3>4 DEF OnceInv, AdmittedOnce
  <2> QED
    BY <2>3, <2>4
<1>7. ASSUME NEW p \in Procs, Restart(p) PROVE OnceInv'
  <2>1. \A g \in Gates : scan'[g] = Idle \/ scan'[g] = scan[g]
    BY <1>7 DEF Restart
  <2> QED
    BY <1>7, <2>1, OnceKept DEF Restart, Granted, Idle
<1>8. CASE UNCHANGED vars
  BY <1>8, OnceKept DEF vars, Granted
<1> QED
  BY <1>1, <1>2, <1>3, <1>4, <1>5, <1>6, <1>7, <1>8 DEF Next

\* One ticket lets one holder in, however many gates scan it, with whatever
\* codes, and through restarts between the update and the answer.
THEOREM AdmittedAtMostOnce == Spec => []AdmittedOnce
<1>1. Spec => [](TypeOK /\ ScanInv /\ OnceInv)
  BY TypeInit, ScanInit, OnceInit, TypeNext, ScanNext, OnceNext, PTL DEF Spec
<1>2. OnceInv => AdmittedOnce
  BY DEF OnceInv
<1> QED
  BY <1>1, <1>2, PTL

-----------------------------------------------------------------------------
(***************************************************************************)
(* Revoked codes.                                                          *)
(***************************************************************************)

\* No process remembers a code at the start.
LEMMA RevokedInit == Init => RevokedInv
  BY DEF Init, RevokedInv

\* A code is issued once, by one process, and that process forgets it.
LEMMA RevokedNext == TypeOK /\ RevokedInv /\ [Next]_vars => RevokedInv'
<1> SUFFICES ASSUME TypeOK, RevokedInv, [Next]_vars PROVE RevokedInv'
  OBVIOUS
<1> USE DEF RevokedInv
<1>1. ASSUME NEW p \in Procs, NEW q \in QRs, Generate(p, q) PROVE RevokedInv'
  <2>1. q \notin revoked
    BY <1>1 DEF Generate, TypeOK
  <2>2. issued'[p] = issued[p] \cup {q} /\ \A r \in Procs \ {p} : issued'[r] = issued[r]
    BY <1>1 DEF Generate, TypeOK
  <2> QED
    BY <1>1, <2>1, <2>2 DEF Generate
<1>2. ASSUME NEW p \in Procs, NEW q \in QRs, Revoke(p, q) PROVE RevokedInv'
  <2>1. issued'[p] = issued[p] \ {q} /\ \A r \in Procs \ {p} : issued'[r] = issued[r]
    BY <1>2 DEF Revoke, Without, TypeOK
  <2>2. \A r \in Procs \ {p} : q \notin issued[r]
    BY <1>2 DEF Revoke
  <2> QED
    BY <1>2, <2>1, <2>2 DEF Revoke
<1>3. ASSUME NEW p \in Procs, Restart(p) PROVE RevokedInv'
  BY <1>3 DEF Restart, TypeOK
<1>4. CASE UNCHANGED codes
  BY <1>4 DEF codes
<1>5. (\E t \in Tickets : SaveTicket(t)) \/ UNCHANGED vars => UNCHANGED codes
  BY DEF SaveTicket, vars
<1>6. ASSUME NEW g \in Gates PROVE FindTicket(g) \/ MarkUsed(g) \/ Answer(g) => UNCHANGED codes
  BY DEF FindTicket, MarkUsed, Answer
<1>7. ASSUME NEW g \in Gates, NEW p \in Procs, NEW q \in QRs, Decode(g, p, q)
      PROVE  UNCHANGED codes
  BY <1>7 DEF Decode
<1> QED
  BY <1>1, <1>2, <1>3, <1>4, <1>5, <1>6, <1>7 DEF Next

\* Only a code that some process remembers begins a scan.
LEMMA BeginsRemembered ==
  ASSUME TypeOK, RevokedInv, Next, NEW g \in Gates, scan[g] = Idle, scan'[g].pc = "find"
  PROVE  scan'[g].qr \notin revoked
<1>1. CASE \E h \in Gates, p \in Procs, q \in QRs : Decode(h, p, q)
  <2>1. PICK h \in Gates, p \in Procs, q \in QRs : Decode(h, p, q)
    BY <1>1
  <2>2. CASE q \in issued[p] /\ Begin(h, p, q)
    <3>1. \A k \in Gates : scan'[k] = IF k = h THEN [pc |-> "find", qr |-> q, proc |-> p]
                                               ELSE scan[k]
      BY <2>2 DEF Begin, TypeOK
    <3>2. g = h
      BY <3>1 DEF Idle
    <3> QED
      BY <2>2, <3>1, <3>2 DEF RevokedInv
  <2>3. CASE Reply(h, p, q, "bad signature")
    <3>1. scan'[h].pc = "answer" /\ \A k \in Gates \ {h} : scan'[k] = scan[k]
      BY <2>3 DEF Reply, TypeOK
    <3>2. scan'[g].pc = "answer" \/ scan'[g] = scan[g]
      BY <3>1
    <3>3. scan'[g].pc # "find"
      BY <3>2 DEF Idle
    <3> QED
      BY <3>3
  <2> QED
    BY <2>1, <2>2, <2>3 DEF Decode
<1>2. CASE \E h \in Gates : FindTicket(h) \/ MarkUsed(h) \/ Answer(h)
  <2>1. PICK h \in Gates : FindTicket(h) \/ MarkUsed(h) \/ Answer(h)
    BY <1>2
  <2>2. h # g
    <3>1. scan[h].pc \in {"find", "mark", "answer"}
      BY <2>1 DEF FindTicket, MarkUsed, Answer
    <3> QED
      BY <3>1 DEF Idle
  <2>3. scan'[g] = scan[g]
    BY <2>1, <2>2 DEF FindTicket, MarkUsed, Answer, Reply, TypeOK
  <2> QED
    BY <2>3 DEF Idle
<1>3. CASE \E p \in Procs : Restart(p)
  BY <1>3 DEF Restart, Idle
<1>4. CASE UNCHANGED scan
  BY <1>4 DEF Idle
<1>5. ASSUME NEW p \in Procs, NEW q \in QRs PROVE Generate(p, q) \/ Revoke(p, q) => UNCHANGED scan
  BY DEF Generate, Revoke
<1>6. ASSUME NEW t \in Tickets PROVE SaveTicket(t) => UNCHANGED scan
  BY DEF SaveTicket
<1> QED
  BY <1>1, <1>2, <1>3, <1>4, <1>5, <1>6 DEF Next

\* A revoked code begins no scan at any process, although each remembers only
\* the codes it issued itself.
THEOREM RevokedStaysRefused == Spec => RevokedRefused
<1> DEFINE Refused ==
      \A g \in Gates :
        scan[g] = Idle /\ scan'[g].pc = "find" => scan'[g].qr \notin revoked
<1>1. TypeOK /\ RevokedInv /\ [Next]_vars => [Refused]_scan
  BY BeginsRemembered DEF vars
<1>2. Spec => [](TypeOK /\ ScanInv /\ RevokedInv)
  BY TypeInit, ScanInit, RevokedInit, TypeNext, ScanNext, RevokedNext, PTL DEF Spec
<1> QED
  BY <1>1, <1>2, PTL DEF Spec, RevokedRefused
=============================================================================
