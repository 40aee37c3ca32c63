----------------------------- MODULE Collection -----------------------------
(***************************************************************************)
(* The collection of moroz/GradedPolish2/sop-collection.c and, with        *)
(* PolLab, of orlov/lab2_prep/pol_lab.c: the first process forks boxes,    *)
(* each with a file, and then donors one after the other, telling each by  *)
(* a signal which box to take.  A donor appends its pid and its money with *)
(* two writes and signals the box, which reads the last two fields.        *)
(* SIGTERM ends the collection.                                            *)
(*                                                                         *)
(* MaxDonors bounds the donors, and the user sends SIGTERM once, to any    *)
(* process; Ctrl-C, which the donors take for a direction, is left out.    *)
(***************************************************************************)
EXTENDS Processes, Sequences

CONSTANTS
  Boxes,       \* n
  PolLab,      \* the variant of pol_lab.c
  MaxDonors

\* What the constants are.
CollectionConstants ==
  /\ Boxes \in 1 .. 4
  /\ 1 .. Boxes + 1 \subseteq Procs
  /\ PolLab \in BOOLEAN
  /\ MaxDonors \in Nat

Box   == 1 .. Boxes
Donor == Boxes + 1     \* the donor of now
Group == 0 .. Donor

Directions == {"USR1", "USR2", "PIPE", "INT"}

\* What differs between the two programs: the box, counted from 1, that a
\* signal directs a donor to; the places a box passes when it opens its file
\* and sets its handler and mask; the order of the two fields as they are
\* written and as they are read; the box of a donor that SIGTERM reaches, 0 to
\* go home.
SopDirection == [USR1 |-> 1, USR2 |-> 2, INT |-> 3, PIPE |-> 4]
PolDirection == [USR1 |-> 1, USR2 |-> 2, PIPE |-> 3, INT |-> 4]
Direction == IF PolLab THEN PolDirection ELSE SopDirection

SopStart == [file |-> <<"open", "ready">>, handler |-> <<"ready", "caught">>,
             mask |-> <<"caught", "suspended">>]
PolStart == [handler |-> <<"open", "caught">>, mask |-> <<"caught", "masked">>,
             file |-> <<"masked", "suspended">>]
Start == IF PolLab THEN PolStart ELSE SopStart

SopWrites == <<"pid", "money">>
PolWrites == <<"money", "pid">>
Writes == IF PolLab THEN PolWrites ELSE SopWrites

SopReads == [pid |-> 1, money |-> 2]
PolReads == [money |-> 1, pid |-> 2]
Reads == IF PolLab THEN PolReads ELSE SopReads

SopAfterTerm == 1
PolAfterTerm == 0
AfterTerm == IF PolLab THEN PolAfterTerm ELSE SopAfterTerm

\* donors: forked so far; term: last_signal of the first process is SIGTERM;
\* to: box of the donor; created, file: boxes that have a file, the fields
\* written to it, each with its donor; read: what the box has read; asked: the
\* user has sent SIGTERM.  Histories: thrown, the donors that signalled each
\* box; slow, boxes that met a signal before they were ready, or a second donor
\* or SIGTERM before they read the first; lost, boxes that handled SIGTERM and
\* the donor that handled its direction to no effect; cut, the last wait was
\* interrupted.
Init ==
  /\ at = OnlyFirst("boxes") /\ pending = NothingPending
  /\ mem = [donors |-> 0, term |-> FALSE, to |-> 0,
            created |-> {}, file |-> [b \in Box |-> <<>>], read |-> [b \in Box |-> <<>>],
            asked |-> FALSE, thrown |-> [b \in Box |-> <<>>],
            slow |-> {}, lost |-> {}, cut |-> FALSE]

UserTerm(p) ==
  /\ ~mem.asked /\ Live(p)
  /\ pending' = Signalled({p}, "TERM")
  /\ mem' = [mem EXCEPT !.asked = TRUE]
  /\ UNCHANGED at

TermToAll(p) == pending' = [Signalled(Group, "TERM") EXCEPT ![p] = {}]

\* A process that has not blocked SIGTERM handles it as the first one does.
HandlesTerm(p) ==
  /\ at[p] \in {"open", "ready", "new", "caught"}
  /\ IsPending(p, "TERM") /\ pending' = Taken(p, {"TERM"})
  /\ mem' = [mem EXCEPT !.lost = @ \cup ({p} \cap Box)]
  /\ UNCHANGED at

\* What comes between the handlers and the mask is handled, to no effect.
HandledTooSoon(p) ==
  /\ at[p] = "caught"
  /\ \E s \in Directions :
       /\ IsPending(p, s) /\ pending' = Taken(p, {s})
       /\ mem' = [mem EXCEPT !.lost = @ \cup ({p} \cap {Donor}), !.slow = @ \cup ({p} \cap Box)]
  /\ UNCHANGED at

\* A signal that nothing has been done about ends the process.
Killed(p, from) ==
  /\ at[p] \in from
  /\ \E r \in pending[p] : r.sig # "TERM"
  /\ at' = [at EXCEPT ![p] = "zombie"]
  /\ pending' = [pending EXCEPT ![p] = {}]
  /\ UNCHANGED mem

-----------------------------------------------------------------------------
\* Boxes.  sop-collection opens the file, then sets handler and mask; pol_lab
\* the other way round.

OpenFile(b) ==
  /\ Move(b, Start.file[1], Start.file[2])
  /\ mem' = [mem EXCEPT !.created = @ \cup {b}]
  /\ UNCHANGED pending

SetHandler(b) == Move(b, Start.handler[1], Start.handler[2]) /\ UNCHANGED <<pending, mem>>

SetMask(b) == Move(b, Start.mask[1], Start.mask[2]) /\ UNCHANGED <<pending, mem>>

\* sigsuspend: all that is pending is handled, and one handler is the last.
Wake(b) ==
  /\ \E r \in pending[b] :
       /\ Move(b, "suspended", IF r.sig = "TERM" THEN "term" ELSE "read")
       /\ mem' = [mem EXCEPT
                 !.lost = IF r.sig # "TERM" /\ IsPending(b, "TERM") THEN @ \cup {b} ELSE @,
                 !.slow = IF r.sig = "TERM" /\ IsPending(b, "USR1") THEN @ \cup {b} ELSE @]
  /\ pending' = [pending EXCEPT ![b] = {}]

ReadDonation_FromStart(b) ==
  /\ Move(b, "read", "suspended")
  /\ mem' = [mem EXCEPT !.read[b] = Append(@, [f \in {"pid", "money"} |-> mem.file[b][Reads[f]]])]
  /\ UNCHANGED pending

\* The eight bytes before the end of the file, taken for a pid and its money.
ReadDonation(b) ==
  /\ Move(b, "read", "suspended")
  /\ LET before == Len(mem.file[b]) - 2
     IN mem' = [mem EXCEPT !.read[b] =
                  Append(@, [f \in {"pid", "money"} |-> mem.file[b][before + Reads[f]]])]
  /\ UNCHANGED pending

BoxTerm(b) ==
  /\ Move(b, "term", "zombie")
  /\ TermToAll(b) /\ UNCHANGED mem

BoxStep(b) ==
  \/ OpenFile(b) \/ SetHandler(b) \/ SetMask(b) \/ Wake(b) \/ ReadDonation(b) \/ BoxTerm(b)
  \/ HandledTooSoon(b) \/ HandlesTerm(b) \/ Killed(b, {"open", "ready"})

-----------------------------------------------------------------------------
\* The donor.

DonorReady ==
  /\ \/ Move(Donor, "new", "caught") \/ Move(Donor, "caught", "suspended")
  /\ UNCHANGED <<pending, mem>>

\* The donor goes to a box, or home if there is none of that number.
GoesTo(b) ==
  /\ Move(Donor, "suspended", IF b \in Box THEN "throw" ELSE "zombie")
  /\ mem' = [mem EXCEPT !.to = IF b \in Box THEN b ELSE 0]

Directed ==
  \E r \in pending[Donor] :
    IF r.sig = "TERM"
    THEN GoesTo(AfterTerm) /\ TermToAll(Donor)
    ELSE GoesTo(Direction[r.sig]) /\ pending' = [pending EXCEPT ![Donor] = {}]

\* A box without a file: the donor kills the whole group.
NoFile ==
  /\ at[Donor] = "throw" /\ mem.to \notin mem.created
  /\ at' = [p \in Procs |-> IF p \in Group /\ Live(p) THEN "zombie" ELSE at[p]]
  /\ pending' = NothingPending
  /\ UNCHANGED mem

Busy(b) == at[b] \in {"read", "term"} \/ IsPending(b, "USR1")

Write(field, from, to) ==
  /\ Move(Donor, from, to) /\ mem.to \in mem.created
  /\ mem' = [mem EXCEPT !.file[mem.to] = Append(@, <<mem.donors, field>>),
                        !.slow = IF Busy(mem.to) THEN @ \cup {mem.to} ELSE @]
  /\ UNCHANGED pending

WriteFirst  == Write(Writes[1], "throw", "half")
WriteSecond == Write(Writes[2], "half", "thrown")

ThrowIn ==
  /\ Move(Donor, "thrown", "zombie")
  /\ pending' = [Signalled({mem.to}, "USR1") EXCEPT ![Donor] = {}]
  /\ mem' = [mem EXCEPT !.thrown[mem.to] = Append(@, mem.donors), !.to = 0]

DonorStep ==
  \/ DonorReady \/ HandledTooSoon(Donor) \/ HandlesTerm(Donor) \/ Killed(Donor, {"new"})
  \/ Directed \/ NoFile \/ WriteFirst \/ WriteSecond \/ ThrowIn

-----------------------------------------------------------------------------
\* The first process.

ForkBox(b) ==
  /\ at[0] = "boxes" /\ at[b] = "none" /\ (b > 1 => at[b - 1] # "none")
  /\ at' = [at EXCEPT ![b] = "open", ![0] = IF b = Boxes THEN "hire" ELSE "boxes"]
  /\ UNCHANGED <<pending, mem>>

ForkDonor ==
  /\ at[0] = "hire" /\ (mem.donors < MaxDonors \/ mem.term)
  /\ at' = [at EXCEPT ![0] = "direct", ![Donor] = "new"]
  /\ mem' = [mem EXCEPT !.donors = @ + 1, !.to = 0, !.lost = @ \ {Donor}]
  /\ UNCHANGED pending

Direct(s) ==
  /\ Move(0, "direct", "await") /\ pending' = Signalled({Donor}, s)
  /\ UNCHANGED mem

AwaitDonor ==
  /\ at[0] = "await" /\ at[Donor] = "zombie"
  /\ at' = [at EXCEPT ![0] = "test", ![Donor] = "reaped"]
  /\ UNCHANGED <<pending, mem>>

TestTerm ==
  /\ Move(0, "test", IF mem.term THEN "collect" ELSE "hire")
  /\ IF mem.term THEN pending' = Signalled(Group, "TERM") ELSE UNCHANGED pending
  /\ UNCHANGED mem

Collect(b) ==
  /\ at[0] = "collect" /\ Move(b, "zombie", "reaped")
  /\ UNCHANGED <<pending, mem>>

CollectionEnds ==
  /\ Move(0, "collect", "done") /\ \A b \in Box : at[b] = "reaped"
  /\ UNCHANGED <<pending, mem>>

\* sig_handler, anywhere; a wait that it interrupts in the last loop ends it.
FirstTerm ==
  /\ Live(0) /\ IsPending(0, "TERM") /\ pending' = Taken(0, {"TERM"})
  /\ \/ UNCHANGED at /\ mem' = [mem EXCEPT !.term = TRUE]
     \/ Move(0, "collect", "done") /\ mem' = [mem EXCEPT !.cut = TRUE]

FirstStep ==
  \/ (\E b \in Box : ForkBox(b) \/ Collect(b)) \/ ForkDonor
  \/ (\E s \in Directions : Direct(s)) \/ AwaitDonor \/ TestTerm
  \/ CollectionEnds \/ FirstTerm

Step(p) == IF p = 0 THEN FirstStep
           ELSE IF p = Donor THEN DonorStep ELSE p \in Box /\ BoxStep(p)

User == \E p \in Group : UserTerm(p)

-----------------------------------------------------------------------------
\* Properties.

TypeOK ==
  /\ mem.donors \in 0 .. MaxDonors + 1 /\ mem.created \subseteq Box
  /\ mem.slow \subseteq Box /\ mem.lost \subseteq Group

Donation(d) == [pid |-> <<d, "pid">>, money |-> <<d, "money">>]

ToRead(b) == at[b] = "read" \/ IsPending(b, "USR1")

\* The halves of two donations never mix in a file.  A box that has always
\* read before the next donor came has read the donation of each donor that
\* signalled it, whole, once and in order, but for the one that is announced.
BoxesCount ==
  \A b \in Box :
    /\ \A i \in 1 .. Len(mem.file[b]) \div 2 :
         mem.file[b][2 * i - 1][1] = mem.file[b][2 * i][1]
    /\ Live(b) /\ b \notin mem.slow =>
         LET n == Len(mem.thrown[b])
         IN mem.read[b] = [i \in 1 .. IF ToRead(b) THEN n - 1 ELSE n |-> Donation(mem.thrown[b][i])]

\* When the first process has ended by itself every box has been reaped, or,
\* its last wait having been interrupted by the SIGTERM of a box, has at least
\* been told to end (though a box may miss that).
AllReaped ==
  at[0] = "done" =>
    \A b \in Box :
      \/ at[b] = "reaped"
      \/ mem.cut /\ \/ at[b] = "zombie" \/ IsPending(b, "TERM") \/ b \in mem.lost
                    \/ at[b] = "term"

\* The collection goes on, here to the bound, until SIGTERM comes; then it
\* ends, unless a donor waits for a direction it handled too soon, or a box
\* for the SIGTERM it handled to no effect, or a donor without a file to open
\* killed all.
Ends ==
  \/ at[0] \in {"done", "zombie"}
  \/ at[0] = "hire" /\ ~mem.term
  \/ at[0] = "await" /\ at[Donor] = "suspended" /\ Donor \in mem.lost
  \/ at[0] = "collect" /\ \E b \in mem.lost : at[b] = "suspended"

-----------------------------------------------------------------------------
\* The inductive invariant.

Field  == {"pid", "money"}
Amount == [Field -> Nat \X Field]

Memory ==
  [donors : Nat, term : BOOLEAN, to : 0 .. Boxes, created : SUBSET Box,
   file : [Box -> Seq(Nat \X Field)], read : [Box -> Seq(Amount)], asked : BOOLEAN,
   thrown : [Box -> Seq(Nat)], slow : SUBSET Box, lost : SUBSET Group, cut : BOOLEAN]

BoxPlaces   == {"none", "open", "ready", "caught", "masked", "suspended", "read", "term",
                "zombie", "reaped"}
DonorPlaces == {"none", "new", "caught", "suspended", "throw", "half", "thrown", "zombie", "reaped"}
FirstPlaces == {"boxes", "hire", "direct", "await", "test", "collect", "done", "zombie"}
Places      == BoxPlaces \cup DonorPlaces \cup FirstPlaces

MemOK ==
  /\ at \in [Procs -> Places] /\ mem \in Memory
  /\ pending \in [Procs -> SUBSET [sig : Directions \cup {"TERM", "CHLD"}, from : {0}]]

\* Who is where: a donor is forked when all boxes are, and one at a time.
PlaceInv ==
  /\ at[0] \in FirstPlaces /\ at[Donor] \in DonorPlaces
  /\ at[0] \in {"boxes", "hire", "test", "collect", "done"} => at[Donor] \in {"none", "reaped"}
  /\ at[Donor] \in {"throw", "half", "thrown"} => mem.to \in Box
  /\ at[Donor] \in {"half", "thrown"} => mem.to \in mem.created
  /\ \A b \in Box : at[b] = "none" => at[0] = "boxes" /\ \A c \in Box : c > b => at[c] = "none"

\* Fields of a donation that stand in a box's file and are not announced yet.
Written(b) ==
  IF mem.to # b THEN 0 ELSE IF at[Donor] = "half" THEN 1 ELSE IF at[Donor] = "thrown" THEN 2 ELSE 0

\* A file holds the donations that were announced, in their order, and then
\* what the donor of now has written.
FileInv(b) ==
  LET n == Len(mem.thrown[b]) IN
  /\ Len(mem.file[b]) = 2 * n + Written(b)
  /\ \A i \in 1 .. n : /\ mem.file[b][2 * i - 1] = <<mem.thrown[b][i], Writes[1]>>
                       /\ mem.file[b][2 * i] = <<mem.thrown[b][i], Writes[2]>>
  /\ Written(b) >= 1 => mem.file[b][2 * n + 1] = <<mem.donors, Writes[1]>>
  /\ Written(b) = 2 => mem.file[b][2 * n + 2] = <<mem.donors, Writes[2]>>

\* A box that has always been in time has read them all, but the last one while
\* that is announced; and then nobody writes.
ReadInv(b) ==
  LET n == Len(mem.thrown[b]) IN
  /\ ToRead(b) => n > 0
  /\ Live(b) /\ b \notin mem.slow =>
       /\ Len(mem.read[b]) = IF ToRead(b) THEN n - 1 ELSE n
       /\ \A i \in 1 .. Len(mem.read[b]) : mem.read[b][i] = Donation(mem.thrown[b][i])
       /\ ToRead(b) => Written(b) = 0
       /\ at[b] = "read" => ~IsPending(b, "USR1")

\* A box before its fork, and one that is told to end.
BoxInv(b) ==
  /\ at[b] \in BoxPlaces
  /\ \A r \in pending[b] : r.sig \in {"USR1", "TERM"}
  /\ at[b] = "none" => b \notin mem.created /\ Len(mem.thrown[b]) = 0 /\ Len(mem.read[b]) = 0
  /\ at[0] \in {"collect", "done"} =>
       at[b] \in {"term", "zombie", "reaped"} \/ IsPending(b, "TERM") \/ b \in mem.lost
  /\ at[0] = "done" /\ ~mem.cut => at[b] = "reaped"
  /\ FileInv(b) /\ ReadInv(b)

IndInv == MemOK /\ PlaceInv /\ \A b \in Box : BoxInv(b)
=============================================================================
