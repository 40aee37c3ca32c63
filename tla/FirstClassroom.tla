--------------------------- MODULE FirstClassroom ---------------------------
(***************************************************************************)
(* The first version of the class, orlov/lab2_prep/task2.c: nothing is     *)
(* blocked, so the teacher's handler may run at any of its steps and the   *)
(* student's at any of its own.  The teacher counts the reports, spinning, *)
(* and then waits for its students; there is no handler of SIGCHLD.        *)
(***************************************************************************)
EXTENDS Processes

CONSTANTS
  Size,        \* argc - 3
  Parts,       \* p
  MaxIssues    \* issues a student may have in a part, at most t

\* What the constants are.
FirstClassConstants ==
  /\ Size \in Nat \ {0}
  /\ 1 .. Size \subseteq Procs
  /\ Parts \in Nat \ {0}
  /\ MaxIssues \in Nat

Students == 1 .. Size

\* printed: the students whose exit status the teacher prints, with it;
\* sigusr2: the flag of each student; accepted, merged: histories, as in
\* Classroom.
Init ==
  /\ at = OnlyFirst("fork") /\ pending = NothingPending
  /\ LET none == [s \in Students |-> 0]
     IN mem = [forked |-> 0, parts_cnt |-> 0, printed |-> {}, part |-> none,
               issues |-> none, sigusr2 |-> [s \in Students |-> FALSE],
               accepted |-> none, merged |-> {}]

\* child_work.

Handler(s) ==
  /\ Move(s, "new", "work") /\ UNCHANGED <<pending, mem>>

FinishPart(s, n) ==
  /\ Move(s, "work", "report")
  /\ mem' = [mem EXCEPT !.part[s] = @ + 1, !.issues[s] = @ + n]
  /\ UNCHANGED pending

Report(s) ==
  /\ Move(s, "report", "wait")
  /\ pending' = Posted({0}, "USR1", s)
  /\ mem' = [mem EXCEPT !.merged = IF IsPending(0, "USR1") THEN @ \cup {s} ELSE @]

\* siguser2_handler, at any step; a sleep that misses it ends by itself.
Confirm(s) ==
  /\ at[s] \in {"work", "report", "wait"}
  /\ IsPending(s, "USR2") /\ pending' = Taken(s, {"USR2"})
  /\ mem' = [mem EXCEPT !.sigusr2[s] = TRUE]
  /\ UNCHANGED at

\* The flag is cleared and the next part begun, or the student exits.
Approved(s) ==
  /\ mem.sigusr2[s]
  /\ mem' = [mem EXCEPT !.sigusr2[s] = FALSE]
  /\ IF mem.part[s] = Parts THEN Exit(s, "wait", 0)
     ELSE Move(s, "wait", "work") /\ UNCHANGED pending

-----------------------------------------------------------------------------
\* The teacher.

Fork ==
  /\ at[0] = "fork"
  /\ LET s == mem.forked + 1
     IN /\ at' = [at EXCEPT ![s] = "new", ![0] = IF s = Size THEN "spin" ELSE "fork"]
        /\ mem' = [mem EXCEPT !.forked = s]
  /\ UNCHANGED pending

\* sigusr1_handler, which is not interrupted by SIGUSR1.
AcceptReport ==
  /\ at[0] \in {"fork", "spin", "wait"}
  /\ \E r \in pending[0] :
       /\ r.sig = "USR1"
       /\ pending' = [Posted({r.from}, "USR2", 0) EXCEPT ![0] = @ \ {r}]
       /\ mem' = [mem EXCEPT !.accepted[r.from] = @ + 1, !.parts_cnt = @ + 1]
  /\ UNCHANGED at

EnoughParts ==
  /\ Move(0, "spin", "wait")
  /\ mem.parts_cnt >= Parts * Size
  /\ UNCHANGED <<pending, mem>>

\* The first student that wait finds is the only one: the loop is left after it.
WaitForOne(s) ==
  /\ at[0] = "wait" /\ at[s] = "zombie"
  /\ at' = [at EXCEPT ![s] = "reaped", ![0] = "done"]
  /\ mem' = [mem EXCEPT !.printed = {<<s, mem.issues[s]>>}]
  /\ UNCHANGED pending

Step(p) ==
  IF p = 0
  THEN Fork \/ AcceptReport \/ EnoughParts \/ \E s \in Students : WaitForOne(s)
  ELSE /\ p \in Students
       /\ \/ Handler(p) \/ (\E n \in 0 .. MaxIssues : FinishPart(p, n))
          \/ Report(p) \/ Confirm(p) \/ Approved(p)

-----------------------------------------------------------------------------
\* Properties.

TypeOK ==
  /\ mem.parts_cnt \in 0 .. Parts * Size
  /\ mem.part \in [Students -> 0 .. Parts] /\ mem.merged \subseteq Students

Reported(s) == [sig |-> "USR1", from |-> s] \in pending[0]
Unanswered(s) == at[s] = "wait" /\ ~mem.sigusr2[s] /\ ~IsPending(s, "USR2")

\* Only a report that found another one pending is lost: the student waits for
\* ever, and the teacher spins for ever.
OnlyMergedLost == \A s \in Students : Unanswered(s) => Reported(s) \/ s \in mem.merged

\* A student gets one answer for each part, after it, though nothing is blocked.
OneAnswerPerPart ==
  \A s \in Students :
    mem.part[s] = mem.accepted[s] + (IF at[s] = "report" \/ Unanswered(s) THEN 1 ELSE 0)

\* The teacher leaves when every part of every student has been answered and
\* one student reaped; it prints that student's own issues, and no other's.
OneReaped ==
  at[0] = "done" =>
    /\ \A s \in Students : mem.accepted[s] = Parts
    /\ \E s \in Students : mem.printed = {<<s, mem.issues[s]>>}
    /\ Cardinality({s \in Students : at[s] = "reaped"}) = 1

\* The class ends, unless a report was merged with another.
Ends == at[0] = "done" \/ mem.merged # {}

-----------------------------------------------------------------------------
\* The inductive invariant.

MemOK ==
  /\ at \in [Procs -> {"none", "fork", "spin", "wait", "done", "new", "work", "report",
                       "zombie", "reaped"}]
  /\ pending \in [Procs -> SUBSET [sig : {"USR1", "USR2", "CHLD"}, from : 0 .. Size]]
  /\ mem \in [forked : Nat, parts_cnt : Nat, printed : SUBSET (Students \X Nat),
              part : [Students -> Nat], issues : [Students -> Nat],
              sigusr2 : [Students -> BOOLEAN], accepted : [Students -> Nat],
              merged : SUBSET Students]

\* The students there are, and who may be where.
ForkInv ==
  /\ at[0] \in {"fork", "spin", "wait", "done"}
  /\ \A s \in Students :
       /\ at[s] \in {"none", "new", "work", "report", "wait", "zombie", "reaped"}
       /\ at[s] = "none" <=> s > mem.forked
  /\ IF at[0] = "fork" THEN mem.forked < Size ELSE mem.forked = Size

\* SIGUSR1 has one sender, and only the teacher sends SIGUSR2.
PendingInv ==
  /\ \A r \in pending[0] : r.sig # "USR2" /\ r.from \in Students
  /\ \A r, q \in pending[0] : r.sig = q.sig => r = q
  /\ \A s \in Students : \A r \in pending[s] : r = [sig |-> "USR2", from |-> 0]

\* A report that waits is pending, answered, confirmed or lost, and only one of these;
\* without one there is nothing on the way to the student or from it.
StudentInv(s) ==
  LET told == IsPending(s, "USR2") IN
  /\ at[s] = "wait" => Reported(s) \/ told \/ mem.sigusr2[s] \/ s \in mem.merged
  /\ at[s] # "wait" => ~Reported(s) /\ ~told /\ ~mem.sigusr2[s]
  /\ ~(Reported(s) /\ told) /\ (mem.sigusr2[s] => ~Reported(s) /\ ~told)
  /\ mem.part[s] = mem.accepted[s] + IF at[s] = "report" \/ Unanswered(s) THEN 1 ELSE 0
  /\ mem.part[s] <= IF at[s] \in {"none", "new", "work"} THEN Parts - 1 ELSE Parts
  /\ at[s] = "none" => mem.part[s] = 0

\* parts_cnt counts the answered parts, so the teacher waits when there are no others.
Answered == {a \in Students \X (1 .. Parts) : a[2] <= mem.accepted[a[1]]}

CountInv ==
  /\ mem.parts_cnt = Cardinality(Answered)
  /\ at[0] \in {"wait", "done"} => \A s \in Students : mem.accepted[s] = Parts

ReapedInv ==
  IF at[0] = "done"
  THEN \E s \in Students : /\ mem.printed = {<<s, mem.issues[s]>>}
                           /\ \A t \in Students : at[t] = "reaped" <=> t = s
  ELSE \A t \in Students : at[t] # "reaped"

IndInv ==
  /\ MemOK /\ ForkInv /\ PendingInv /\ CountInv /\ ReapedInv
  /\ \A s \in Students : StudentInv(s)
=============================================================================
