----------------------------- MODULE Classroom -----------------------------
(***************************************************************************)
(* The class of orlov/lab2_prep/task2_alternative.c: a teacher (process 0) *)
(* forks students; a student reports each part with SIGUSR1 and waits for  *)
(* SIGUSR2; the teacher answers in its handler and reaps students in       *)
(* another.  Both handlers run only inside the teacher's sigsuspend,       *)
(* SIGUSR2 only inside the student's.  Handlers may nest but touch         *)
(* different data, so one that runs to its end, or one waitpid, is a step. *)
(***************************************************************************)
EXTENDS Processes

CONSTANTS
  Size,        \* g_nstudents
  Parts,       \* p
  MaxIssues    \* issues a student may have in a part, at most t

\* What the constants are.
ClassConstants ==
  /\ Size \in Nat \ {0}
  /\ 1 .. Size \subseteq Procs
  /\ Parts \in Nat \ {0}
  /\ MaxIssues \in Nat

Students == 1 .. Size

\* stored: students whose pid is in g_students; left, recorded: g_left,
\* g_issues; confirmed: g_confirmed of each student; accepted, merged:
\* histories of answered reports and of students whose SIGUSR1 found another
\* one pending.
Init ==
  /\ at = OnlyFirst("fork") /\ pending = NothingPending
  /\ LET none == [s \in Students |-> 0]
     IN mem = [stored |-> 0, left |-> Size, recorded |-> none, part |-> none,
               issues |-> none, confirmed |-> [s \in Students |-> FALSE],
               accepted |-> none, merged |-> {}]

FinishPart_KeepsAnswer(s, n) ==
  /\ Move(s, "work", "report")
  /\ mem' = [mem EXCEPT !.part[s] = @ + 1, !.issues[s] = @ + n]
  /\ UNCHANGED pending

\* A part's work: some of its steps have an issue.
FinishPart(s, n) ==
  /\ Move(s, "work", "report")
  /\ mem' = [mem EXCEPT !.part[s] = @ + 1, !.issues[s] = @ + n, !.confirmed[s] = FALSE]
  /\ UNCHANGED pending

Report(s) ==
  /\ Move(s, "report", "test")
  /\ pending' = Posted({0}, "USR1", s)
  /\ mem' = [mem EXCEPT !.merged = IF IsPending(0, "USR1") THEN @ \cup {s} ELSE @]

StudentSuspends(s) ==
  /\ Move(s, "test", "suspended") /\ ~mem.confirmed[s]
  /\ UNCHANGED <<pending, mem>>

Confirm_Unblocked(s) ==
  /\ \/ Move(s, "suspended", "test")
     \/ Move(s, "test", "suspended") /\ ~mem.confirmed[s]
  /\ IsPending(s, "USR2") /\ pending' = Taken(s, {"USR2"})
  /\ mem' = [mem EXCEPT !.confirmed[s] = TRUE]

\* SIGUSR2 is delivered and sigsuspend returns.
Confirm(s) ==
  /\ Move(s, "suspended", "test")
  /\ IsPending(s, "USR2") /\ pending' = Taken(s, {"USR2"})
  /\ mem' = [mem EXCEPT !.confirmed[s] = TRUE]

NextPart(s) ==
  /\ Move(s, "test", "work")
  /\ mem.confirmed[s] /\ mem.part[s] < Parts
  /\ UNCHANGED <<pending, mem>>

StudentExits(s) ==
  /\ Exit(s, "test", 0)
  /\ mem.confirmed[s] /\ mem.part[s] = Parts
  /\ UNCHANGED mem

StudentStep(s) ==
  \/ \E n \in 0 .. MaxIssues : FinishPart(s, n)
  \/ Report(s) \/ StudentSuspends(s) \/ Confirm(s) \/ NextPart(s) \/ StudentExits(s)

-----------------------------------------------------------------------------
\* The teacher.

Fork ==
  /\ at[0] = "fork"
  /\ at' = [at EXCEPT ![0] = "store", ![mem.stored + 1] = "work"]
  /\ UNCHANGED <<pending, mem>>

StorePid ==
  /\ Move(0, "store", IF mem.stored + 1 = Size THEN "test" ELSE "fork")
  /\ mem' = [mem EXCEPT !.stored = @ + 1]
  /\ UNCHANGED pending

TeacherSuspends ==
  /\ Move(0, "test", "suspended") /\ mem.left > 0
  /\ UNCHANGED <<pending, mem>>

\* sigusr1_handler, which may interrupt sigchld_handler: a sigsuspend that
\* was waiting returns.
AcceptReport ==
  /\ \/ Move(0, "suspended", "test")
     \/ Move(0, "reaping", "reaping")
  /\ \E r \in pending[0] :
       /\ r.sig = "USR1"
       /\ pending' = [Posted({r.from}, "USR2", 0) EXCEPT ![0] = @ \ {r}]
       /\ mem' = [mem EXCEPT !.accepted[r.from] = @ + 1]

\* sigchld_handler: waitpid until no child has ended.
EnterReaping ==
  /\ Move(0, "suspended", "reaping")
  /\ IsPending(0, "CHLD") /\ pending' = Taken(0, {"CHLD"})
  /\ UNCHANGED mem

Reap_Again(s) ==
  /\ at[0] = "reaping" /\ at[s] \in {"zombie", "reaped"} /\ mem.left > 0
  /\ at' = [at EXCEPT ![s] = "reaped"]
  /\ mem' = [mem EXCEPT !.left = @ - 1,
                        !.recorded[s] = IF s <= mem.stored THEN mem.issues[s] ELSE @]
  /\ UNCHANGED pending

\* The exit status is found a place by its pid, if the pid is stored.
Reap(s) ==
  /\ at[0] = "reaping" /\ Move(s, "zombie", "reaped")
  /\ mem' = [mem EXCEPT !.left = @ - 1,
                        !.recorded[s] = IF s <= mem.stored THEN mem.issues[s] ELSE @]
  /\ UNCHANGED pending

ReapedAll ==
  /\ Move(0, "reaping", "test")
  /\ \A s \in Students : at[s] # "zombie"
  /\ UNCHANGED <<pending, mem>>

PrintStatistics ==
  /\ Move(0, "test", "done") /\ mem.left = 0
  /\ UNCHANGED <<pending, mem>>

TeacherStep ==
  \/ Fork \/ StorePid \/ TeacherSuspends \/ AcceptReport \/ EnterReaping
  \/ (\E s \in Students : Reap(s)) \/ ReapedAll \/ PrintStatistics

Step(p) == IF p = 0 THEN TeacherStep ELSE p \in Students /\ StudentStep(p)

-----------------------------------------------------------------------------
\* Properties.

TypeOK ==
  /\ at \in [Procs -> {"none", "fork", "store", "test", "suspended", "reaping",
                       "done", "work", "report", "zombie", "reaped"}]
  /\ mem.stored \in 0 .. Size /\ mem.left \in 0 .. Size
  /\ mem.part \in [Students -> 0 .. Parts] /\ mem.accepted \in [Students -> 0 .. Parts]

Waits(s) == at[s] = "suspended" \/ (at[s] = "test" /\ ~mem.confirmed[s])
Reported(s) == [sig |-> "USR1", from |-> s] \in pending[0]

\* What the comment in main says: "signals cannot be lost" in the teacher.
\* A student that waits has its report pending or its answer on the way.
ReportsNotLost == \A s \in Students : Waits(s) => Reported(s) \/ IsPending(s, "USR2")

\* What is true: only a report that found another one pending is lost.  The
\* answer never is, even if it comes between the student's test and its
\* sigsuspend.
OnlyMergedLost ==
  \A s \in Students : Waits(s) => Reported(s) \/ IsPending(s, "USR2") \/ s \in mem.merged

\* A student goes on only with the answer to the part it has finished, and
\* gets one answer for each part.
OneAnswerPerPart ==
  \A s \in Students :
    LET unanswered == at[s] = "report" \/ (Waits(s) /\ ~IsPending(s, "USR2"))
    IN mem.part[s] = IF unanswered THEN mem.accepted[s] + 1 ELSE mem.accepted[s]

\* When the statistics are printed every student has been reaped and its
\* issues stand in its own line, though one SIGCHLD may stand for many students.
StatisticsComplete ==
  /\ mem.left = Cardinality({s \in Students : at[s] # "reaped"})
  /\ at[0] = "done" => \A s \in Students : at[s] = "reaped" /\ mem.recorded[s] = mem.issues[s]

\* The class ends, unless a report was merged with another.
Ends == at[0] = "done" \/ mem.merged # {}

-----------------------------------------------------------------------------
\* The inductive invariant.

MemOK ==
  /\ pending \in [Procs -> SUBSET [sig : {"USR1", "USR2", "CHLD"}, from : 0 .. Size]]
  /\ mem \in [stored : Nat, left : Nat, recorded : [Students -> Nat],
              part : [Students -> Nat], issues : [Students -> Nat],
              confirmed : [Students -> BOOLEAN], accepted : [Students -> Nat],
              merged : SUBSET Students]

\* The students there are, and who may be where.
ForkInv ==
  /\ at[0] \notin {"none", "work", "report", "zombie", "reaped"}
  /\ \A s \in Students :
       /\ at[s] \in {"none", "work", "report", "test", "suspended", "zombie", "reaped"}
       /\ at[s] = "none" <=> s > mem.stored + (IF at[0] = "store" THEN 1 ELSE 0)
  /\ IF at[0] \in {"fork", "store"} THEN mem.stored < Size ELSE mem.stored = Size

\* SIGUSR1 has one sender, and only the teacher sends SIGUSR2.
PendingInv ==
  /\ \A r \in pending[0] : r.sig # "USR2" /\ r.from \in Students
  /\ \A r, q \in pending[0] : r.sig = q.sig => r = q
  /\ \A s \in Students : \A r \in pending[s] : r = [sig |-> "USR2", from |-> 0]

\* Where the report of a student is, or its answer; one that was reaped has a line of its own.
StudentInv(s) ==
  LET told == IsPending(s, "USR2") IN
  /\ IF Waits(s) THEN /\ ~(Reported(s) /\ told)
                      /\ Reported(s) \/ told \/ s \in mem.merged
     ELSE ~Reported(s) /\ ~told
  /\ at[s] \in {"none", "report", "suspended"} => ~mem.confirmed[s]
  /\ mem.part[s] = mem.accepted[s] + IF at[s] = "report" \/ (Waits(s) /\ ~told) THEN 1 ELSE 0
  /\ mem.part[s] <= IF at[s] \in {"none", "work"} THEN Parts - 1 ELSE Parts
  /\ at[s] = "none" => mem.part[s] = 0
  /\ at[s] = "reaped" => mem.recorded[s] = mem.issues[s]

IndInv ==
  /\ TypeOK /\ MemOK /\ ForkInv /\ PendingInv /\ StatisticsComplete
  /\ \A s \in Students : StudentInv(s)
=============================================================================
