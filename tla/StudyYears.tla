----------------------------- MODULE StudyYears -----------------------------
(***************************************************************************)
(* moroz/PracticeTasks_Lab03/prog20.c: student threads pass through three  *)
(* years; main cancels students at random for a while and joins them all.  *)
(* A student is cancelled only where it sleeps or tests, in a year; its    *)
(* move to the next year is not cancelled and holds the one mutex, as its  *)
(* cleanup does.                                                           *)
(***************************************************************************)
EXTENDS Processes, Integers

CONSTANTS
  StudentNum,  \* studentNum
  Rounds       \* turns of the loop of main that fit into its four seconds

\* What the constants are.
StudyConstants ==
  /\ StudentNum \in Nat \ {0}
  /\ 1 .. StudentNum \subseteq Procs
  /\ Rounds \in Nat

Student == 1 .. StudentNum
Years   == 0 .. 3

\* year, state, current: as in the program; index, seen: the student main has
\* chosen and the state it read; rounds: turns of the loop so far.
Init ==
  /\ at = OnlyFirst("create") /\ pending = NothingPending
  /\ mem = [year |-> [y \in Years |-> 0], state |-> [s \in Student |-> 0],
            current |-> [s \in Student |-> -1], index |-> 1, seen |-> 0, rounds |-> 0]

Enrol(s) ==
  /\ Move(s, "new", "study")
  /\ mem' = [mem EXCEPT !.current[s] = 0, !.state[s] = 0, !.year[0] = @ + 1]
  /\ UNCHANGED pending

\* move_year, after a sleep and a test that found nothing; a cancellation that
\* comes after the test is met in the next year.
MoveYear(s) ==
  /\ Move(s, "study", "study") /\ ~IsPending(s, "CANCEL")
  /\ LET from == mem.current[s]
     IN /\ from < 3
        /\ mem' = [mem EXCEPT !.year[from] = @ - 1, !.year[from + 1] = @ + 1,
                              !.current[s] = from + 1]
  /\ UNCHANGED pending

\* student_cleanup.
Cancelled(s) ==
  /\ Move(s, "study", "zombie") /\ IsPending(s, "CANCEL")
  /\ mem.current[s] < 3
  /\ mem' = [mem EXCEPT !.year[mem.current[s]] = @ - 1, !.state[s] = 2]
  /\ pending' = Taken(s, {"CANCEL"})

\* The last move is followed by no sleep: a cancellation has no effect.
Graduate(s) ==
  /\ Move(s, "study", "zombie") /\ mem.current[s] = 3
  /\ mem' = [mem EXCEPT !.state[s] = 1]
  /\ pending' = Taken(s, {"CANCEL"})

-----------------------------------------------------------------------------
\* main.

Create(s) ==
  /\ at[0] = "create" /\ at[s] = "none" /\ (s > 1 => at[s - 1] # "none")
  /\ at' = [at EXCEPT ![s] = "new", ![0] = IF s = StudentNum THEN "loop" ELSE "create"]
  /\ UNCHANGED <<pending, mem>>

ReadState(s) ==
  /\ Move(0, "loop", "cancel") /\ mem.rounds < Rounds
  /\ mem' = [mem EXCEPT !.index = s, !.seen = mem.state[s], !.rounds = @ + 1]
  /\ UNCHANGED pending

\* pthread_cancel comes after the unlock: the student may have ended, but it
\* is not joined yet.
Cancel ==
  /\ Move(0, "cancel", "loop")
  /\ pending' = IF mem.seen = 0 THEN Signalled({mem.index}, "CANCEL") ELSE pending
  /\ UNCHANGED mem

TimeIsUp == Move(0, "loop", "join") /\ UNCHANGED <<pending, mem>>

Join(s) ==
  /\ at[0] = "join" /\ Move(s, "zombie", "reaped")
  /\ \A r \in 1 .. s - 1 : at[r] = "reaped"
  /\ UNCHANGED <<pending, mem>>

PrintYears ==
  /\ Move(0, "join", "done") /\ \A s \in Student : at[s] = "reaped"
  /\ UNCHANGED <<pending, mem>>

Step(p) ==
  IF p = 0
  THEN \/ (\E s \in Student : Create(s) \/ ReadState(s) \/ Join(s))
       \/ Cancel \/ TimeIsUp \/ PrintYears
  ELSE p \in Student /\ (Enrol(p) \/ MoveYear(p) \/ Cancelled(p) \/ Graduate(p))

-----------------------------------------------------------------------------
\* Properties.

TypeOK == mem.year \in [Years -> 0 .. StudentNum] /\ mem.state \in [Student -> 0 .. 2]

\* A year counts the students that are in it and alive, wherever they were
\* cancelled; the last year keeps its graduates.  So at the end nobody is in
\* the first three, and the fourth has those that nobody cancelled in time.
CountsAddUp ==
  /\ \A y \in Years : mem.year[y] =
       Cardinality({s \in Student : mem.current[s] = y /\ mem.state[s] # 2})
  /\ at[0] = "done" =>
       /\ \A y \in 0 .. 2 : mem.year[y] = 0
       /\ mem.year[3] = Cardinality({s \in Student : mem.state[s] = 1})

\* A thread that main cancels has not been joined.
CancelsUnjoined == at[0] = "cancel" => at[mem.index] # "reaped"

Ends == at[0] = "done"

-----------------------------------------------------------------------------
\* The inductive invariant.

Memory ==
  [year : [Years -> Int], state : [Student -> 0 .. 2], current : [Student -> -1 .. 3],
   index : Student, seen : 0 .. 2, rounds : Nat]

In(y) == {s \in Student : mem.current[s] = y /\ mem.state[s] # 2}

\* A student that has ended has graduated or was cancelled before.
StudentInv(s) ==
  /\ at[s] \in {"none", "new", "study", "zombie", "reaped"}
  /\ at[s] \in {"none", "new"} => mem.current[s] = -1 /\ mem.state[s] = 0
  /\ at[s] = "study" => mem.current[s] \in Years /\ mem.state[s] = 0
  /\ at[s] \in {"zombie", "reaped"} =>
       \/ mem.current[s] = 3 /\ mem.state[s] = 1
       \/ mem.current[s] \in 0 .. 2 /\ mem.state[s] = 2
  /\ at[s] = "reaped" => at[0] \in {"join", "done"}

IndInv ==
  /\ mem \in Memory /\ DOMAIN at = Procs
  /\ at[0] \in {"create", "loop", "cancel", "join", "done"}
  /\ \A s \in Student : StudentInv(s)
  /\ at[0] = "done" => \A s \in Student : at[s] = "reaped"
  /\ \A y \in Years : mem.year[y] = Cardinality(In(y))
=============================================================================
