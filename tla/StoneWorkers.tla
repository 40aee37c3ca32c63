---------------------------- MODULE StoneWorkers ----------------------------
(***************************************************************************)
(* lesha/processes_last_year/main.c: the master forks workers; all wait    *)
(* for SIGUSR1 in sigsuspend, the master for the user's, the workers for   *)
(* the one it passes on to the group.  SIGUSR1 is never blocked and the    *)
(* flag is tested only after sigsuspend: a signal before it is lost.  The  *)
(* weighing of the stones is one step.                                     *)
(***************************************************************************)
EXTENDS Processes

CONSTANTS
  Workers      \* worker_number

\* What the constants are.
WorkersConstants ==
  /\ Workers \in Nat \ {0}
  /\ 1 .. Workers \subseteq Procs

Worker == 1 .. Workers

\* counter: worker_counter; asked: the user has sent SIGUSR1; early: history,
\* processes that handled SIGUSR1 before their sigsuspend.
Init ==
  /\ at = OnlyFirst("fork") /\ pending = NothingPending
  /\ mem = [counter |-> 0, asked |-> FALSE, early |-> {}]

User ==
  /\ ~mem.asked /\ \E p \in Worker \cup {0} : pending' = Signalled({p}, "USR1") /\ Live(p)
  /\ mem' = [mem EXCEPT !.asked = TRUE] /\ UNCHANGED at

\* usr1_handler.
Handle(p) ==
  /\ Live(p) /\ IsPending(p, "USR1") /\ pending' = Taken(p, {"USR1"})
  /\ at' = [at EXCEPT ![p] = IF @ = "suspended" THEN "called" ELSE @]
  /\ mem' = [mem EXCEPT !.early = IF at[p] \in {"fork", "new"} THEN @ \cup {p} ELSE @]

Fork(w) ==
  /\ at[0] = "fork" /\ at[w] = "none" /\ (w > 1 => at[w - 1] # "none")
  /\ at' = [at EXCEPT ![w] = "new", ![0] = IF w = Workers THEN "new" ELSE "fork"]
  /\ UNCHANGED <<pending, mem>>

Suspend(p) == Move(p, "new", "suspended") /\ UNCHANGED <<pending, mem>>

Work(w) == Move(w, "called", "zombie") /\ UNCHANGED <<pending, mem>>

PassOn ==
  /\ Move(0, "called", "wait") /\ pending' = Signalled(Worker \cup {0}, "USR1")
  /\ UNCHANGED mem

Wait(w) ==
  /\ at[0] = "wait" /\ Move(w, "zombie", "reaped")
  /\ mem' = [mem EXCEPT !.counter = @ + 1]
  /\ UNCHANGED pending

\* With a worker missing the master would kill the group.
AllHome ==
  /\ Move(0, "wait", IF mem.counter = Workers THEN "done" ELSE "zombie")
  /\ \A w \in Worker : at[w] = "reaped"
  /\ UNCHANGED <<pending, mem>>

Step(p) ==
  IF p = 0
  THEN Handle(0) \/ Suspend(0) \/ PassOn \/ AllHome \/ \E w \in Worker : Fork(w) \/ Wait(w)
  ELSE p \in Worker /\ (Handle(p) \/ Suspend(p) \/ Work(p))

-----------------------------------------------------------------------------
\* Properties.

TypeOK == mem.counter \in 0 .. Workers /\ mem.early \subseteq Worker \cup {0}

\* The count of the master is the number of reaped workers, so it never kills
\* the group, and it ends with all of them at home.
AllReaped ==
  /\ mem.counter = Cardinality({w \in Worker : at[w] = "reaped"})
  /\ at[0] # "zombie" /\ (at[0] = "done" => mem.counter = Workers)

\* The program ends, or the master waits for a call (perhaps after one that came
\* before its sigsuspend), or for a worker that was called before its own.
Ends == at[0] = "done" \/ at[0] = "suspended" \/ (at[0] = "wait" /\ \E w \in mem.early : at[w] = "suspended")

-----------------------------------------------------------------------------
\* The inductive invariant.

Memory ==
  [counter : Nat, asked : BOOLEAN, early : SUBSET (Worker \cup {0})]

\* The master waits for as many as it has not counted; it never kills the group.
IndInv ==
  /\ mem \in Memory /\ DOMAIN at = Procs
  /\ at[0] \in {"fork", "new", "suspended", "called", "wait", "done"}
  /\ \A w \in Worker : at[w] \in {"none", "new", "suspended", "called", "zombie", "reaped"}
  /\ mem.counter = Cardinality({w \in Worker : at[w] = "reaped"})
  /\ at[0] = "done" => \A w \in Worker : at[w] = "reaped"
=============================================================================
