----------------------------- MODULE Processes -----------------------------
(***************************************************************************)
(* What the small programs of the repository share: a first process 0 with *)
(* its children (or a main thread with the threads it starts), each at a   *)
(* place in its code, the standard signals that are pending for it, and    *)
(* the data of the program.  A signal that is pending is not queued again  *)
(* and keeps its first sender.  A process that has ended is a zombie until *)
(* it is waited for; signals do not reach it.                              *)
(***************************************************************************)
EXTENDS Naturals, FiniteSets

CONSTANTS Procs      \* numbers of processes or threads, 0 the first

ASSUME ProcsAssumption == Procs \subseteq Nat /\ 0 \in Procs

VARIABLES
  at,        \* where each process is
  pending,   \* the signals pending for it, with their senders
  mem        \* what the program remembers

machine == <<at, pending, mem>>

Live(p) == at[p] \notin {"none", "zombie", "reaped", "done"}

NothingPending == [p \in Procs |-> {}]
OnlyFirst(place) == [p \in Procs |-> IF p = 0 THEN place ELSE "none"]

IsPending(p, s) == \E r \in pending[p] : r.sig = s

\* kill: the signal s from one process to each process of a set.
Posted(targets, s, from) ==
  [p \in Procs |-> IF p \in targets /\ Live(p) /\ ~IsPending(p, s)
                   THEN pending[p] \cup {[sig |-> s, from |-> from]} ELSE pending[p]]

\* The same where no receiver asks for the sender.
Signalled(targets, s) == Posted(targets, s, 0)

\* The signals of a set are delivered to p.
Taken(p, sigs) == [pending EXCEPT ![p] = {r \in @ : r.sig \notin sigs}]

Move(p, from, to) == at[p] = from /\ at' = [at EXCEPT ![p] = to]

\* The process ends: its parent has a zombie and a SIGCHLD.
Exit(p, from, parent) ==
  Move(p, from, "zombie") /\ pending' = [Posted({parent}, "CHLD", p) EXCEPT ![p] = {}]
=============================================================================
