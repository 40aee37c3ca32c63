-------------------------- MODULE RepeatedReports --------------------------
(***************************************************************************)
(* orlov/lab2_prep/task1.c: children send SIGUSR1 again and again until    *)
(* SIGUSR2 comes; the parent pauses until it has counted enough of them,   *)
(* sends SIGUSR2 to all and waits.  Nothing is blocked: a handler runs at  *)
(* any step, and a signal between the parent's test and its pause does not *)
(* end the pause.                                                          *)
(***************************************************************************)
EXTENDS Processes

CONSTANTS
  Number,      \* n
  Enough       \* the 100 of main

\* What the constants are.
ReportsConstants ==
  /\ Number \in Nat \ {0}
  /\ 1 .. Number \subseteq Procs
  /\ Enough \in Nat

Child == 1 .. Number

\* cnt: sigusr1_cnt up to Enough; stop: sigusr2 of each child.
Init ==
  /\ at = OnlyFirst("fork") /\ pending = NothingPending
  /\ mem = [cnt |-> 0, stop |-> [c \in Child |-> FALSE]]

Fork(c) ==
  /\ at[0] = "fork" /\ at[c] = "none" /\ (c > 1 => at[c - 1] # "none")
  /\ at' = [at EXCEPT ![c] = "test", ![0] = IF c = Number THEN "test" ELSE "fork"]
  /\ UNCHANGED <<pending, mem>>

TestCount ==
  /\ Move(0, "test", IF mem.cnt < Enough THEN "tested" ELSE "stop")
  /\ UNCHANGED <<pending, mem>>

Pause == Move(0, "tested", "paused") /\ UNCHANGED <<pending, mem>>

\* sigusr1_handler.
Counted ==
  /\ Live(0) /\ IsPending(0, "USR1") /\ pending' = Taken(0, {"USR1"})
  /\ mem' = [mem EXCEPT !.cnt = IF @ < Enough THEN @ + 1 ELSE @]
  /\ at' = [at EXCEPT ![0] = IF @ = "paused" THEN "test" ELSE @]

StopAll ==
  /\ Move(0, "stop", "wait") /\ pending' = Signalled(Child, "USR2")
  /\ UNCHANGED mem

Wait(c) ==
  /\ at[0] = "wait" /\ Move(c, "zombie", "reaped")
  /\ UNCHANGED <<pending, mem>>

NoneLeft ==
  /\ Move(0, "wait", "done") /\ \A c \in Child : at[c] = "reaped"
  /\ UNCHANGED <<pending, mem>>

ChildTest(c) ==
  /\ Move(c, "test", IF mem.stop[c] THEN "zombie" ELSE "sleep")
  /\ pending' = IF mem.stop[c] THEN [pending EXCEPT ![c] = {}] ELSE pending
  /\ UNCHANGED mem

Report(c) == Move(c, "sleep", "test") /\ pending' = Signalled({0}, "USR1") /\ UNCHANGED mem

Stopped(c) ==
  /\ IsPending(c, "USR2") /\ pending' = Taken(c, {"USR2"})
  /\ mem' = [mem EXCEPT !.stop[c] = TRUE]
  /\ UNCHANGED at

\* A process's own code, and the handler that may interrupt it.
Code(p) ==
  IF p = 0
  THEN (\E c \in Child : Fork(c) \/ Wait(c)) \/ TestCount \/ Pause \/ StopAll \/ NoneLeft
  ELSE p \in Child /\ (ChildTest(p) \/ Report(p))

Handler(p) == IF p = 0 THEN Counted ELSE p \in Child /\ Stopped(p)

Step(p) == Code(p) \/ Handler(p)

-----------------------------------------------------------------------------
\* Properties.

TypeOK == mem.cnt \in 0 .. Enough /\ mem.stop \in [Child -> BOOLEAN]

\* A child stops only when enough signals were counted, and the parent ends
\* with every child reaped, though late reports interrupt its waits.
AllReaped ==
  /\ (\E c \in Child : mem.stop[c]) => mem.cnt = Enough
  /\ at[0] = "done" => \A c \in Child : at[c] = "reaped"

\* A report that is merged with another, or comes just before the pause, is
\* made up for by the next one.
Ends == at[0] = "done"

-----------------------------------------------------------------------------
\* The inductive invariant.

Memory == [cnt : 0 .. Enough, stop : [Child -> BOOLEAN]]

\* SIGUSR2 is sent, pending or handled only when enough reports were counted.
IndInv ==
  /\ mem \in Memory /\ DOMAIN at = Procs /\ DOMAIN pending = Procs
  /\ at[0] \in {"fork", "test", "tested", "paused", "stop", "wait", "done"}
  /\ at[0] \in {"stop", "wait", "done"} => mem.cnt = Enough
  /\ \A c \in Child : mem.stop[c] \/ IsPending(c, "USR2") => mem.cnt = Enough
  /\ at[0] = "done" => \A c \in Child : at[c] = "reaped"
=============================================================================
