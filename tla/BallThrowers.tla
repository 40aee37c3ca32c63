---------------------------- MODULE BallThrowers ----------------------------
(***************************************************************************)
(* moroz/PracticeTasks_Lab03/prog18.c: detached threads throw the balls    *)
(* that are waiting into bins and count them; main polls the count and     *)
(* adds up the bins, without their mutexes, when it is complete.           *)
(* A mutex is held for a section that waits for nothing and is the only    *)
(* one to touch its data, so lock, section and unlock are one step.        *)
(***************************************************************************)
EXTENDS Processes

CONSTANTS
  Throwers,    \* throwersCount
  Balls,       \* ballsCount
  Bins         \* BIN_COUNT, numbered from 1

\* What the constants are.
ThrowersConstants ==
  /\ Throwers \in Nat \ {0}
  /\ 1 .. Throwers \subseteq Procs
  /\ Balls \in Nat \ {0}
  /\ Bins \in Nat \ {0}

Thrower == 1 .. Throwers

\* waiting: ballsWaiting; thrown: ballsThrown; own: beansPerThread;
\* counter: thrownCounter; total: realBallsCount.
Init ==
  /\ at = OnlyFirst("create") /\ pending = NothingPending
  /\ mem = [waiting |-> Balls, thrown |-> 0, bins |-> [b \in 1 .. Bins |-> 0],
            own |-> [t \in Thrower |-> 0], counter |-> 0, added |-> 0, total |-> 0]

Take_Counts(t) ==
  /\ Move(t, "take", IF mem.waiting > 0 THEN "throw" ELSE "zombie")
  /\ mem' = IF mem.waiting > 0 THEN [mem EXCEPT !.waiting = @ - 1, !.thrown = @ + 1] ELSE mem
  /\ UNCHANGED pending

Take(t) ==
  /\ Move(t, "take", IF mem.waiting > 0 THEN "throw" ELSE "zombie")
  /\ mem' = IF mem.waiting > 0 THEN [mem EXCEPT !.waiting = @ - 1] ELSE mem
  /\ UNCHANGED pending

Throw(t, b) ==
  /\ Move(t, "throw", "count") /\ mem' = [mem EXCEPT !.bins[b] = @ + 1]
  /\ UNCHANGED pending

Count(t) ==
  /\ Move(t, "count", "take")
  /\ mem' = [mem EXCEPT !.thrown = @ + 1, !.own[t] = @ + 1]
  /\ UNCHANGED pending

Create(t) ==
  /\ at[0] = "create" /\ at[t] = "none" /\ (t > 1 => at[t - 1] # "none")
  /\ at' = [at EXCEPT ![t] = "take", ![0] = IF t = Throwers THEN "poll" ELSE "create"]
  /\ UNCHANGED <<pending, mem>>

Poll ==
  /\ at[0] = "poll" /\ mem.counter < Balls
  /\ mem' = [mem EXCEPT !.counter = mem.thrown]
  /\ UNCHANGED <<at, pending>>

\* One bin is read; after the last main exits and the threads with it.
AddBin ==
  /\ at[0] = "poll" /\ mem.counter >= Balls /\ mem.added < Bins
  /\ mem' = [mem EXCEPT !.added = @ + 1, !.total = @ + mem.bins[mem.added + 1]]
  /\ at' = IF mem.added + 1 = Bins
           THEN [p \in Procs |-> IF p = 0 THEN "done" ELSE IF Live(p) THEN "zombie" ELSE at[p]]
           ELSE at
  /\ UNCHANGED pending

Step(p) ==
  IF p = 0 THEN (\E t \in Thrower : Create(t)) \/ Poll \/ AddBin
  ELSE p \in Thrower /\ (Take(p) \/ (\E b \in 1 .. Bins : Throw(p, b)) \/ Count(p))

-----------------------------------------------------------------------------
\* Properties.

TypeOK == mem.waiting \in 0 .. Balls /\ mem.counter \in 0 .. Balls /\ mem.total \in 0 .. Balls

\* Once the count that main polls is complete no thread touches a bin again,
\* so the total of the bins, read one by one without their mutexes, is the
\* number of balls.
CountsAddUp ==
  /\ mem.counter = Balls => \A t \in Thrower : at[t] \notin {"throw", "count"}
  /\ at[0] = "done" => mem.total = Balls

Ends == at[0] = "done"

-----------------------------------------------------------------------------
\* The inductive invariant.

Memory ==
  [waiting : Nat, thrown : Nat, bins : [1 .. Bins -> Nat], own : [Thrower -> Nat],
   counter : Nat, added : 0 .. Bins, total : Nat]

Throwing == {t \in Thrower : at[t] \in {"throw", "count"}}
Counting == {t \in Thrower : at[t] = "count"}

\* The balls in the first bins, up to each of them.
PartialSums == [0 .. Bins -> Nat]
SumsOf(sum) ==
  /\ sum[0] = 0
  /\ \A b \in 1 .. Bins : sum[b] = sum[b - 1] + mem.bins[b]

\* A ball waits, is with a thread, or was thrown and counted; it is in a bin
\* before it is counted; main adds up when all are counted.
IndInv ==
  /\ mem \in Memory /\ DOMAIN at = Procs
  /\ at[0] \in {"create", "poll", "done"}
  /\ \A t \in Thrower : at[t] \in {"none", "take", "throw", "count", "zombie"}
  /\ mem.waiting + mem.thrown + Cardinality(Throwing) = Balls
  /\ mem.counter <= mem.thrown
  /\ mem.added > 0 => mem.counter = Balls
  /\ at[0] = "done" => mem.added = Bins
  /\ \E sum \in PartialSums :
       /\ SumsOf(sum) /\ mem.total = sum[mem.added]
       /\ sum[Bins] = mem.thrown + Cardinality(Counting)
=============================================================================
