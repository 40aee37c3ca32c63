---------------------------- MODULE BackupService ----------------------------
(***************************************************************************)
(* What the three backup programs promise of the pairs of a source and a   *)
(* target, whatever the list looks like and whenever signals come:         *)
(*                                                                         *)
(*   - a pair is mirrored by one worker, and by none while it is restored  *)
(*     (the program of lesha lets the worker go on);                       *)
(*   - a worker leaves the supervisor's care in two ways only: it could    *)
(*     not be listed, or a signal cut short the wait for it, and then one  *)
(*     signal costs one worker;                                            *)
(*   - when the program ends no other worker is left.                      *)
(*                                                                         *)
(* Modules BackupSupervisor, OrlovSupervisor and LeshaSupervisor implement *)
(* it.                                                                     *)
(***************************************************************************)
CONSTANTS
  Workers,
  Pairs,
  RestoreStops   \* TRUE if a restore waits for the worker of its pair

VARIABLES
  serves,        \* the pair of each worker that runs, as a set
  writing,       \* the pair that is being restored, as a set
  interrupted,   \* a signal came during a wait
  overdue,       \* workers that run and whose wait was given up
  unlisted,      \* workers that run and never got into the list
  open           \* the program runs

vars == <<serves, writing, interrupted, overdue, unlisted, open>>

Init ==
  /\ serves = [w \in Workers |-> {}]
  /\ writing = {}
  /\ interrupted = FALSE
  /\ overdue = {} /\ unlisted = {}
  /\ open = TRUE

WorkersOf(p) == {w \in Workers : p \in serves[w]}

Begin(w, p) ==
  /\ open
  /\ serves[w] = {}
  /\ p \notin writing
  /\ WorkersOf(p) \subseteq unlisted
  /\ serves' = [serves EXCEPT ![w] = {p}]
  /\ UNCHANGED <<writing, interrupted, overdue, unlisted, open>>

\* The end of a worker may be the signal that cuts short the wait for another.
End(w) ==
  /\ serves[w] # {}
  /\ serves' = [serves EXCEPT ![w] = {}]
  /\ overdue' = overdue \ {w} /\ unlisted' = unlisted \ {w}
  /\ interrupted' \in {interrupted, TRUE}
  /\ UNCHANGED <<writing, open>>

Unlist(w) ==
  /\ serves[w] # {}
  /\ unlisted' = unlisted \cup {w}
  /\ UNCHANGED <<serves, writing, interrupted, overdue, open>>

Signal ==
  /\ open
  /\ interrupted' = TRUE
  /\ UNCHANGED <<serves, writing, overdue, unlisted, open>>

\* A wait returns, for all it was interrupted or because it was.
WaitReturns ==
  /\ interrupted' = FALSE
  /\ \/ UNCHANGED overdue
     \/ interrupted /\ \E w \in Workers : serves[w] # {} /\ overdue' = overdue \cup {w}

Wait == WaitReturns /\ UNCHANGED <<serves, writing, unlisted, open>>

\* The wait for the pair's worker is the last step before a restore.
StartRestore(p) ==
  /\ open
  /\ writing = {} /\ writing' = {p}
  /\ WaitReturns \/ UNCHANGED <<interrupted, overdue>>
  /\ RestoreStops => WorkersOf(p) \subseteq overdue' \cup unlisted
  /\ UNCHANGED <<serves, unlisted, open>>

FinishRestore ==
  /\ writing' = {}
  /\ UNCHANGED <<serves, interrupted, overdue, unlisted, open>>

Close ==
  /\ writing = {}
  /\ \A w \in Workers : serves[w] # {} => w \in overdue \cup unlisted
  /\ open' = FALSE
  /\ UNCHANGED <<serves, writing, interrupted, overdue, unlisted>>

Next ==
  \/ \E w \in Workers : End(w) \/ Unlist(w) \/ \E p \in Pairs : Begin(w, p)
  \/ \E p \in Pairs : StartRestore(p)
  \/ Signal \/ Wait \/ FinishRestore \/ Close

Spec == Init /\ [][Next]_vars
=============================================================================
