------------------------------ MODULE OpsPort ------------------------------
(***************************************************************************)
(* The port of moroz/w3/mykhailo_moroz/ops-port.c: dock workers unload a   *)
(* ship one package at a time, a signal thread docks a ship on SIGUSR1 and *)
(* closes the port on SIGINT.  One step is one access to a mutex, to the   *)
(* condition or to shared data; a section that touches shared data between *)
(* two such points is split where another thread could tell.               *)
(*                                                                         *)
(* SIGINT and SIGUSR1 are blocked in every thread and taken by sigwait: a  *)
(* signal that is already pending is not queued again.  Sleeps have no     *)
(* length.  The return values the code turns into ERR are not modelled.    *)
(***************************************************************************)
EXTENDS Naturals, FiniteSets

CONSTANTS
  Workers,       \* the dock workers
  Sig,           \* the signal thread
  Nobody,        \* a mutex no thread holds
  Loads,         \* what rand() % 31 + 30 may give
  MaxShips,      \* bound: SIGUSR1 the user sends
  MaxSpurious    \* bound: wake-ups without a broadcast

PortConstants ==
  /\ Sig \notin Workers /\ Nobody \notin Workers /\ Sig # Nobody
  /\ Loads \subseteq Nat \ {0}
  /\ MaxShips \in Nat /\ MaxSpurious \in Nat

VARIABLES
  state_mutex,      \* the thread that holds it, or Nobody
  ship_mutex,
  packages_left,
  next_package,
  terminate,
  pc,               \* where each worker is
  pack,             \* the number a worker has read from next_package
  sigpc,            \* where the signal thread is
  mainpc,           \* main joins the threads, then ends
  pending,          \* signals sent and not yet taken
  sent, spurious,   \* SIGUSR1 and spurious wake-ups so far
  docked,           \* history: packages brought by all ships
  transported       \* history: the numbers the workers reported

shared == <<state_mutex, ship_mutex, packages_left, next_package, terminate>>
worker == <<pc, pack, transported>>
outside == <<pending, sent, spurious>>
vars   == <<shared, worker, outside, sigpc, mainpc, docked>>

Threads == Workers \cup {Sig}

TypeOK ==
  /\ state_mutex \in Threads \cup {Nobody}
  /\ ship_mutex \in Workers \cup {Nobody}
  /\ packages_left \in Nat
  /\ next_package \in Nat \ {0}
  /\ terminate \in BOOLEAN
  /\ pc \in [Workers -> {"lock", "test", "waiting", "lockShip", "lockAgain",
                         "retest", "number", "carry", "done"}]
  /\ pack \in [Workers -> Nat]
  /\ sigpc \in {"sigwait", "dockLock", "dock", "termLock", "term", "done"}
  /\ mainpc \in {"join", "end"}
  /\ pending \subseteq {"INT", "USR1"}
  /\ sent \in Nat /\ spurious \in Nat
  /\ docked \in Nat
  /\ transported \subseteq Nat

Init ==
  /\ state_mutex = Nobody /\ ship_mutex = Nobody
  /\ packages_left = 0 /\ next_package = 1 /\ terminate = FALSE
  /\ pc = [w \in Workers |-> "lock"]
  /\ pack = [w \in Workers |-> 0]
  /\ sigpc = "sigwait" /\ mainpc = "join"
  /\ pending = {} /\ sent = 0 /\ spurious = 0
  /\ docked = 0 /\ transported = {}

-----------------------------------------------------------------------------
\* Workers.

Goto(w, from, to) == pc[w] = from /\ pc' = [pc EXCEPT ![w] = to]

LockState(w) ==
  /\ Goto(w, "lock", "test")
  /\ state_mutex = Nobody /\ state_mutex' = w
  /\ UNCHANGED <<ship_mutex, packages_left, next_package, terminate, pack,
                 transported, outside, sigpc, mainpc, docked>>

\* The tests under the first lock, each ending in its release.
Release == state_mutex' = Nobody /\ UNCHANGED <<packages_left, next_package, terminate>>
Private == UNCHANGED <<pack, transported, outside, sigpc, mainpc, docked>>

CondWait(w) ==
  /\ Goto(w, "test", "waiting")
  /\ ~terminate /\ packages_left = 0
  /\ Release /\ Private /\ UNCHANGED ship_mutex

LeaveAtOnce(w) ==
  /\ Goto(w, "test", "done")
  /\ terminate
  /\ Release /\ Private /\ UNCHANGED ship_mutex

GoToShip(w) ==
  /\ Goto(w, "test", "lockShip")
  /\ ~terminate /\ packages_left # 0
  /\ Release /\ Private /\ UNCHANGED ship_mutex

LockShip(w) ==
  /\ Goto(w, "lockShip", "lockAgain")
  /\ ship_mutex = Nobody /\ ship_mutex' = w
  /\ UNCHANGED <<state_mutex, packages_left, next_package, terminate>> /\ Private

LockAgain(w) ==
  /\ Goto(w, "lockAgain", "retest")
  /\ state_mutex = Nobody /\ state_mutex' = w
  /\ UNCHANGED <<ship_mutex, packages_left, next_package, terminate>> /\ Private

LeaveAtShip(w) ==
  /\ Goto(w, "retest", "done")
  /\ terminate
  /\ Release /\ Private /\ ship_mutex' = Nobody

ShipIsEmpty(w) ==
  /\ Goto(w, "retest", "lock")
  /\ ~terminate /\ packages_left <= 0
  /\ Release /\ Private /\ ship_mutex' = Nobody

TakePackage_NoRetest(w) ==
  /\ Goto(w, "retest", "number")
  /\ ~terminate
  /\ packages_left' = packages_left - 1
  /\ pack' = [pack EXCEPT ![w] = next_package]
  /\ UNCHANGED <<state_mutex, ship_mutex, next_package, terminate, transported,
                 outside, sigpc, mainpc, docked>>

TakePackage(w) ==
  /\ Goto(w, "retest", "number")
  /\ ~terminate /\ packages_left > 0
  /\ packages_left' = packages_left - 1
  /\ pack' = [pack EXCEPT ![w] = next_package]
  /\ UNCHANGED <<state_mutex, ship_mutex, next_package, terminate, transported,
                 outside, sigpc, mainpc, docked>>

CountPackage(w) ==
  /\ Goto(w, "number", "carry")
  /\ next_package' = pack[w] + 1
  /\ state_mutex' = Nobody /\ ship_mutex' = Nobody
  /\ UNCHANGED <<packages_left, terminate, pack, transported, outside, sigpc, mainpc, docked>>

Transport(w) ==
  /\ Goto(w, "carry", "lock")
  /\ transported' = transported \cup {pack[w]}
  /\ UNCHANGED <<shared, pack, outside, sigpc, mainpc, docked>>

WorkerStep(w) ==
  \/ LockState(w) \/ CondWait(w) \/ LeaveAtOnce(w) \/ GoToShip(w)
  \/ LockShip(w) \/ LockAgain(w) \/ LeaveAtShip(w) \/ ShipIsEmpty(w)
  \/ TakePackage(w) \/ CountPackage(w) \/ Transport(w)

-----------------------------------------------------------------------------
\* The signal thread.

Broadcast_One ==
  IF \E w \in Workers : pc[w] = "waiting"
  THEN \E w \in Workers : Goto(w, "waiting", "lock")
  ELSE pc' = pc

Broadcast_Omitted == pc' = pc

Broadcast == pc' = [w \in Workers |-> IF pc[w] = "waiting" THEN "lock" ELSE pc[w]]

SigWait(sig) ==
  /\ sigpc = "sigwait" /\ sig \in pending
  /\ pending' = pending \ {sig}
  /\ sigpc' = IF sig = "USR1" THEN "dockLock" ELSE "termLock"
  /\ UNCHANGED <<shared, worker, sent, spurious, mainpc, docked>>

SigLock ==
  /\ \/ sigpc = "dockLock" /\ sigpc' = "dock"
     \/ sigpc = "termLock" /\ sigpc' = "term"
  /\ state_mutex = Nobody /\ state_mutex' = Sig
  /\ UNCHANGED <<ship_mutex, packages_left, next_package, terminate, worker,
                 outside, mainpc, docked>>

DockRefused ==
  /\ sigpc = "dock" /\ sigpc' = "sigwait"
  /\ terminate \/ packages_left > 0
  /\ Release
  /\ UNCHANGED <<ship_mutex, worker, outside, mainpc, docked>>

DockShip_Renumbers(n) ==
  /\ sigpc = "dock" /\ sigpc' = "sigwait"
  /\ ~terminate /\ packages_left <= 0
  /\ packages_left' = n /\ next_package' = 1
  /\ docked' = docked + n
  /\ Broadcast
  /\ state_mutex' = Nobody
  /\ UNCHANGED <<ship_mutex, terminate, pack, transported, outside, mainpc>>

DockShip(n) ==
  /\ sigpc = "dock" /\ sigpc' = "sigwait"
  /\ ~terminate /\ packages_left <= 0
  /\ packages_left' = n
  /\ docked' = docked + n
  /\ Broadcast
  /\ state_mutex' = Nobody
  /\ UNCHANGED <<ship_mutex, next_package, terminate, pack, transported, outside, mainpc>>

TryTerminate ==
  /\ sigpc = "term" /\ sigpc' = "done"
  /\ terminate' = TRUE
  /\ Broadcast
  /\ state_mutex' = Nobody
  /\ UNCHANGED <<ship_mutex, packages_left, next_package, pack, transported,
                 outside, mainpc, docked>>

SigStep ==
  \/ \E sig \in {"INT", "USR1"} : SigWait(sig)
  \/ SigLock \/ DockRefused \/ TryTerminate
  \/ \E n \in Loads : DockShip(n)

-----------------------------------------------------------------------------
\* main, the user and the system.

MainEnds ==
  /\ mainpc = "join" /\ mainpc' = "end"
  /\ sigpc = "done" /\ \A w \in Workers : pc[w] = "done"
  /\ UNCHANGED <<shared, worker, outside, sigpc, docked>>

SendUsr1 ==
  /\ mainpc = "join" /\ sent < MaxShips
  /\ pending' = pending \cup {"USR1"}
  /\ sent' = sent + 1
  /\ UNCHANGED <<shared, worker, spurious, sigpc, mainpc, docked>>

SendInt ==
  /\ mainpc = "join" /\ "INT" \notin pending
  /\ pending' = pending \cup {"INT"}
  /\ UNCHANGED <<shared, worker, sent, spurious, sigpc, mainpc, docked>>

SpuriousWakeup(w) ==
  /\ spurious < MaxSpurious /\ spurious' = spurious + 1
  /\ Goto(w, "waiting", "lock")
  /\ UNCHANGED <<shared, pack, transported, pending, sent, sigpc, mainpc, docked>>

Ended == mainpc = "end" /\ UNCHANGED vars

Next ==
  \/ \E w \in Workers : WorkerStep(w) \/ SpuriousWakeup(w)
  \/ SigStep \/ MainEnds
  \/ SendUsr1 \/ SendInt \/ Ended

Spec == Init /\ [][Next]_vars

\* The threads run; the user need not send anything.
FairSpec ==
  /\ Spec
  /\ \A w \in Workers : WF_vars(WorkerStep(w))
  /\ WF_vars(SigStep) /\ WF_vars(MainEnds)

-----------------------------------------------------------------------------
\* Properties.

\* The numbers that are taken: TakePackage has read the next one already.
Handed == IF \E w \in Workers : pc[w] = "number" THEN next_package ELSE next_package - 1

InHand == {w \in Workers : pc[w] = "carry"}

\* Every package a ship brought is aboard or has a number, and every number
\* that was counted is printed or in the hands of one worker only, whatever
\* the other workers saw before they got both locks.
EachPackageOnce ==
  /\ packages_left + Handed = docked
  /\ \A w, x \in InHand : pack[w] = pack[x] => w = x
  /\ \A w \in InHand : pack[w] \notin transported
  /\ {pack[w] : w \in InHand} \cup transported = 1 .. next_package - 1

\* Who holds a mutex is between its lock and its unlock, and nobody else is.
MutexesHeld ==
  /\ \A w \in Workers : state_mutex = w <=> pc[w] \in {"test", "retest", "number"}
  /\ state_mutex = Sig <=> sigpc \in {"dock", "term"}
  /\ \A w \in Workers : ship_mutex = w <=> pc[w] \in {"lockAgain", "retest", "number"}

\* The inductive invariant: a number read is still the next one when it is counted.
IndInv ==
  /\ TypeOK /\ MutexesHeld /\ EachPackageOnce
  /\ \A w \in Workers : pc[w] = "number" => pack[w] = next_package

\* No package leaves a ship, and no ship docks, after SIGINT was handled.
NoWorkAfterClosing == [][terminate => terminate' /\ packages_left' = packages_left]_vars

\* The port does what PackageFlow says.
Flow == INSTANCE PackageFlow WITH
          left <- packages_left,
          handed <- Handed,
          landed <- docked,
          closed <- terminate
FlowSpec == Flow!Spec

\* After SIGINT every thread ends and main returns: no dock sleeps on.
PortCloses == "INT" \in pending ~> mainpc = "end"

\* A docked ship is unloaded unless the port closes: the broadcast reaches
\* a worker, whatever the workers were doing when it was sent.
ShipUnloaded == packages_left > 0 ~> packages_left = 0 \/ terminate
=============================================================================
