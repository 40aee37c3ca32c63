---------------------------- MODULE ProcessTree ----------------------------
(***************************************************************************)
(* The tree of common/process_supervisor/lab.c: a process forks two        *)
(* children, each the root of a smaller tree, waits for both and then, but *)
(* for the root, sleeps; a leaf exits at once.  On the first SIGINT or     *)
(* SIGUSR1 the root sends the signal to its group, itself included; on the *)
(* second SIGINT it exits.  The group of another process does not exist,   *)
(* all being in the root's, so its kill fails and leaves ESRCH in errno:   *)
(* when that comes between a wait that was interrupted and the test of     *)
(* errno the process takes wait to have failed and kills everybody else.   *)
(*                                                                         *)
(* sa_flags is not initialized: the handlers may be installed to be used   *)
(* once (SA_RESETHAND), so that the next such signal ends the process.     *)
(* The user sends one signal, to the root or, with Ctrl-C, to the group.   *)
(* The root is a job of a shell, so its group is its own.                  *)
(***************************************************************************)
EXTENDS Processes

CONSTANTS
  Inner        \* processes 0 .. Inner - 1 have children, Inner .. 2 * Inner are leaves

\* What the constants are.
TreeConstants ==
  /\ Inner \in Nat \ {0}
  /\ 0 .. 2 * Inner \subseteq Procs

Nodes       == 0 .. 2 * Inner
Group       == 0 .. Inner - 1      \* who a signal to the group means something to
Left(p)     == 2 * p + 1
Right(p)    == 2 * p + 2
Children(p) == IF p \in Group THEN {Left(p), Right(p)} ELSE {}
Signals     == {"INT", "USR1"}

\* awaited of each process; calls: usr1_parent_call_number and
\* sigint_parent_call_number; once: signals whose handler is used once;
\* caught: signals with a handler in each process; killed: history, who was ended by a
\* signal; shot: history, who has killed all others.
Init ==
  /\ at = OnlyFirst("left") /\ pending = NothingPending
  /\ \E once \in SUBSET Signals :
       mem = [awaited |-> [p \in Group |-> 0], calls |-> [s \in Signals |-> 0],
              once |-> once, caught |-> [p \in Group |-> Signals],
              asked |-> FALSE, killed |-> {}, shot |-> {}]

UserSignal(s, targets) ==
  /\ ~mem.asked /\ mem' = [mem EXCEPT !.asked = TRUE]
  /\ pending' = Signalled(targets, s)
  /\ UNCHANGED at

User == \E s \in Signals : UserSignal(s, Group) \/ UserSignal(s, {0})

Fork(p, from, child, to) ==
  /\ at[p] = from
  /\ at' = [at EXCEPT ![p] = to, ![child] = IF child \in Group THEN "left" ELSE "leaf"]
  /\ mem' = IF child \in Group THEN [mem EXCEPT !.caught[child] = mem.caught[p]] ELSE mem
  /\ UNCHANGED pending

\* wait: a child is reaped.
Wait(p) ==
  /\ at[p] = "wait" /\ mem.awaited[p] < 2
  /\ \E c \in Children(p) : Move(c, "zombie", "reaped")
  /\ mem' = [mem EXCEPT !.awaited[p] = @ + 1]
  /\ UNCHANGED pending

AwaitedAll_Interrupted(p) ==
  /\ Move(p, "wait", IF p = 0 THEN "done" ELSE "work")
  /\ mem.awaited[p] = 2 \/ pending[p] # {}
  /\ UNCHANGED <<pending, mem>>

AwaitedAll(p) ==
  /\ Move(p, "wait", IF p = 0 THEN "done" ELSE "work") /\ mem.awaited[p] = 2
  /\ UNCHANGED <<pending, mem>>

Ends(p) ==
  /\ p # 0 /\ Move(p, IF p \in Group THEN "work" ELSE "leaf", "zombie")
  /\ pending' = [pending EXCEPT ![p] = {}]
  /\ UNCHANGED mem

\* wait() returns with EINTR only when there is no child to reap.
Blocked(p) == at[p] = "wait" /\ \A c \in Children(p) : at[c] # "zombie"

\* Where a process is after a handler: it may have been before wait(), or in it; the kill()
\* of any but the root sets errno.
After(p) ==
  CASE at[p] = "interrupted" /\ p # 0 -> {"clobbered"}
    [] Blocked(p) -> {"wait", "interrupted"}
    [] OTHER -> {at[p]}

\* A handler runs; at its second SIGINT the root exits.
Handle(p, s) ==
  /\ IsPending(p, s) /\ s \in mem.caught[p]
  /\ LET first == p = 0 /\ mem.calls[s] = 0
     IN /\ pending' = IF first THEN Signalled(Group, s) ELSE Taken(p, {s})
        /\ mem' = [mem EXCEPT !.calls[s] = IF first THEN 1 ELSE @,
                              !.caught[p] = IF s \in mem.once THEN @ \ {s} ELSE @]
        /\ \E to \in IF p = 0 /\ s = "INT" /\ ~first THEN {"zombie"} ELSE After(p) :
             at' = [at EXCEPT ![p] = to]

\* The test of errno after wait(): EINTR, and wait again ...
TryAgain(p) == Move(p, "interrupted", "wait") /\ UNCHANGED <<pending, mem>>

\* ... or another error, and kill(-1, SIGKILL) reaches all but the process itself.
KillOthers(p) ==
  LET others == {q \in Nodes \ {p} : Live(q)} IN
  /\ at[p] = "clobbered"
  /\ at' = [q \in Procs |-> IF q = p THEN "wait" ELSE IF q \in others THEN "zombie" ELSE at[q]]
  /\ pending' = [q \in Procs |-> IF q \in others THEN {} ELSE pending[q]]
  /\ mem' = [mem EXCEPT !.killed = @ \cup others, !.shot = @ \cup {p}]

Killed(p, s) ==
  /\ IsPending(p, s) /\ s \notin mem.caught[p]
  /\ at' = [at EXCEPT ![p] = "zombie"]
  /\ pending' = [pending EXCEPT ![p] = {}]
  /\ mem' = [mem EXCEPT !.killed = @ \cup {p}]

Step(p) ==
  /\ p \in Nodes /\ Live(p)
  /\ \/ Ends(p)
     \/ /\ p \in Group
        /\ \/ Fork(p, "left", Left(p), "right") \/ Fork(p, "right", Right(p), "wait")
           \/ Wait(p) \/ TryAgain(p) \/ KillOthers(p) \/ AwaitedAll(p) \/ \E s \in Signals : Handle(p, s) \/ Killed(p, s)

-----------------------------------------------------------------------------
\* Properties.

TypeOK == mem.awaited \in [Group -> 0 .. 2] /\ mem.caught \in [Group -> SUBSET Signals]

Ended(p) == at[p] \in {"zombie", "reaped"}

\* A process that has counted its two children has reaped both, whatever
\* interrupted it, and goes on only then: one that ends by itself, the root on
\* its second SIGINT apart, leaves no child behind.  A signal ends a process only
\* if a handler was installed for one use, or if a handler came between the return
\* of wait() and the test of errno in a process other than the root.
TreeWaits ==
  /\ \A p \in Group :
       /\ mem.awaited[p] = Cardinality({c \in Children(p) : at[c] = "reaped"})
       /\ at[p] = "work" \/ (p = 0 /\ at[p] = "done") \/ (p # 0 /\ Ended(p) /\ p \notin mem.killed)
            => \A c \in Children(p) : at[c] = "reaped"
  /\ mem.killed # {} => mem.once # {} \/ mem.shot \ {0} # {}

\* LabDescription.md:64: a parent "waits for both children, handling EINTR".
InterruptedWaitsAgain == mem.shot = {}

\* LabDescription.md:64 and 122: the root waits for both children, unless it "receives
\* SIGINT twice"; here the user sends one.
RootWaits ==
  at[0] = "zombie" /\ 0 \notin mem.killed => \A c \in Children(0) : at[c] = "reaped"

\* One of the two holds.  A state where it does not refutes both descriptions at once.
DescribedWaits == InterruptedWaitsAgain \/ RootWaits

\* The root ends, and every other process too.
AllEnd == \A p \in Nodes : ~Live(p)

-----------------------------------------------------------------------------
\* The inductive invariant.

Places == {"none", "left", "right", "wait", "interrupted", "clobbered", "work", "done", "leaf", "zombie", "reaped"}

Memory ==
  [awaited : [Group -> Nat], calls : [Signals -> Nat], once : SUBSET Signals,
   caught : [Group -> SUBSET Signals], asked : BOOLEAN, killed : SUBSET Nodes, shot : SUBSET (Group \ {0})]

\* What a process has forked, what it has waited for, and which of its handlers are left.
NodeInv(p) ==
  /\ at[p] \in {"none", "left"} => at[Left(p)] = "none"
  /\ at[p] \in {"none", "left", "right"} => at[Right(p)] = "none"
  /\ mem.awaited[p] = (IF at[Left(p)] = "reaped" THEN 1 ELSE 0)
                      + (IF at[Right(p)] = "reaped" THEN 1 ELSE 0)
  /\ at[p] = "work" \/ (p = 0 /\ at[p] = "done") \/ (p # 0 /\ Ended(p) /\ p \notin mem.killed)
       => at[Left(p)] = "reaped" /\ at[Right(p)] = "reaped"
  /\ Signals \ mem.once \subseteq mem.caught[p]

IndInv ==
  /\ at \in [Procs -> Places] /\ mem \in Memory
  /\ mem.killed # {} => mem.once # {} \/ mem.shot # {}
  /\ at[0] # "clobbered"
  /\ \A p \in Group : NodeInv(p)
=============================================================================
