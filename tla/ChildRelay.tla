----------------------------- MODULE ChildRelay -----------------------------
(***************************************************************************)
(* lesha/maciej_task/main.c: the parent starts its children one after the  *)
(* other with SIGUSR1, each time waiting until somebody sends SIGUSR1 to   *)
(* the parent itself, which no child does, and stops the child with        *)
(* SIGUSR2.  The handlers of the children are set before the forks, the    *)
(* parent's after them, and nothing is blocked.                            *)
(* The user sends SIGUSR1 to the parent, at most MaxCalls times.           *)
(***************************************************************************)
EXTENDS Processes

CONSTANTS
  ChildCount,  \* child_count
  MaxCalls

\* What the constants are.
RelayConstants ==
  /\ ChildCount \in Nat \ {0}
  /\ 1 .. ChildCount \subseteq Procs
  /\ MaxCalls \in Nat

Child == 1 .. ChildCount

\* start, stop: start_job and stop_job of each process; send: send_new_child;
\* now: the child being served; calls: sent by the user; served: history, the
\* children whose stop was sent.
Init ==
  /\ at = OnlyFirst("fork") /\ pending = NothingPending
  /\ mem = [start |-> [p \in 0 .. ChildCount |-> FALSE], stop |-> [c \in Child |-> FALSE],
            send |-> FALSE, now |-> 1, calls |-> 0, served |-> {}]

User ==
  /\ mem.calls < MaxCalls /\ at[0] # "done"
  /\ pending' = Signalled({0}, "USR1")
  /\ mem' = [mem EXCEPT !.calls = @ + 1] /\ UNCHANGED at

\* A child inherits start_job, which the parent's first handler may have set.
Fork(c) ==
  /\ at[0] = "fork" /\ at[c] = "none" /\ (c > 1 => at[c - 1] # "none")
  /\ at' = [at EXCEPT ![c] = "idle", ![0] = IF c = ChildCount THEN "sethandler" ELSE "fork"]
  /\ mem' = [mem EXCEPT !.start[c] = mem.start[0]]
  /\ UNCHANGED pending

SetHandler == Move(0, "sethandler", "serve") /\ UNCHANGED <<pending, mem>>

\* child_usr1_handler in the parent, and then parent_usr1_handler.
Called ==
  /\ Live(0) /\ IsPending(0, "USR1") /\ pending' = Taken(0, {"USR1"})
  /\ mem' = IF at[0] \in {"fork", "sethandler"} THEN [mem EXCEPT !.start[0] = TRUE]
            ELSE [mem EXCEPT !.send = TRUE]
  /\ UNCHANGED at

Serve ==
  /\ Move(0, "serve", "await") /\ pending' = Signalled({mem.now}, "USR1")
  /\ UNCHANGED mem

StopChild ==
  /\ Move(0, "await", "reset") /\ mem.send
  /\ pending' = Signalled({mem.now}, "USR2")
  /\ mem' = [mem EXCEPT !.served = @ \cup {mem.now}]

\* A call that comes before this is forgotten.
Reset ==
  /\ Move(0, "reset", IF mem.now = ChildCount THEN "wait" ELSE "serve")
  /\ mem' = [mem EXCEPT !.send = FALSE, !.now = IF @ = ChildCount THEN @ ELSE @ + 1]
  /\ UNCHANGED pending

Wait(c) ==
  /\ at[0] = "wait" /\ Move(c, "zombie", "reaped")
  /\ UNCHANGED <<pending, mem>>

NoneLeft ==
  /\ Move(0, "wait", "done") /\ \A c \in Child : at[c] = "reaped"
  /\ UNCHANGED <<pending, mem>>

ChildHandles(c, s) ==
  /\ Live(c) /\ IsPending(c, s) /\ pending' = Taken(c, {s})
  /\ mem' = IF s = "USR1" THEN [mem EXCEPT !.start[c] = TRUE] ELSE [mem EXCEPT !.stop[c] = TRUE]
  /\ UNCHANGED at

StartWork(c) == Move(c, "idle", "work") /\ mem.start[c] /\ UNCHANGED <<pending, mem>>
EndWork(c)   == Move(c, "work", "zombie") /\ mem.stop[c] /\ UNCHANGED <<pending, mem>>

Step(p) ==
  IF p = 0
  THEN \/ SetHandler \/ Called \/ Serve \/ StopChild \/ Reset \/ NoneLeft
       \/ \E c \in Child : Fork(c) \/ Wait(c)
  ELSE p \in Child /\ ((\E s \in {"USR1", "USR2"} : ChildHandles(p, s)) \/ StartWork(p) \/ EndWork(p))

-----------------------------------------------------------------------------
\* Properties.

TypeOK == mem.now \in Child /\ mem.calls \in 0 .. MaxCalls

\* Every child that ends was started and stopped, in its turn, by a call of its
\* own: calls are merged or forgotten, never invented.
AllReaped ==
  /\ \A c \in Child : at[c] \in {"zombie", "reaped"} => 1 .. c \subseteq mem.served
  /\ Cardinality(mem.served) <= mem.calls
  /\ at[0] = "done" => \A c \in Child : at[c] = "reaped"

\* The program ends, or waits for a call of the user.
Ends == at[0] = "done" \/ (at[0] = "await" /\ ~mem.send)

-----------------------------------------------------------------------------
\* The inductive invariant.

Memory ==
  [start : [0 .. ChildCount -> BOOLEAN], stop : [Child -> BOOLEAN], send : BOOLEAN,
   now : Child, calls : Nat, served : SUBSET Child]

\* The children that have been told to stop: those before the one served now,
\* and that one too when the parent is past its StopChild.
Served == IF at[0] \in {"reset", "wait", "done"} THEN mem.now ELSE mem.now - 1

\* A call that is pending, or noted and not spent yet.
Called0  == IF IsPending(0, "USR1") THEN 1 ELSE 0
Unspent == IF mem.send /\ at[0] # "reset" THEN 1 ELSE 0

IndInv ==
  /\ mem \in Memory /\ DOMAIN at = Procs /\ DOMAIN pending = Procs
  /\ at[0] \in {"fork", "sethandler", "serve", "await", "reset", "wait", "done"}
  /\ at[0] \in {"wait", "done"} => mem.now = ChildCount
  /\ mem.served = 1 .. Served
  /\ Served + Called0 + Unspent <= mem.calls
  /\ \A c \in Child :
       at[c] \in {"zombie", "reaped"} \/ mem.stop[c] \/ IsPending(c, "USR2") => c \in mem.served
  /\ at[0] = "done" => \A c \in Child : at[c] = "reaped"
=============================================================================
