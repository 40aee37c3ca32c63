----------------------------- MODULE NumberList -----------------------------
(***************************************************************************)
(* moroz/PracticeTasks_Lab03/prog19.c: main prints the list of numbers,    *)
(* once a second, until the flag stop is set; a thread takes SIGINT and    *)
(* SIGQUIT with sigwait, removes an entry for the one and sets the flag    *)
(* for the other.  Main never initializes the flag.  All sections are      *)
(* under one mutex and wait for nothing: each is one step.                 *)
(***************************************************************************)
EXTENDS Processes, Sequences

CONSTANTS
  Length       \* k

\* What the constants are.
ListConstants ==
  /\ Length \in Nat \ {0}
  /\ {0, 1} \subseteq Procs

\* Thread 1 is sig_thread.  stop: the flag, anything at first; list: array up
\* to len; shown: the list main printed last; quit: history, SIGQUIT was sent.
Init ==
  /\ at = OnlyFirst("create") /\ pending = NothingPending
  /\ \E garbage \in BOOLEAN :
       mem = [stop |-> garbage, list |-> [i \in 1 .. Length |-> i], shown |-> <<>>,
              quit |-> FALSE]

User == \E s \in {"INT", "QUIT"} :
  /\ at[0] # "done" /\ ~mem.quit
  /\ pending' = Signalled({1}, s)
  /\ mem' = [mem EXCEPT !.quit = @ \/ (s = "QUIT" /\ Live(1))]
  /\ UNCHANGED at

Create ==
  /\ at[0] = "create" /\ at' = [at EXCEPT ![0] = "loop", ![1] = "wait"]
  /\ UNCHANGED <<pending, mem>>

TestStop ==
  /\ Move(0, "loop", IF mem.stop THEN "join" ELSE "print")
  /\ UNCHANGED <<pending, mem>>

PrintList ==
  /\ Move(0, "print", "loop") /\ mem' = [mem EXCEPT !.shown = mem.list]
  /\ UNCHANGED pending

Join ==
  /\ Move(0, "join", "done") /\ at[1] = "zombie"
  /\ UNCHANGED <<pending, mem>>

SigWait(s) ==
  /\ Move(1, "wait", s) /\ IsPending(1, s)
  /\ pending' = Taken(1, {s}) /\ UNCHANGED mem

\* The entries behind the removed one move up; an empty list stays.
RemoveEntry ==
  /\ Move(1, "INT", "wait")
  /\ LET len == Len(mem.list)
     IN IF len = 0 THEN UNCHANGED mem
        ELSE \E i \in 1 .. len :
               mem' = [mem EXCEPT !.list = SubSeq(@, 1, i - 1) \o SubSeq(@, i + 1, len)]
  /\ UNCHANGED pending

SetStop ==
  /\ Move(1, "QUIT", "zombie") /\ mem' = [mem EXCEPT !.stop = TRUE]
  /\ UNCHANGED pending

Step(p) ==
  CASE p = 0 -> Create \/ TestStop \/ PrintList \/ Join
    [] p = 1 -> (\E s \in {"INT", "QUIT"} : SigWait(s)) \/ RemoveEntry \/ SetStop
    [] OTHER -> FALSE

-----------------------------------------------------------------------------
\* Properties.

TypeOK == mem.stop \in BOOLEAN /\ Len(mem.list) \in 0 .. Length

\* Every list main prints is the numbers in order, each once, some left out,
\* and none that was left out comes back.
CountsAddUp ==
  /\ \A i \in 1 .. Len(mem.list) - 1 : mem.list[i] < mem.list[i + 1]
  /\ mem.shown # <<>> =>
       {mem.list[i] : i \in DOMAIN mem.list} \subseteq {mem.shown[i] : i \in DOMAIN mem.shown}

\* The array is freed when the thread has ended, even if main left its loop
\* at once because of what stop held.
AllReaped == at[0] = "done" => at[1] = "zombie" /\ mem.quit

\* The program ends after SIGQUIT.
Ends == at[0] = "done" \/ ~mem.quit

-----------------------------------------------------------------------------
\* The inductive invariant.

Memory ==
  [stop : BOOLEAN, list : Seq(1 .. Length), shown : Seq(1 .. Length), quit : BOOLEAN]

Entries(s) == {s[i] : i \in DOMAIN s}

\* The list is in order, and was longer when it was printed; the thread comes
\* to its end by a SIGQUIT only.
IndInv ==
  /\ mem \in Memory /\ DOMAIN at = Procs /\ DOMAIN pending = Procs
  /\ at[0] \in {"create", "loop", "print", "join", "done"}
  /\ at[0] = "done" => at[1] = "zombie"
  /\ at[1] \in {"QUIT", "zombie"} \/ IsPending(1, "QUIT") => mem.quit
  /\ \A i, j \in 1 .. Len(mem.list) : i < j => mem.list[i] < mem.list[j]
  /\ mem.shown # <<>> => Entries(mem.list) \subseteq Entries(mem.shown)
=============================================================================
