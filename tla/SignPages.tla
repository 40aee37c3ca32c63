----------------------------- MODULE SignPages -----------------------------
(***************************************************************************)
(* moroz/PracticeL2/abc/ops-sign.c: the first process writes the pages,    *)
(* forks the signers, lets them start with SIGUSR1 and waits until         *)
(* sigchld_handler, which may run at any of its steps, has counted all of  *)
(* them down.  A signer waits for SIGUSR1, blocked but in its sigsuspend,  *)
(* and adds a line to every page.                                          *)
(***************************************************************************)
EXTENDS Processes, Sequences

CONSTANTS
  Signers,     \* argc - 2
  Pages        \* k

\* What the constants are.
SignersConstants ==
  /\ Signers \in Nat \ {0}
  /\ 1 .. Signers \subseteq Procs
  /\ Pages \in Nat \ {0}

Signer == 1 .. Signers

\* pages: the lines of each page, 0 for its title; left: children_left;
\* sent: signers that SIGUSR1 was sent to; start: start_flag of each signer;
\* signed: pages it has signed; shown: the last line of each page as printed.
Init ==
  /\ at = OnlyFirst("files") /\ pending = NothingPending
  /\ mem = [pages |-> [p \in 1 .. Pages |-> <<>>], left |-> 0, sent |-> 0,
            start |-> [s \in Signer |-> FALSE], signed |-> [s \in Signer |-> 0],
            shown |-> <<>>]

CreateFiles ==
  /\ Move(0, "files", "fork")
  /\ mem' = [mem EXCEPT !.pages = [p \in 1 .. Pages |-> <<0>>], !.left = Signers]
  /\ UNCHANGED pending

Fork(s) ==
  /\ at[0] = "fork" /\ at[s] = "none" /\ (s > 1 => at[s - 1] # "none")
  /\ at' = [at EXCEPT ![s] = "test", ![0] = IF s = Signers THEN "start" ELSE "fork"]
  /\ UNCHANGED <<pending, mem>>

Start ==
  /\ Move(0, "start", IF mem.sent + 1 = Signers THEN "test" ELSE "start")
  /\ mem' = [mem EXCEPT !.sent = @ + 1]
  /\ pending' = Signalled({mem.sent + 1}, "USR1")

\* SIGCHLD is open here: it may come after the test and before sigsuspend.
SomeLeft ==
  /\ Move(0, "test", "tested") /\ mem.left > 0
  /\ UNCHANGED <<pending, mem>>

Suspend == Move(0, "tested", "suspended") /\ UNCHANGED <<pending, mem>>

\* What sigchld_handler does to the parent: sigsuspend returns with EINTR, and when no child
\* is left waitpid fails with ECHILD, also while errno still waits for its test.
After(ended) ==
  CASE at[0] = "suspended" -> "woken"
    [] at[0] = "woken" /\ {s \in Signer : at[s] # "reaped"} \subseteq ended -> "clobbered"
    [] OTHER -> at[0]

\* sigchld_handler: every child that has ended by now.
ReapAll_One ==
  LET ended == {CHOOSE s \in Signer : at[s] = "zombie"}
  IN /\ at[0] \notin {"files", "done", "zombie"} /\ IsPending(0, "CHLD")
     /\ pending' = Taken(0, {"CHLD"})
     /\ at' = [p \in Procs |-> IF p = 0 THEN After(ended) ELSE IF p \in ended THEN "reaped" ELSE at[p]]
     /\ mem' = [mem EXCEPT !.left = @ - Cardinality(ended)]

ReapAll ==
  LET ended == {s \in Signer : at[s] = "zombie"}
  IN /\ at[0] \notin {"files", "done", "zombie"} /\ IsPending(0, "CHLD")
     /\ pending' = Taken(0, {"CHLD"})
     /\ at' = [p \in Procs |-> IF p = 0 THEN After(ended) ELSE IF p \in ended THEN "reaped" ELSE at[p]]
     /\ mem' = [mem EXCEPT !.left = @ - Cardinality(ended)]

\* The test of errno after sigsuspend: any other than EINTR is an error.
Resume == Move(0, "woken", "test") /\ UNCHANGED <<pending, mem>>

\* ERR: kill(0, SIGKILL), with no signer left in the group.
Fails ==
  /\ Move(0, "clobbered", "zombie")
  /\ pending' = [pending EXCEPT ![0] = {}]
  /\ UNCHANGED mem

PrintSignatures ==
  /\ Move(0, "test", "done") /\ mem.left = 0
  /\ mem' = [mem EXCEPT !.shown = [p \in 1 .. Pages |-> mem.pages[p][Len(mem.pages[p])]]]
  /\ UNCHANGED pending

-----------------------------------------------------------------------------
\* wait_for_start and child_work.

WaitForStart(s) ==
  /\ Move(s, "test", IF mem.start[s] THEN "sign" ELSE "suspended")
  /\ UNCHANGED <<pending, mem>>

Started(s) ==
  /\ Move(s, "suspended", "test")
  /\ IsPending(s, "USR1") /\ pending' = Taken(s, {"USR1"})
  /\ mem' = [mem EXCEPT !.start[s] = TRUE]

Sign_Overwrites(s) ==
  /\ at[s] = "sign" /\ mem.signed[s] < Pages
  /\ LET page == mem.signed[s] + 1
     IN mem' = [mem EXCEPT !.signed[s] = page, !.pages[page][1] = s]
  /\ UNCHANGED <<at, pending>>

\* The page is opened to append, so one write adds one line.
Sign(s) ==
  /\ at[s] = "sign" /\ mem.signed[s] < Pages
  /\ LET page == mem.signed[s] + 1
     IN mem' = [mem EXCEPT !.signed[s] = page, !.pages[page] = Append(@, s)]
  /\ UNCHANGED <<at, pending>>

SignerEnds(s) == mem.signed[s] = Pages /\ Exit(s, "sign", 0) /\ UNCHANGED mem

Step(p) ==
  IF p = 0
  THEN \/ CreateFiles \/ (\E s \in Signer : Fork(s)) \/ Start \/ SomeLeft \/ Suspend
       \/ ReapAll \/ Resume \/ Fails \/ PrintSignatures
  ELSE p \in Signer /\ (WaitForStart(p) \/ Started(p) \/ Sign(p) \/ SignerEnds(p))

-----------------------------------------------------------------------------
\* Properties.

TypeOK == mem.left \in 0 .. Signers /\ mem.signed \in [Signer -> 0 .. Pages]

\* Every page keeps its title and holds the line of each signer that has got
\* to it, once, though all of them write at the same time; what is printed at
\* the end is the line of a signer, the last one, with nobody left to come.
PagesSigned ==
  /\ at[0] # "files" =>
       \A p \in 1 .. Pages :
         LET page == mem.pages[p]
         IN /\ page[1] = 0
            /\ \A s \in Signer :
                 Cardinality({l \in 2 .. Len(page) : page[l] = s})
                   = IF mem.signed[s] >= p THEN 1 ELSE 0
  /\ at[0] = "done" =>
       \A p \in 1 .. Pages : Len(mem.pages[p]) = Signers + 1 /\ mem.shown[p] \in Signer

\* children_left counts the signers that are not reaped, though one SIGCHLD may
\* stand for several of them; the signatures are printed when all are reaped.
AllReaped ==
  at[0] \notin {"files", "fork"} =>
    /\ mem.left = Cardinality({s \in Signer : at[s] # "reaped"})
    /\ at[0] \in {"done", "clobbered", "zombie"} => mem.left = 0

\* The program ends, with the signatures printed unless its last SIGCHLD came between
\* the return of sigsuspend and the test of errno, which is an error then; or that
\* SIGCHLD came between the test of children_left and sigsuspend and it waits for ever.
Ends == at[0] \in {"done", "zombie"} \/ (at[0] = "suspended" /\ mem.left = 0)

-----------------------------------------------------------------------------
\* The inductive invariant.

Places == {"files", "fork", "start", "test", "tested", "suspended", "woken", "clobbered", "done",
           "none", "sign", "zombie", "reaped"}

Memory ==
  [pages : [1 .. Pages -> Seq(0 .. Signers)], left : Nat, sent : Nat,
   start : [Signer -> BOOLEAN], signed : [Signer -> 0 .. Pages],
   shown : {<<>>} \cup [1 .. Pages -> 0 .. Signers]]

MemOK ==
  /\ at \in [Procs -> Places] /\ mem \in Memory
  /\ at[0] \notin {"none", "sign", "reaped"}

\* A signer signs after it was started and ends when it has signed all.
SignerInv(s) ==
  /\ at[0] = "files" => at[s] = "none"
  /\ at[s] \in {"none", "test", "suspended", "sign", "zombie", "reaped"}
  /\ at[s] \in {"none", "test", "suspended"} => mem.signed[s] = 0
  /\ at[s] \in {"zombie", "reaped"} => mem.signed[s] = Pages

\* A page has its title and the lines of the signers that got to it.
LinesOf(s, p) == {l \in 2 .. Len(mem.pages[p]) : mem.pages[p][l] = s}

PageInv(p) ==
  /\ Len(mem.pages[p]) = 1 + Cardinality({s \in Signer : mem.signed[s] >= p})
  /\ mem.pages[p][1] = 0
  /\ \A l \in 2 .. Len(mem.pages[p]) : mem.pages[p][l] \in Signer
  /\ \A s \in Signer : Cardinality(LinesOf(s, p)) = IF mem.signed[s] >= p THEN 1 ELSE 0

\* children_left counts from the time the files are there.
LeftInv ==
  /\ mem.left = Cardinality({s \in Signer : at[s] # "reaped"})
  /\ at[0] \in {"done", "clobbered", "zombie"} => mem.left = 0
  /\ at[0] = "done" => \A p \in 1 .. Pages : mem.shown[p] \in Signer

IndInv ==
  /\ MemOK
  /\ \A s \in Signer : SignerInv(s)
  /\ at[0] # "files" => LeftInv /\ \A p \in 1 .. Pages : PageInv(p)
=============================================================================
