------------------------------- MODULE Office -------------------------------
(***************************************************************************)
(* moroz/w2/mykhailo_moroz/ops-admin.c: after a first signal the highest   *)
(* administrator forks its subordinates, each of which forks its own; then *)
(* all wait in sigsuspend.  A signal is a document: it is archived, or     *)
(* passed on to the superior with SIGUSR2; the highest one, Franz_Joseph,  *)
(* ignores it instead.                                                     *)
(* SIGUSR1 and SIGUSR2 are blocked but in the two calls of sigsuspend.     *)
(* Nobody leaves the office: the code behind the endless loop, which reaps *)
(* the children, is not reached.                                           *)
(*                                                                         *)
(* MaxDocuments bounds the signals of the user.                            *)
(***************************************************************************)
EXTENDS Processes

CONSTANTS
  Officials,   \* administrators 0 .. Officials, each with at most two subordinates
  MaxDocuments

\* What the constants are.
OfficeConstants ==
  /\ Officials \in Nat
  /\ 0 .. Officials \subseteq Procs
  /\ MaxDocuments \in Nat

Official         == 0 .. Officials
Superior(p)      == (p - 1) \div 2
Subordinates(p)  == {s \in Official \ {0} : Superior(s) = p}

\* Histories: how many signals the user has sent, and how many documents were
\* archived, ignored at the top, merged with another, or taken for the first
\* signal.
Init ==
  /\ at = OnlyFirst("start") /\ pending = NothingPending
  /\ mem = [brought |-> 0, archived |-> 0, ignored |-> 0, merged |-> 0, opened |-> 0]

User ==
  /\ mem.brought < MaxDocuments
  /\ \E p \in Official, s \in {"USR1", "USR2"} :
       /\ Live(p) /\ pending' = Signalled({p}, s)
       /\ mem' = [mem EXCEPT !.brought = @ + 1,
                             !.merged = IF IsPending(p, s) THEN @ + 1 ELSE @]
  /\ UNCHANGED at

\* The first sigsuspend of main: all that is pending is handled.
OpenOffice ==
  /\ Move(0, "start", "inspect")
  /\ pending[0] # {} /\ pending' = [pending EXCEPT ![0] = {}]
  /\ mem' = [mem EXCEPT !.opened = Cardinality(pending[0])]

\* get_subordinates: the next line of the file.
Fork(p, s) ==
  /\ at[p] = "inspect" /\ at[s] = "none"
  /\ \A r \in Subordinates(p) : r < s => at[r] # "none"
  /\ at' = [at EXCEPT ![s] = "inspect"]
  /\ UNCHANGED <<pending, mem>>

Inspected(p) ==
  /\ Move(p, "inspect", "suspended") /\ \A s \in Subordinates(p) : at[s] # "none"
  /\ UNCHANGED <<pending, mem>>

\* sigsuspend returns after the handlers of both signals: one document.
Receive(p) ==
  /\ Move(p, "suspended", "choice")
  /\ pending[p] # {} /\ pending' = [pending EXCEPT ![p] = {}]
  /\ mem' = [mem EXCEPT !.merged = @ + Cardinality(pending[p]) - 1]

\* child_choice.
Archive(p) ==
  /\ Move(p, "choice", "suspended") /\ mem' = [mem EXCEPT !.archived = @ + 1]
  /\ UNCHANGED pending

Ignore ==
  /\ Move(0, "choice", "suspended") /\ mem' = [mem EXCEPT !.ignored = @ + 1]
  /\ UNCHANGED pending

PassOn(p) ==
  /\ p # 0 /\ Move(p, "choice", "suspended")
  /\ pending' = Signalled({Superior(p)}, "USR2")
  /\ mem' = [mem EXCEPT !.merged = IF IsPending(Superior(p), "USR2") THEN @ + 1 ELSE @]

Step(p) ==
  /\ p \in Official
  /\ \/ p = 0 /\ (OpenOffice \/ Ignore)
     \/ (\E s \in Subordinates(p) : Fork(p, s)) \/ Inspected(p) \/ Receive(p)
     \/ Archive(p) \/ PassOn(p)

-----------------------------------------------------------------------------
\* Properties.

TypeOK == mem.brought \in 0 .. MaxDocuments /\ mem.merged \in 0 .. MaxDocuments

\* A document is on somebody's desk, archived, ignored at the top, merged with
\* another one, or was taken for the signal that opens the office: none is
\* lost in another way, and none is made twice.
CountsAddUp ==
  mem.brought =
    mem.archived + mem.ignored + mem.merged + mem.opened
    + Cardinality({d \in Official \X {"USR1", "USR2"} : IsPending(d[1], d[2])})
    + Cardinality({p \in Official : at[p] = "choice"})

\* Unless nothing opens it the whole office comes to wait, with no document left.
Ends ==
  \/ at[0] = "start"
  \/ \A p \in Official : at[p] = "suspended" /\ pending[p] = {}

-----------------------------------------------------------------------------
\* The inductive invariant.

Memory == [brought : Nat, archived : Nat, ignored : Nat, merged : Nat, opened : Nat]
Places == {"none", "start", "inspect", "suspended", "choice"}
Papers == [sig : {"USR1", "USR2"}, from : {0}]

OnDesk   == {d \in Official \X {"USR1", "USR2"} : IsPending(d[1], d[2])}
Choosing == {p \in Official : at[p] = "choice"}

\* An official is forked by its superior, so a document that is passed on
\* finds somebody; the office is opened once.
IndInv ==
  /\ mem \in Memory
  /\ at \in [Procs -> Places] /\ pending \in [Procs -> SUBSET Papers]
  /\ \A p \in Official \ {0} : at[p] # "none" => at[Superior(p)] # "none"
  /\ at[0] # "none" /\ (at[0] = "start" => mem.opened = 0)
  /\ mem.brought = mem.archived + mem.ignored + mem.merged + mem.opened
                   + Cardinality(OnDesk) + Cardinality(Choosing)
=============================================================================
