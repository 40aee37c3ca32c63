----------------------------- MODULE NightShop -----------------------------
(***************************************************************************)
(* The night shift of moroz/ConsultationL3/sop-shop.c: workers take two    *)
(* shelves in the order of their numbers and put the products on them in   *)
(* order; a signal thread prints or shuffles all shelves, cancels workers  *)
(* one by one, and raises the flag that ends the shift.                    *)
(*                                                                         *)
(* A step is a lock, an unlock, a read or write of a shelf, or a sleep: a  *)
(* thread that was cancelled ends in its next sleep (pthread_mutex_lock is *)
(* no cancellation point).  Nothing blocks under flag_mutex, so a section  *)
(* under it is one step.  A default mutex its owner locks again blocks.    *)
(***************************************************************************)
EXTENDS Naturals, Sequences, FiniteSets

CONSTANTS
  N,          \* productsNum, at least two
  Employees,  \* employeesNum
  Nights      \* sets of signals: those the user sends in one night; alarm(1) after a
              \* print sends SIGALRM as well

ASSUME ShopAssumption ==
  /\ N \in Nat /\ N > 1
  /\ Employees \in Nat \ {0}
  /\ Nights \subseteq SUBSET {"INT", "ALRM", "USR1", "USR2"}

Shelves  == 0 .. N - 1
Products == 1 .. N
Workers  == 1 .. Employees
Sig      == 0
Nobody   == Employees + 1

IsArrangement(s) ==
  /\ s \in [Shelves -> Products]
  /\ \A i, j \in Shelves : s[i] = s[j] => i = j
Orders == {p \in [Shelves -> Shelves] : \A i, j \in Shelves : p[i] = p[j] => i = j}

VARIABLES
  shelves,
  shelf_mutexes,   \* the thread that holds each
  flag,
  pc,              \* where each worker is
  pair,            \* product1 and product2
  reg,             \* the values SWAP read
  cancelled,       \* pthread_cancel was called for the worker
  active,          \* active_indices: the workers not yet cancelled
  sigpc,           \* where the signal thread is
  next,            \* the next shelf it locks or unlocks
  night,           \* the signals of this night
  pending,         \* signals sent and not taken
  joined           \* workers main has joined; Employees + 1 when it has printed and ended

locks   == <<shelf_mutexes, flag>>
worker  == <<pc, pair, reg>>
signal  == <<cancelled, active, sigpc, next>>
vars    == <<shelves, locks, worker, signal, night, pending, joined>>

NoPair == <<0, 0>>

TypeOK ==
  /\ shelves \in [Shelves -> Products]
  /\ shelf_mutexes \in [Shelves -> 0 .. Employees + 1]
  /\ flag \in BOOLEAN
  /\ pc \in [Workers -> {"start", "flag", "sleep", "first", "second", "compare", "write1",
                         "write2", "hold", "unlock1", "unlock2", "cleanup", "ended"}]
  /\ pair \in [Workers -> Shelves \X Shelves]
  /\ reg \in [Workers -> (Products \cup {0}) \X (Products \cup {0})]
  /\ cancelled \in [Workers -> BOOLEAN]
  /\ active \in Seq(Workers)
  /\ sigpc \in {"sigwait", "lockPrint", "print", "lockShuffle", "shuffle", "unlock",
                "done"}
  /\ next \in Shelves
  /\ night \in Nights /\ pending \subseteq night
  /\ joined \in 0 .. Employees + 1

Init ==
  /\ IsArrangement(shelves)
  /\ shelf_mutexes = [i \in Shelves |-> Nobody]
  /\ flag = FALSE
  /\ pc = [w \in Workers |-> "start"]
  /\ pair = [w \in Workers |-> NoPair] /\ reg = [w \in Workers |-> NoPair]
  /\ cancelled = [w \in Workers |-> FALSE]
  /\ active = [i \in Workers |-> i]
  /\ sigpc = "sigwait" /\ next = 0
  /\ night \in Nights /\ pending = {}
  /\ joined = 0

-----------------------------------------------------------------------------
\* Workers.

Goto(w, from, to) == pc[w] = from /\ pc' = [pc EXCEPT ![w] = to]
First(w)  == pair[w][1]
Second(w) == pair[w][2]
Others    == UNCHANGED <<flag, signal, night, pending, joined>>

Lock_Try(w, i) ==
  shelf_mutexes' = IF shelf_mutexes[i] = Nobody THEN [shelf_mutexes EXCEPT ![i] = w] ELSE shelf_mutexes

Lock(w, i)   == shelf_mutexes[i] = Nobody /\ shelf_mutexes' = [shelf_mutexes EXCEPT ![i] = w]
Unlock(i)    == shelf_mutexes' = [shelf_mutexes EXCEPT ![i] = Nobody]

\* printf may act on a cancellation or not.
Report(w) ==
  /\ \/ Goto(w, "start", "flag")
     \/ Goto(w, "start", "ended") /\ cancelled[w]
  /\ UNCHANGED <<shelves, shelf_mutexes, pair, reg>> /\ Others

FlagRaised(w) ==
  /\ Goto(w, "flag", "ended")
  /\ flag
  /\ UNCHANGED <<shelves, shelf_mutexes, pair, reg>> /\ Others

\* Two different shelves.
Choose(w, p, q) ==
  /\ Goto(w, "flag", "sleep")
  /\ ~flag /\ p # q
  /\ pair' = [pair EXCEPT ![w] = <<p, q>>]
  /\ UNCHANGED <<shelves, shelf_mutexes, reg>> /\ Others

Sleep_Unsorted(w) ==
  /\ Goto(w, "sleep", IF cancelled[w] THEN "ended" ELSE "first")
  /\ pair' = IF cancelled[w] THEN [pair EXCEPT ![w] = NoPair] ELSE pair
  /\ UNCHANGED <<shelves, shelf_mutexes, reg>> /\ Others

\* Awake, the worker puts them in the order of their numbers.
Sleep(w) ==
  /\ Goto(w, "sleep", IF cancelled[w] THEN "ended" ELSE "first")
  /\ pair' = [pair EXCEPT ![w] = IF cancelled[w] THEN NoPair
                                  ELSE IF First(w) > Second(w) THEN <<Second(w), First(w)>>
                                  ELSE @]
  /\ UNCHANGED <<shelves, shelf_mutexes, reg>> /\ Others

LockFirst(w) ==
  /\ Goto(w, "first", "second")
  /\ Lock(w, First(w))
  /\ UNCHANGED <<shelves, pair, reg>> /\ Others

LockSecond(w) ==
  /\ Goto(w, "second", "compare")
  /\ Lock(w, Second(w))
  /\ UNCHANGED <<shelves, pair, reg>> /\ Others

Compare(w) ==
  LET x == shelves[First(w)]
      y == shelves[Second(w)]
  IN /\ Goto(w, "compare", IF x > y THEN "write1" ELSE "unlock1")
     /\ reg' = IF x > y THEN [reg EXCEPT ![w] = <<x, y>>] ELSE reg
     /\ UNCHANGED <<shelves, shelf_mutexes, pair>> /\ Others

WriteFirst(w) ==
  /\ Goto(w, "write1", "write2")
  /\ shelves' = [shelves EXCEPT ![First(w)] = reg[w][2]]
  /\ UNCHANGED <<shelf_mutexes, pair, reg>> /\ Others

WriteSecond(w) ==
  /\ Goto(w, "write2", "hold")
  /\ shelves' = [shelves EXCEPT ![Second(w)] = reg[w][1]]
  /\ reg' = [reg EXCEPT ![w] = NoPair]
  /\ UNCHANGED <<shelf_mutexes, pair>> /\ Others

\* The sleep with both shelves locked: cancellation runs the handlers, and
\* the last one pushed locks the second shelf, which the worker holds itself:
\* it stays in "cleanup".
Hold(w) ==
  /\ Goto(w, "hold", IF cancelled[w] THEN "cleanup" ELSE "unlock1")
  /\ UNCHANGED <<shelves, shelf_mutexes, pair, reg>> /\ Others

UnlockFirst(w) ==
  /\ Goto(w, "unlock1", "unlock2")
  /\ Unlock(First(w))
  /\ UNCHANGED <<shelves, pair, reg>> /\ Others

UnlockSecond_First(w) ==
  /\ Goto(w, "unlock2", "flag")
  /\ Unlock(First(w))
  /\ pair' = [pair EXCEPT ![w] = NoPair]
  /\ UNCHANGED <<shelves, reg>> /\ Others

UnlockSecond(w) ==
  /\ Goto(w, "unlock2", "flag")
  /\ Unlock(Second(w))
  /\ pair' = [pair EXCEPT ![w] = NoPair]
  /\ UNCHANGED <<shelves, reg>> /\ Others

WorkerStep(w) ==
  \/ Report(w) \/ FlagRaised(w) \/ (\E p, q \in Shelves : Choose(w, p, q))
  \/ Sleep(w) \/ LockFirst(w) \/ LockSecond(w) \/ Compare(w)
  \/ WriteFirst(w) \/ WriteSecond(w) \/ Hold(w)
  \/ UnlockFirst(w) \/ UnlockSecond(w)

-----------------------------------------------------------------------------
\* The signal thread.

Take(sig) == sigpc = "sigwait" /\ sig \in pending /\ pending' = pending \ {sig}

Interrupted ==
  /\ Take("INT")
  /\ flag' = TRUE /\ sigpc' = "done"
  /\ UNCHANGED <<shelves, shelf_mutexes, worker, cancelled, active, next, night, joined>>

ShelvesWanted ==
  /\ \/ Take("ALRM") /\ sigpc' = "lockPrint"
     \/ Take("USR1") /\ sigpc' = "lockShuffle"
  /\ UNCHANGED <<shelves, locks, worker, cancelled, active, next, night, joined>>

LockShelf ==
  /\ sigpc \in {"lockPrint", "lockShuffle"}
  /\ Lock(Sig, next)
  /\ next' = IF next = N - 1 THEN 0 ELSE next + 1
  /\ sigpc' = IF next # N - 1 THEN sigpc
              ELSE IF sigpc = "lockPrint" THEN "print" ELSE "shuffle"
  /\ UNCHANGED <<shelves, flag, worker, cancelled, active, night, pending, joined>>

PrintShop ==
  /\ sigpc = "print" /\ sigpc' = "unlock"
  /\ UNCHANGED <<shelves, locks, worker, cancelled, active, next, night, pending, joined>>

Shuffle(p) ==
  /\ sigpc = "shuffle" /\ sigpc' = "unlock"
  /\ shelves' = [i \in Shelves |-> shelves[p[i]]]
  /\ UNCHANGED <<locks, worker, cancelled, active, next, night, pending, joined>>

UnlockShelf ==
  /\ sigpc = "unlock"
  /\ Unlock(next)
  /\ next' = IF next = N - 1 THEN 0 ELSE next + 1
  /\ sigpc' = IF next = N - 1 THEN "sigwait" ELSE "unlock"
  /\ UNCHANGED <<shelves, flag, worker, cancelled, active, night, pending, joined>>

WithoutActive_Last(k) == [i \in 1 .. Len(active) - 1 |-> active[i]]

\* The last active worker takes the place of the cancelled one.
WithoutActive(k) ==
  [i \in 1 .. Len(active) - 1 |-> IF i = k THEN active[Len(active)] ELSE active[i]]

CancelWorker(k) ==
  /\ Take("USR2")
  /\ k \in 1 .. Len(active)
  /\ cancelled' = [cancelled EXCEPT ![active[k]] = TRUE]
  /\ active' = WithoutActive(k)
  /\ sigpc' = IF active' = <<>> THEN "done" ELSE "sigwait"
  /\ flag' = (flag \/ active' = <<>>)
  /\ UNCHANGED <<shelves, shelf_mutexes, worker, next, night, joined>>

SigStep ==
  \/ Interrupted \/ ShelvesWanted \/ LockShelf \/ PrintShop \/ UnlockShelf
  \/ \E p \in Orders : Shuffle(p)
  \/ \E k \in Workers : CancelWorker(k)

-----------------------------------------------------------------------------
\* main and the outside.

JoinWorker ==
  /\ joined < Employees
  /\ pc[joined + 1] = "ended"
  /\ joined' = joined + 1
  /\ UNCHANGED <<shelves, locks, worker, signal, night, pending>>

JoinSignalThread ==
  /\ joined = Employees /\ sigpc = "done"
  /\ joined' = Employees + 1
  /\ UNCHANGED <<shelves, locks, worker, signal, night, pending>>

MainStep == JoinWorker \/ JoinSignalThread

Send(sig) ==
  /\ joined <= Employees /\ sig \notin pending
  /\ pending' = pending \cup {sig}
  /\ UNCHANGED <<shelves, locks, worker, signal, night, joined>>

Next ==
  \/ \E w \in Workers : WorkerStep(w)
  \/ SigStep \/ MainStep
  \/ \E sig \in night : Send(sig)

Spec == Init /\ [][Next]_vars

\* Every thread runs; a thread that waits for a mutex gets it if it stays free.
FairSpec ==
  /\ Spec
  /\ \A w \in Workers : WF_vars(WorkerStep(w))
  /\ WF_vars(SigStep) /\ WF_vars(MainStep)

-----------------------------------------------------------------------------
\* Properties.

\* A worker the cancellation caught while it holds two shelves: its handler
\* locks what it holds, and the shelves are never released.
Hung(w) == pc[w] = "cleanup"

\* The shelves as they will be when the swaps that began are finished: the second write
\* is still to be done by the worker that holds the shelf.
Settled ==
  [i \in Shelves |->
     LET w == shelf_mutexes[i] IN
     IF w \in Workers /\ pc[w] = "write2" /\ Second(w) = i THEN reg[w][1] ELSE shelves[i]]

\* No product is lost or doubled, and the shop main prints at the end, and the
\* signal thread prints or shuffles, holds every product.
ProductsStay ==
  /\ IsArrangement(Settled)
  /\ sigpc \in {"print", "shuffle"} \/ joined = Employees + 1 => IsArrangement(shelves)

\* Only a worker that hangs in its handler can stop the shop: threads that wait
\* for shelves never wait for each other.
BlockedOnlyByCancel ==
  joined = Employees + 1 \/ (\E w \in Workers : Hung(w))
    \/ ENABLED (SigStep \/ MainStep \/ \E w \in Workers : WorkerStep(w))

\* A worker's swap removes inversions and never adds one: what it compared is
\* what it writes.  Only a shuffle may.
Inversions(s) ==
  Cardinality({d \in Shelves \X Shelves : d[1] < d[2] /\ s[d[1]] > s[d[2]]})
OrderImproves == [][sigpc = "shuffle" \/ Inversions(Settled') <= Inversions(Settled)]_vars

\* A worker is cancelled once, and never after main has joined it: its thread
\* id would be stale.
CancelsLiveThread ==
  [][\A k \in Workers : CancelWorker(k) => ~cancelled[active[k]] /\ active[k] > joined]_vars

\* Once the flag is raised the shift ends, unless a worker hangs.
ShiftEnds == flag ~> joined = Employees + 1 \/ \E w \in Workers : Hung(w)

-----------------------------------------------------------------------------
\* The inductive invariant.

\* Which shelves a worker has locked where it is, the lower one first.
WorkersHold ==
  \A w \in Workers :
    /\ pc[w] = "sleep" => First(w) # Second(w)
    /\ pc[w] \in {"first", "second", "compare", "write1", "write2", "hold", "unlock1",
                  "unlock2", "cleanup"} => First(w) < Second(w)
    /\ pc[w] \in {"second", "compare", "write1", "write2", "hold", "unlock1", "cleanup"} =>
         shelf_mutexes[First(w)] = w
    /\ pc[w] \in {"compare", "write1", "write2", "hold", "unlock1", "unlock2", "cleanup"} =>
         shelf_mutexes[Second(w)] = w

\* The signal thread locks and unlocks the shelves from the first to the last.
SigShelves ==
  {i \in Shelves : \/ sigpc \in {"lockPrint", "lockShuffle"} /\ i < next
                   \/ sigpc \in {"print", "shuffle"}
                   \/ sigpc = "unlock" /\ i >= next}

SigHolds ==
  /\ sigpc \in {"sigwait", "print", "shuffle"} => next = 0
  /\ \A i \in SigShelves : shelf_mutexes[i] = Sig

\* What a worker has read is still on the shelves, and not in order.
SwapInv ==
  \A w \in Workers :
    /\ pc[w] = "write1" =>
         /\ reg[w] = <<shelves[First(w)], shelves[Second(w)]>>
         /\ reg[w][1] > reg[w][2]
    /\ pc[w] = "write2" => reg[w][2] = shelves[First(w)]

\* The workers that can be cancelled are the ones that were not, each once.
ActiveInv ==
  /\ \A j, k \in DOMAIN active : active[j] = active[k] => j = k
  /\ \A k \in DOMAIN active : ~cancelled[active[k]]

\* A thread ends when it was cancelled or when the flag is up, and the signal thread raises it
\* as the last thing it does.
EndInv ==
  /\ flag <=> sigpc = "done"
  /\ \A w \in Workers : pc[w] = "ended" => cancelled[w] \/ flag
  /\ \A w \in Workers : w <= joined => pc[w] = "ended"

\* The inductive invariant: each part alone is not inductive.
IndInv ==
  /\ TypeOK
  /\ WorkersHold /\ SigHolds /\ SwapInv /\ IsArrangement(Settled) /\ ActiveInv /\ EndInv
=============================================================================
