------------------------- MODULE ShopAndPortProofs -------------------------
(***************************************************************************)
(* Proofs about the two programs whose threads share mutexes with a signal *)
(* thread that sits in sigwait.                                            *)
(*                                                                         *)
(* NightShop, for every number of shelves and of workers and every choice  *)
(* of nights: its inductive invariant, that no product is lost or doubled, *)
(* that swaps only bring products into order, and that no thread is        *)
(* cancelled that main has joined.                                         *)
(*                                                                         *)
(* OpsPort, for any number of workers and any ships: the inductive         *)
(* invariant, the conservation of packages, and the refinement of          *)
(* PackageFlow.                                                            *)
(***************************************************************************)
EXTENDS NightShop, OpsPortMC, SequenceTheorems, FiniteSetTheorems, TLAPS

-----------------------------------------------------------------------------
(* Threads and shelves.                                                    *)

\* The signal thread and the absent owner are no workers, and the shelves have a first one.
LEMMA Threads ==
  /\ Sig \notin Workers /\ Nobody \notin Workers /\ Sig # Nobody
  /\ Workers \cup {Sig, Nobody} = 0 .. Employees + 1
  /\ Workers \subseteq Nat /\ Shelves \subseteq Nat
  /\ 0 \in Shelves /\ N - 1 \in Shelves
BY ShopAssumption DEF Sig, Nobody, Workers, Shelves

\* The shelves a worker has chosen are shelves.
LEMMA PairType ==
  ASSUME TypeOK, NEW w \in Workers
  PROVE  /\ First(w) \in Shelves /\ Second(w) \in Shelves
         /\ First(w) \in Nat /\ Second(w) \in Nat
BY Threads DEF TypeOK, First, Second

\* Two arrangements differ by a permutation of the shelves.
LEMMA Permuted ==
  ASSUME NEW s, IsArrangement(s), NEW p \in Orders
  PROVE  IsArrangement([i \in Shelves |-> s[p[i]]])
BY DEF IsArrangement, Orders

\* The order in which two shelves have changed places.
Swap(a, b) == [i \in Shelves |-> IF i = a THEN b ELSE IF i = b THEN a ELSE i]

\* The pairs of shelves whose products are not in order: a finite set, counted by Inversions.
Inverted(s) == {d \in Shelves \X Shelves : d[1] < d[2] /\ s[d[1]] > s[d[2]]}

LEMMA InvertedFinite ==
  ASSUME NEW s
  PROVE  IsFiniteSet(Inverted(s)) /\ Inversions(s) = Cardinality(Inverted(s))
         /\ Inversions(s) \in Nat
<1>1. IsFiniteSet(Shelves) BY ShopAssumption, FS_Interval DEF Shelves
<1>2. IsFiniteSet(Shelves \X Shelves) BY <1>1, FS_Product
<1>3. IsFiniteSet(Inverted(s)) BY <1>2, FS_Subset DEF Inverted
<1>4. Cardinality(Inverted(s)) \in Nat BY <1>3, FS_CardinalityType
<1> QED BY <1>3, <1>4 DEF Inversions, Inverted

\* Two products that are not in order change places: a pair that is not in order afterwards stands
\* for the pair of shelves its products were on, or for itself where those were the other way
\* round, and no two pairs stand for the same.
LEMMA SwapImproves ==
  ASSUME NEW s, IsArrangement(s), NEW a \in Shelves, NEW b \in Shelves, a < b, s[a] > s[b]
  PROVE  Inversions([i \in Shelves |-> s[Swap(a, b)[i]]]) <= Inversions(s)
<1> DEFINE o == Swap(a, b)
           t == [i \in Shelves |-> s[o[i]]]
           f == [d \in Inverted(t) |-> IF o[d[1]] < o[d[2]] THEN <<o[d[1]], o[d[2]]>> ELSE d]
<1>1. /\ \A i \in Shelves : o[i] \in Shelves /\ o[o[i]] = i
      /\ \A i \in Shelves : o[i] = IF i = a THEN b ELSE IF i = b THEN a ELSE i
  BY DEF Swap
<1>2. \A i \in Shelves : i \in Nat /\ s[i] \in Nat BY Threads DEF IsArrangement, Products
<1>3. \A d \in Inverted(t) :
        /\ d[1] \in Shelves /\ d[2] \in Shelves /\ d = <<d[1], d[2]>>
        /\ d[1] < d[2] /\ s[o[d[1]]] > s[o[d[2]]]
  BY DEF Inverted
<1> HIDE DEF o
<1>4. ASSUME NEW d \in Inverted(t) PROVE f[d] \in Inverted(s)
  <2> DEFINE i == d[1]
             j == d[2]
  <2>1. i \in Shelves /\ j \in Shelves /\ i < j /\ s[o[i]] > s[o[j]] BY <1>3
  <2>2. CASE o[i] < o[j] BY <1>1, <2>1, <2>2 DEF Inverted
  <2>3. CASE ~(o[i] < o[j])
    <3>1. /\ o[i] = IF i = a THEN b ELSE IF i = b THEN a ELSE i
          /\ o[j] = IF j = a THEN b ELSE IF j = b THEN a ELSE j
      BY <1>1, <2>1
    <3>2. i \in Nat /\ j \in Nat /\ a \in Nat /\ b \in Nat BY <1>2, <2>1
    <3>3. (i = a /\ j < b /\ o[i] = b /\ o[j] = j) \/ (j = b /\ i > a /\ o[i] = i /\ o[j] = a)
          \/ (i = a /\ j = b /\ o[i] = b /\ o[j] = a)
      <4> HIDE DEF i, j
      <4> QED BY <2>1, <2>3, <3>1, <3>2
    <3>4. s[i] \in Nat /\ s[j] \in Nat /\ s[a] \in Nat /\ s[b] \in Nat BY <1>2, <2>1
    <3>5. s[i] > s[j]
      <4> HIDE DEF i, j, t, f
      <4> QED BY <2>1, <3>3, <3>4
    <3>6. f[d] = d BY <2>3
    <3> QED BY <1>3, <2>1, <3>5, <3>6 DEF Inverted
  <2> QED BY <2>2, <2>3
<1>5. ASSUME NEW d \in Inverted(t), NEW e \in Inverted(t), f[d] = f[e] PROVE d = e
  <2>1. /\ d[1] \in Shelves /\ d[2] \in Shelves /\ d = <<d[1], d[2]>> /\ d[1] < d[2]
        /\ e[1] \in Shelves /\ e[2] \in Shelves /\ e = <<e[1], e[2]>> /\ e[1] < e[2]
    BY <1>3
  <2>2. /\ o[o[d[1]]] = d[1] /\ o[o[d[2]]] = d[2] /\ o[o[e[1]]] = e[1] /\ o[o[e[2]]] = e[2]
    BY <1>1, <2>1
  <2>3. /\ d[1] \in Nat /\ d[2] \in Nat /\ e[1] \in Nat /\ e[2] \in Nat BY <1>2, <2>1
  <2>4. CASE o[d[1]] < o[d[2]] /\ o[e[1]] < o[e[2]]
    <3>1. o[d[1]] = o[e[1]] /\ o[d[2]] = o[e[2]] BY <1>5, <2>4
    <3> QED BY <2>1, <2>2, <3>1
  <2>5. CASE o[d[1]] < o[d[2]] /\ ~(o[e[1]] < o[e[2]])
    <3>1. e[1] = o[d[1]] /\ e[2] = o[d[2]] BY <1>5, <2>5
    <3> QED BY <2>1, <2>2, <2>3, <2>5, <3>1
  <2>6. CASE ~(o[d[1]] < o[d[2]]) /\ o[e[1]] < o[e[2]]
    <3>1. d[1] = o[e[1]] /\ d[2] = o[e[2]] BY <1>5, <2>6
    <3> QED BY <2>1, <2>2, <2>3, <2>6, <3>1
  <2>7. CASE ~(o[d[1]] < o[d[2]]) /\ ~(o[e[1]] < o[e[2]]) BY <1>5, <2>7
  <2> QED BY <2>4, <2>5, <2>6, <2>7
<1>6. f \in Injection(Inverted(t), Inverted(s))
  <2>1. f \in [Inverted(t) -> Inverted(s)] BY <1>4
  <2> QED BY <1>5, <2>1 DEF Injection, IsInjective
<1>7. Cardinality(Inverted(t)) <= Cardinality(Inverted(s))
  <2> HIDE DEF f
  <2> QED BY <1>6, InvertedFinite, FS_Injection
<1> QED BY <1>7, InvertedFinite DEF o

-----------------------------------------------------------------------------
(* The invariant in its parts.                                             *)

\* What the steps of a worker have in common: it changes no other worker, it takes a shelf that is
\* free, gives back its own, and writes on its own.
Private(w) ==
  /\ \A v \in Workers \ {w} : pc'[v] = pc[v] /\ pair'[v] = pair[v] /\ reg'[v] = reg[v]
  /\ \A i \in Shelves :
       \/ shelf_mutexes'[i] = shelf_mutexes[i]
       \/ shelf_mutexes[i] = Nobody /\ shelf_mutexes'[i] = w
       \/ shelf_mutexes[i] = w /\ shelf_mutexes'[i] = Nobody
  /\ \A i \in Shelves : shelves'[i] = shelves[i] \/ shelf_mutexes[i] = w
  /\ UNCHANGED <<flag, signal, night, pending, joined>>

\* What has to be shown of such a step for the worker itself.
Kept(w) ==
  /\ pc[w] # "ended" /\ (pc'[w] = "ended" => cancelled[w] \/ flag)
  /\ pc'[w] = "sleep" => First(w)' # Second(w)'
  /\ pc'[w] \in {"first", "second", "compare", "write1", "write2", "hold", "unlock1",
                 "unlock2", "cleanup"} => First(w)' < Second(w)'
  /\ pc'[w] \in {"second", "compare", "write1", "write2", "hold", "unlock1", "cleanup"} =>
       shelf_mutexes'[First(w)'] = w
  /\ pc'[w] \in {"compare", "write1", "write2", "hold", "unlock1", "unlock2", "cleanup"} =>
       shelf_mutexes'[Second(w)'] = w
  /\ pc'[w] = "write1" =>
       reg'[w] = <<shelves'[First(w)'], shelves'[Second(w)']>> /\ reg'[w][1] > reg'[w][2]
  /\ pc'[w] = "write2" => reg'[w][2] = shelves'[First(w)']

\* Together they keep the invariant, but for the arrangement.
LEMMA PrivateKeeps ==
  ASSUME IndInv, NEW w \in Workers, Private(w), Kept(w)
  PROVE  WorkersHold' /\ SigHolds' /\ SwapInv' /\ ActiveInv' /\ EndInv'
<1> USE Threads
<1>1. \A v \in Workers \ {w} :
        /\ First(v)' = First(v) /\ Second(v)' = Second(v) /\ pc'[v] = pc[v] /\ reg'[v] = reg[v]
        /\ First(v) \in Shelves /\ Second(v) \in Shelves
  BY PairType DEF IndInv, Private, First, Second
<1>2. \A v \in Workers \cup {Sig}, i \in Shelves :
        v # w /\ shelf_mutexes[i] = v => shelf_mutexes'[i] = v /\ shelves'[i] = shelves[i]
  BY DEF Private
<1>3. WorkersHold'
  <2> SUFFICES ASSUME NEW v \in Workers
               PROVE  /\ pc'[v] = "sleep" => First(v)' # Second(v)'
                      /\ pc'[v] \in {"first", "second", "compare", "write1", "write2", "hold",
                                     "unlock1", "unlock2", "cleanup"} => First(v)' < Second(v)'
                      /\ pc'[v] \in {"second", "compare", "write1", "write2", "hold", "unlock1",
                                     "cleanup"} => shelf_mutexes'[First(v)'] = v
                      /\ pc'[v] \in {"compare", "write1", "write2", "hold", "unlock1", "unlock2",
                                     "cleanup"} => shelf_mutexes'[Second(v)'] = v
    BY DEF WorkersHold
  <2>1. CASE v = w BY <2>1 DEF Kept
  <2>2. CASE v # w
    <3>1. /\ First(v)' = First(v) /\ Second(v)' = Second(v) /\ pc'[v] = pc[v]
          /\ First(v) \in Shelves /\ Second(v) \in Shelves
      BY <1>1, <2>2
    <3>2. /\ shelf_mutexes[First(v)] = v => shelf_mutexes'[First(v)] = v
          /\ shelf_mutexes[Second(v)] = v => shelf_mutexes'[Second(v)] = v
      BY <1>2, <2>2, <3>1
    <3>3. /\ pc[v] = "sleep" => First(v) # Second(v)
          /\ pc[v] \in {"first", "second", "compare", "write1", "write2", "hold",
                        "unlock1", "unlock2", "cleanup"} => First(v) < Second(v)
          /\ pc[v] \in {"second", "compare", "write1", "write2", "hold", "unlock1",
                        "cleanup"} => shelf_mutexes[First(v)] = v
          /\ pc[v] \in {"compare", "write1", "write2", "hold", "unlock1", "unlock2",
                        "cleanup"} => shelf_mutexes[Second(v)] = v
      BY DEF IndInv, WorkersHold
    <3> QED BY ONLY <3>1, <3>2, <3>3
  <2> QED BY <2>1, <2>2
<1>4. SigHolds' BY <1>2 DEF Private, signal, IndInv, SigHolds, SigShelves
<1>5. SwapInv'
  <2> SUFFICES ASSUME NEW v \in Workers
               PROVE  /\ pc'[v] = "write1" =>
                           /\ reg'[v] = <<shelves'[First(v)'], shelves'[Second(v)']>>
                           /\ reg'[v][1] > reg'[v][2]
                      /\ pc'[v] = "write2" => reg'[v][2] = shelves'[First(v)']
    BY DEF SwapInv
  <2>1. CASE v = w BY <2>1 DEF Kept
  <2>2. CASE v # w
    <3>1. pc[v] \in {"write1", "write2"} =>
            shelf_mutexes[First(v)] = v /\ shelf_mutexes[Second(v)] = v
      BY DEF IndInv, WorkersHold
    <3>2. /\ First(v)' = First(v) /\ Second(v)' = Second(v) /\ pc'[v] = pc[v] /\ reg'[v] = reg[v]
          /\ First(v) \in Shelves /\ Second(v) \in Shelves
      BY <1>1, <2>2
    <3>3. pc[v] \in {"write1", "write2"} =>
            shelves'[First(v)] = shelves[First(v)] /\ shelves'[Second(v)] = shelves[Second(v)]
      BY <1>2, <2>2, <3>1, <3>2
    <3>4. /\ pc[v] = "write1" =>
               reg[v] = <<shelves[First(v)], shelves[Second(v)]>> /\ reg[v][1] > reg[v][2]
          /\ pc[v] = "write2" => reg[v][2] = shelves[First(v)]
      BY DEF IndInv, SwapInv
    <3> QED BY ONLY <3>2, <3>3, <3>4
  <2> QED BY <2>1, <2>2
<1>6. ActiveInv' BY DEF Private, signal, IndInv, ActiveInv
<1>7. EndInv' BY DEF Private, Kept, signal, IndInv, EndInv
<1> QED BY <1>3, <1>4, <1>5, <1>6, <1>7

\* What is settled stays what it was, unless the worker writes its first shelf.
LEMMA PrivateSettled ==
  ASSUME IndInv, NEW w \in Workers, Private(w),
         pc'[w] # "write2",
         \A i \in Shelves : shelf_mutexes[i] = w =>
           shelves'[i] = IF pc[w] = "write2" /\ Second(w) = i THEN reg[w][1] ELSE shelves[i]
  PROVE  Settled' = Settled
<1> SUFFICES ASSUME NEW i \in Shelves PROVE Settled'[i] = Settled[i]
  BY DEF Settled
<1> USE Threads
<1>1. \A v \in Workers \ {w} : Second(v)' = Second(v) /\ pc'[v] = pc[v] /\ reg'[v] = reg[v]
  BY DEF Private, Second
<1>2. Settled[i] = IF shelf_mutexes[i] \in Workers /\ pc[shelf_mutexes[i]] = "write2"
                      /\ Second(shelf_mutexes[i]) = i
                   THEN reg[shelf_mutexes[i]][1] ELSE shelves[i]
  BY DEF Settled
<1>3. Settled'[i] = IF shelf_mutexes'[i] \in Workers /\ pc'[shelf_mutexes'[i]] = "write2"
                       /\ pair'[shelf_mutexes'[i]][2] = i
                    THEN reg'[shelf_mutexes'[i]][1] ELSE shelves'[i]
  BY DEF Settled, Second
<1>4. CASE shelf_mutexes[i] = w
  <2>1. Settled[i] = shelves'[i] BY <1>2, <1>4
  <2>2. shelf_mutexes'[i] \in {w, Nobody} BY <1>4 DEF Private
  <2> QED BY <1>3, <2>1, <2>2
<1>5. CASE shelf_mutexes[i] # w
  <2>1. shelves'[i] = shelves[i] BY <1>5 DEF Private
  <2>2. CASE shelf_mutexes'[i] = shelf_mutexes[i]
    BY <1>1, <1>2, <1>3, <1>5, <2>1, <2>2 DEF Second
  <2>3. CASE shelf_mutexes[i] = Nobody /\ shelf_mutexes'[i] = w
    BY <1>2, <1>3, <2>1, <2>3
  <2> QED BY <1>5, <2>2, <2>3 DEF Private
<1> QED BY <1>4, <1>5

-----------------------------------------------------------------------------
(* The steps of a worker.                                                  *)

\* The places of a worker.
Places == {"start", "flag", "sleep", "first", "second", "compare", "write1", "write2", "hold",
           "unlock1", "unlock2", "cleanup", "ended"}

\* What a worker may change keeps its type.
WorkerTypes ==
  /\ shelves \in [Shelves -> Products]
  /\ shelf_mutexes \in [Shelves -> 0 .. Employees + 1]
  /\ pc \in [Workers -> Places]
  /\ pair \in [Workers -> Shelves \X Shelves]
  /\ reg \in [Workers -> (Products \cup {0}) \X (Products \cup {0})]

LEMMA WorkerTypesKeep == ASSUME TypeOK, WorkerTypes', Others PROVE TypeOK'
BY DEF TypeOK, WorkerTypes, Places, Others, signal

\* Steps that neither lock nor write.
LEMMA MoveSteps ==
  ASSUME IndInv, NEW w \in Workers,
         \/ Report(w) \/ FlagRaised(w) \/ (\E p, q \in Shelves : Choose(w, p, q))
         \/ Sleep(w) \/ Compare(w) \/ Hold(w)
  PROVE  WorkerTypes' /\ Private(w) /\ Kept(w) /\ UNCHANGED <<shelves, shelf_mutexes>>
         /\ pc[w] # "write2" /\ pc'[w] # "write2"
<1>1. UNCHANGED <<shelves, shelf_mutexes>> /\ Others
  BY DEF Report, FlagRaised, Choose, Sleep, Compare, Hold
<1>2. /\ shelves \in [Shelves -> Products] /\ shelf_mutexes \in [Shelves -> 0 .. Employees + 1]
      /\ pc \in [Workers -> Places] /\ pair \in [Workers -> Shelves \X Shelves]
      /\ reg \in [Workers -> (Products \cup {0}) \X (Products \cup {0})]
  BY DEF IndInv, TypeOK, Places
<1>3. First(w) \in Shelves /\ Second(w) \in Shelves /\ First(w) \in Nat /\ Second(w) \in Nat
  BY PairType DEF IndInv
<1>4. pair[w] = <<First(w), Second(w)>> BY <1>2 DEF First, Second
<1>5. /\ pc[w] \in {"compare", "hold"} =>
           /\ First(w) < Second(w)
           /\ shelf_mutexes[First(w)] = w /\ shelf_mutexes[Second(w)] = w
  BY DEF IndInv, WorkersHold
<1> USE <1>1, <1>2, <1>3 DEF Goto, Private, Kept, WorkerTypes, Others, First, Second
<1>6. CASE Report(w) BY <1>6 DEF Report, Places
<1>7. CASE FlagRaised(w) BY <1>7 DEF FlagRaised, Places
<1>8. ASSUME NEW p \in Shelves, NEW q \in Shelves, Choose(w, p, q)
      PROVE  WorkerTypes' /\ Private(w) /\ Kept(w) /\ pc[w] # "write2" /\ pc'[w] # "write2"
  BY <1>8 DEF Choose, Places
<1>9. CASE Sleep(w)
  <2>1. NoPair \in Shelves \X Shelves BY Threads DEF NoPair
  <2>2. /\ pc[w] = "sleep" /\ pc' = [pc EXCEPT ![w] = IF cancelled[w] THEN "ended" ELSE "first"]
        /\ UNCHANGED reg
    BY <1>9 DEF Sleep
  <2>3. pair' = [pair EXCEPT ![w] = IF cancelled[w] THEN NoPair
                                    ELSE IF First(w) > Second(w) THEN <<Second(w), First(w)>>
                                    ELSE pair[w]]
    BY <1>9 DEF Sleep
  <2>4. First(w) # Second(w) BY <2>2 DEF IndInv, WorkersHold
  <2>5. CASE cancelled[w] BY <2>1, <2>2, <2>3, <2>5 DEF Places
  <2>6. CASE ~cancelled[w]
    <3>1. pair' = [pair EXCEPT ![w] = IF First(w) > Second(w) THEN <<Second(w), First(w)>>
                                      ELSE <<First(w), Second(w)>>]
      BY <1>4, <2>3, <2>6
    <3>2. CASE First(w) > Second(w)
      <4>1. pair' = [pair EXCEPT ![w] = <<Second(w), First(w)>>] BY <3>1, <3>2
      <4> QED BY <2>2, <2>6, <3>2, <4>1 DEF Places
    <3>3. CASE ~(First(w) > Second(w))
      <4>1. pair' = [pair EXCEPT ![w] = <<First(w), Second(w)>>] BY <3>1, <3>3
      <4>2. First(w) < Second(w) BY ONLY <1>3, <2>4, <3>3
      <4> QED BY <2>2, <2>6, <4>1, <4>2 DEF Places
    <3> QED BY <3>2, <3>3
  <2> QED BY <2>5, <2>6
<1>10. CASE Compare(w)
  <2>1. shelves[First(w)] \in Products /\ shelves[Second(w)] \in Products OBVIOUS
  <2> QED BY <1>5, <1>10, <2>1 DEF Compare, Places
<1>11. CASE Hold(w) BY <1>5, <1>11 DEF Hold, Places
<1> QED BY <1>6, <1>7, <1>8, <1>9, <1>10, <1>11

\* Steps that lock or unlock a shelf.
LEMMA LockSteps ==
  ASSUME IndInv, NEW w \in Workers,
         LockFirst(w) \/ LockSecond(w) \/ UnlockFirst(w) \/ UnlockSecond(w)
  PROVE  WorkerTypes' /\ Private(w) /\ Kept(w) /\ UNCHANGED shelves
         /\ pc[w] # "write2" /\ pc'[w] # "write2"
<1>2. /\ shelves \in [Shelves -> Products] /\ shelf_mutexes \in [Shelves -> 0 .. Employees + 1]
      /\ pc \in [Workers -> Places] /\ pair \in [Workers -> Shelves \X Shelves]
      /\ reg \in [Workers -> (Products \cup {0}) \X (Products \cup {0})]
  BY DEF IndInv, TypeOK, Places
<1>3. First(w) \in Shelves /\ Second(w) \in Shelves /\ First(w) \in Nat /\ Second(w) \in Nat
  BY PairType DEF IndInv
<1>4. /\ pc[w] \in {"first", "second", "unlock1", "unlock2"} => First(w) < Second(w)
      /\ pc[w] \in {"second", "unlock1"} => shelf_mutexes[First(w)] = w
      /\ pc[w] \in {"unlock1", "unlock2"} => shelf_mutexes[Second(w)] = w
  BY DEF IndInv, WorkersHold
<1>5. w \in 0 .. Employees + 1 /\ Nobody \in 0 .. Employees + 1 BY Threads
<1> USE <1>2, <1>3, <1>4, <1>5 DEF Goto, Private, Kept, WorkerTypes, Others, Lock, Unlock
<1>6. CASE LockFirst(w) BY <1>6 DEF LockFirst, Places, First, Second
<1>7. CASE LockSecond(w) BY <1>7 DEF LockSecond, Places, First, Second
<1>8. CASE UnlockFirst(w) BY <1>8 DEF UnlockFirst, Places, First, Second
<1>9. CASE UnlockSecond(w)
  <2>1. NoPair \in Shelves \X Shelves BY Threads DEF NoPair
  <2> QED BY <1>9, <2>1 DEF UnlockSecond, Places
<1> QED BY <1>6, <1>7, <1>8, <1>9

\* The second write of a swap: what was still to be done is done.
LEMMA SecondWrite ==
  ASSUME IndInv, NEW w \in Workers, WriteSecond(w)
  PROVE  WorkerTypes' /\ Private(w) /\ Kept(w) /\ Settled' = Settled
<1>1. /\ shelves \in [Shelves -> Products] /\ shelf_mutexes \in [Shelves -> 0 .. Employees + 1]
      /\ pc \in [Workers -> Places] /\ pair \in [Workers -> Shelves \X Shelves]
      /\ reg \in [Workers -> (Products \cup {0}) \X (Products \cup {0})]
  BY DEF IndInv, TypeOK, Places
<1>2. First(w) \in Shelves /\ Second(w) \in Shelves /\ First(w) \in Nat /\ Second(w) \in Nat
  BY PairType DEF IndInv
<1>3. /\ First(w) < Second(w)
      /\ shelf_mutexes[First(w)] = w /\ shelf_mutexes[Second(w)] = w
  BY DEF IndInv, WorkersHold, WriteSecond, Goto
<1>4. Settled[Second(w)] = reg[w][1]
  BY <1>2, <1>3 DEF Settled, WriteSecond, Goto
<1>5. reg[w][1] \in Products BY <1>2, <1>4 DEF IndInv, IsArrangement
<1>6. WorkerTypes'
  <2>1. NoPair \in (Products \cup {0}) \X (Products \cup {0}) BY DEF NoPair
  <2> QED BY <1>1, <1>2, <1>5, <2>1 DEF WriteSecond, Goto, WorkerTypes, Places
<1>7. Private(w) BY <1>1, <1>2, <1>3 DEF WriteSecond, Goto, Private, Others
<1>8. Kept(w)
  BY <1>1, <1>2, <1>3 DEF WriteSecond, Goto, Kept, Others, Places, First, Second
<1>9. Settled' = Settled
  <2>1. pc'[w] # "write2" /\ pc[w] = "write2" BY <1>1 DEF WriteSecond, Goto
  <2>2. \A i \in Shelves : shelves'[i] = IF Second(w) = i THEN reg[w][1] ELSE shelves[i]
    BY <1>1, <1>2 DEF WriteSecond
  <2> QED BY <1>7, <2>1, <2>2, PrivateSettled
<1> QED BY <1>6, <1>7, <1>8, <1>9

\* The first write of a swap: from now on the two products count as swapped.
LEMMA FirstWrite ==
  ASSUME IndInv, NEW w \in Workers, WriteFirst(w)
  PROVE  /\ WorkerTypes' /\ Private(w) /\ Kept(w) /\ IsArrangement(Settled')
         /\ Inversions(Settled') <= Inversions(Settled)
<1>1. /\ shelves \in [Shelves -> Products] /\ shelf_mutexes \in [Shelves -> 0 .. Employees + 1]
      /\ pc \in [Workers -> Places] /\ pair \in [Workers -> Shelves \X Shelves]
      /\ reg \in [Workers -> (Products \cup {0}) \X (Products \cup {0})]
  BY DEF IndInv, TypeOK, Places
<1>2. First(w) \in Shelves /\ Second(w) \in Shelves /\ First(w) \in Nat /\ Second(w) \in Nat
  BY PairType DEF IndInv
<1>3. /\ First(w) < Second(w)
      /\ shelf_mutexes[First(w)] = w /\ shelf_mutexes[Second(w)] = w
  BY DEF IndInv, WorkersHold, WriteFirst, Goto
<1>4. reg[w] = <<shelves[First(w)], shelves[Second(w)]>>
  BY DEF IndInv, SwapInv, WriteFirst, Goto
<1>5. /\ pc[w] = "write1" /\ pc' = [pc EXCEPT ![w] = "write2"]
      /\ shelves' = [shelves EXCEPT ![First(w)] = shelves[Second(w)]]
      /\ UNCHANGED <<shelf_mutexes, pair, reg>> /\ Others
  BY <1>4 DEF WriteFirst, Goto
<1>6. WorkerTypes' BY <1>1, <1>2, <1>5 DEF WorkerTypes, Places
<1>7. Private(w) BY <1>1, <1>2, <1>3, <1>5 DEF Private, Others
<1>8. Kept(w)
  BY <1>1, <1>2, <1>3, <1>4, <1>5 DEF Kept, Others, Places, First, Second
<1>9. IsArrangement(Settled') /\ Inversions(Settled') <= Inversions(Settled)
  <2> DEFINE a == First(w)
             b == Second(w)
             swap == Swap(a, b)
  <2>0. Settled[a] = shelves[a] /\ Settled[b] = shelves[b]
    BY <1>2, <1>3, <1>5 DEF Settled
  <2>1. \A i \in Shelves : Settled'[i] = Settled[swap[i]]
    <3> USE DEF Swap
    <3> SUFFICES ASSUME NEW i \in Shelves PROVE Settled'[i] = Settled[swap[i]] OBVIOUS
    <3>1. Second(w)' = b /\ \A v \in Workers : Second(v)' = Second(v)
      BY <1>5 DEF Second
    <3>2. Settled[a] = shelves[a] /\ Settled[b] = shelves[b] BY <2>0
    <3>3. CASE i = a
      <4>1. Settled'[i] = shelves'[i] BY <1>2, <1>3, <1>5, <3>1, <3>3 DEF Settled
      <4> QED BY <1>1, <1>2, <1>5, <3>2, <3>3, <4>1
    <3>4. CASE i = b
      <4>1. Settled'[i] = reg'[w][1] BY <1>1, <1>2, <1>3, <1>5, <3>1, <3>4 DEF Settled
      <4> QED BY <1>2, <1>3, <1>4, <1>5, <3>2, <3>4, <4>1
    <3>5. CASE i # a /\ i # b
      <4>1. shelves'[i] = shelves[i] /\ swap[i] = i BY <1>1, <1>2, <1>5, <3>5
      <4>2. Settled[i] = IF shelf_mutexes[i] \in Workers /\ pc[shelf_mutexes[i]] = "write2"
                            /\ Second(shelf_mutexes[i]) = i
                         THEN reg[shelf_mutexes[i]][1] ELSE shelves[i]
        BY DEF Settled
      <4>3. Settled'[i] = IF shelf_mutexes[i] \in Workers /\ pc'[shelf_mutexes[i]] = "write2"
                             /\ Second(shelf_mutexes[i]) = i
                          THEN reg[shelf_mutexes[i]][1] ELSE shelves[i]
        BY <1>5, <3>1, <4>1 DEF Settled
      <4>4. CASE shelf_mutexes[i] = w BY <1>5, <3>5, <4>1, <4>2, <4>3, <4>4
      <4>5. CASE shelf_mutexes[i] # w
        BY <1>1, <1>5, <4>1, <4>2, <4>3, <4>5
      <4> QED BY <4>4, <4>5
    <3> QED BY <3>3, <3>4, <3>5
  <2>2. swap \in Orders BY <1>2, <1>3 DEF Orders, Swap
  <2>3. Settled' = [i \in Shelves |-> Settled[swap[i]]]
    BY <2>1 DEF Settled
  <2>4. Settled[a] > Settled[b] BY <1>4, <2>0 DEF IndInv, SwapInv, WriteFirst, Goto
  <2> HIDE DEF swap, a, b
  <2>5. IsArrangement(Settled') BY <2>2, <2>3, Permuted DEF IndInv
  <2>6. Inversions([i \in Shelves |-> Settled[swap[i]]]) <= Inversions(Settled)
    BY <1>2, <1>3, <2>4, SwapImproves DEF IndInv, swap, a, b
  <2> QED BY <2>3, <2>5, <2>6
<1> QED BY <1>6, <1>7, <1>8, <1>9

\* Every step of a worker keeps the invariant.
LEMMA WorkerInv ==
  ASSUME IndInv, NEW w \in Workers, WorkerStep(w)
  PROVE  IndInv' /\ Inversions(Settled') <= Inversions(Settled)
<1>1. ASSUME WorkerTypes', Private(w), Kept(w), IsArrangement(Settled') PROVE IndInv'
  <2>1. TypeOK' BY <1>1, WorkerTypesKeep DEF IndInv, Private, Others
  <2>2. IsArrangement(Settled)' BY <1>1 DEF IsArrangement
  <2> QED BY <1>1, <2>1, <2>2, PrivateKeeps DEF IndInv
<1>2. CASE WriteFirst(w) BY <1>1, <1>2, FirstWrite
<1>3. CASE WriteSecond(w) BY <1>1, <1>3, SecondWrite, InvertedFinite DEF IndInv
<1>4. CASE ~WriteFirst(w) /\ ~WriteSecond(w)
  <2>1. /\ WorkerTypes' /\ Private(w) /\ Kept(w) /\ UNCHANGED shelves
        /\ pc[w] # "write2" /\ pc'[w] # "write2"
    BY <1>4, MoveSteps, LockSteps DEF WorkerStep
  <2>2. Settled' = Settled BY <2>1, PrivateSettled
  <2> QED BY <1>1, <2>1, <2>2, InvertedFinite DEF IndInv
<1> QED BY <1>2, <1>3, <1>4

-----------------------------------------------------------------------------
(* The steps of the signal thread, of main and of the user.                *)

\* What a step that leaves the shelves, their locks and the workers alone keeps.
LEMMA WorkersAlone ==
  ASSUME IndInv, UNCHANGED <<shelves, shelf_mutexes, worker>>
  PROVE  /\ WorkersHold' /\ SwapInv' /\ IsArrangement(Settled)' /\ Settled' = Settled
         /\ pc \in [Workers -> Places] => pc' \in [Workers -> Places]
<1>1. UNCHANGED <<shelves, shelf_mutexes, pc, pair, reg>> BY DEF worker
<1>2. WorkersHold' BY <1>1 DEF IndInv, WorkersHold, First, Second
<1>3. SwapInv' BY <1>1 DEF IndInv, SwapInv, First, Second
<1>4. Settled' = Settled BY <1>1 DEF Settled, First, Second
<1>5. IsArrangement(Settled)' BY <1>4 DEF IndInv, IsArrangement
<1> QED BY <1>1, <1>2, <1>3, <1>4, <1>5

\* The same for a step in which the signal thread takes or leaves a shelf.
LEMMA SigLocks ==
  ASSUME IndInv, UNCHANGED <<shelves, worker>>, NEW a \in Shelves,
         NEW o \in {Sig, Nobody}, shelf_mutexes[a] \in {Sig, Nobody},
         shelf_mutexes' = [shelf_mutexes EXCEPT ![a] = o]
  PROVE  WorkersHold' /\ SwapInv' /\ IsArrangement(Settled)' /\ Settled' = Settled
<1> USE Threads
<1>1. UNCHANGED <<shelves, pc, pair, reg>> BY DEF worker
<1>2. shelf_mutexes \in [Shelves -> 0 .. Employees + 1] BY DEF IndInv, TypeOK
<1>3. \A w \in Workers, i \in Shelves : shelf_mutexes[i] = w <=> shelf_mutexes'[i] = w
  BY <1>2
<1>4. WorkersHold'
  <2> SUFFICES ASSUME NEW w \in Workers
               PROVE  /\ pc[w] = "sleep" => First(w) # Second(w)
                      /\ pc[w] \in {"first", "second", "compare", "write1", "write2", "hold",
                                    "unlock1", "unlock2", "cleanup"} => First(w) < Second(w)
                      /\ pc[w] \in {"second", "compare", "write1", "write2", "hold", "unlock1",
                                    "cleanup"} => shelf_mutexes'[First(w)] = w
                      /\ pc[w] \in {"compare", "write1", "write2", "hold", "unlock1", "unlock2",
                                    "cleanup"} => shelf_mutexes'[Second(w)] = w
    BY <1>1 DEF WorkersHold, First, Second
  <2>1. First(w) \in Shelves /\ Second(w) \in Shelves BY PairType DEF IndInv
  <2> QED BY <1>3, <2>1 DEF IndInv, WorkersHold
<1>5. SwapInv' BY <1>1 DEF IndInv, SwapInv, First, Second
<1>6. Settled' = Settled
  <2> SUFFICES ASSUME NEW i \in Shelves PROVE Settled'[i] = Settled[i] BY DEF Settled
  <2>1. Settled[i] = IF shelf_mutexes[i] \in Workers /\ pc[shelf_mutexes[i]] = "write2"
                        /\ Second(shelf_mutexes[i]) = i
                     THEN reg[shelf_mutexes[i]][1] ELSE shelves[i]
    BY DEF Settled
  <2>2. Settled'[i] = IF shelf_mutexes'[i] \in Workers /\ pc[shelf_mutexes'[i]] = "write2"
                         /\ Second(shelf_mutexes'[i]) = i
                      THEN reg[shelf_mutexes'[i]][1] ELSE shelves[i]
    BY <1>1 DEF Settled, Second
  <2>3. shelf_mutexes'[i] \in Workers <=> shelf_mutexes[i] \in Workers BY <1>3
  <2>4. shelf_mutexes[i] \in Workers => shelf_mutexes'[i] = shelf_mutexes[i] BY <1>3
  <2> QED BY <2>1, <2>2, <2>3, <2>4
<1> QED BY <1>4, <1>5, <1>6 DEF IndInv, IsArrangement

\* The signal thread holds all shelves when it shuffles, so nobody is at work on them.
LEMMA ShuffleInv ==
  ASSUME IndInv, NEW p \in Orders, Shuffle(p)
  PROVE  IndInv'
<1> USE Threads
<1>1. /\ sigpc = "shuffle" /\ sigpc' = "unlock"
      /\ shelves' = [i \in Shelves |-> shelves[p[i]]]
      /\ UNCHANGED <<shelf_mutexes, flag, pc, pair, reg, cancelled, active, next, night, pending,
                     joined>>
  BY DEF Shuffle, locks, worker
<1>2. next = 0 /\ \A i \in Shelves : shelf_mutexes[i] = Sig
  BY <1>1 DEF IndInv, SigHolds, SigShelves
<1>3. \A w \in Workers : pc[w] \notin {"write1", "write2"}
  BY <1>2, PairType DEF IndInv, WorkersHold
<1>4. shelves' \in [Shelves -> Products] BY <1>1 DEF IndInv, TypeOK, Orders
<1>5. TypeOK' BY <1>1, <1>4 DEF IndInv, TypeOK
<1>6. WorkersHold' BY <1>1 DEF IndInv, WorkersHold, First, Second
<1>7. SigHolds' BY <1>1, <1>2 DEF SigHolds, SigShelves
<1>8. SwapInv' BY <1>1, <1>3 DEF SwapInv
<1>9. IsArrangement(Settled)'
  <2>1. shelves \in [Shelves -> Products] BY DEF IndInv, TypeOK
  <2>2. Settled = shelves BY <1>2, <2>1 DEF Settled
  <2>3. Settled' = shelves' BY <1>1, <1>2, <1>4 DEF Settled
  <2>4. IsArrangement([i \in Shelves |-> shelves[p[i]]]) BY <2>2, Permuted DEF IndInv
  <2> QED BY <1>1, <2>3, <2>4 DEF IsArrangement
<1>10. ActiveInv' /\ EndInv' BY <1>1 DEF IndInv, ActiveInv, EndInv
<1> QED BY <1>5, <1>6, <1>7, <1>8, <1>9, <1>10 DEF IndInv

\* The workers left when one is cancelled: each of them once, and not that one.
LEMMA ActiveLeft ==
  ASSUME IndInv, NEW k \in 1 .. Len(active)
  PROVE  /\ WithoutActive(k) \in Seq(Workers)
         /\ DOMAIN WithoutActive(k) = 1 .. Len(active) - 1
         /\ \A j \in DOMAIN WithoutActive(k) :
              \E i \in 1 .. Len(active) : i # k /\ WithoutActive(k)[j] = active[i]
         /\ \A i, j \in DOMAIN WithoutActive(k) : WithoutActive(k)[i] = WithoutActive(k)[j] => i = j
<1>1. active \in Seq(Workers) /\ DOMAIN active = 1 .. Len(active) /\ Len(active) \in Nat
  BY DEF IndInv, TypeOK
<1>2. \A i, j \in 1 .. Len(active) : active[i] = active[j] => i = j
  BY <1>1 DEF IndInv, ActiveInv
<1>3. \A i \in 1 .. Len(active) : active[i] \in Workers BY <1>1
<1> DEFINE n == Len(active) - 1
           without == [i \in 1 .. n |-> IF i = k THEN active[Len(active)] ELSE active[i]]
<1>4. n \in Nat /\ Len(active) \in 1 .. Len(active) /\ 1 .. n \subseteq 1 .. Len(active)
  <2>1. Len(active) \in Nat /\ Len(active) >= 1 BY <1>1
  <2> QED BY ONLY <2>1
<1>5. \A i \in 1 .. n : Len(active) # i
  <2>1. Len(active) \in Nat BY <1>1
  <2> QED BY ONLY <2>1
<1>6. without \in Seq(Workers)
  <2>1. \A i \in 1 .. n : (IF i = k THEN active[Len(active)] ELSE active[i]) \in Workers
    BY <1>3, <1>4
  <2> QED BY <1>4, <2>1, IsASeq
<1>7. \A j \in 1 .. n : \E i \in 1 .. Len(active) : i # k /\ without[j] = active[i]
  <2> TAKE j \in 1 .. n
  <2>1. CASE j = k
    <3>1. Len(active) # k BY <1>5, <2>1
    <3> QED BY <1>4, <2>1, <3>1
  <2>2. CASE j # k BY <1>4, <2>2
  <2> QED BY <2>1, <2>2
<1>8. \A i, j \in 1 .. n : without[i] = without[j] => i = j
  <2> SUFFICES ASSUME NEW i \in 1 .. n, NEW j \in 1 .. n, without[i] = without[j] PROVE i = j
    OBVIOUS
  <2>1. Len(active) # i /\ Len(active) # j BY <1>5
  <2> QED BY <1>2, <1>4, <2>1
<1> QED BY <1>6, <1>7, <1>8 DEF WithoutActive

\* The signal thread keeps the invariant, and what is settled unless it shuffles.
LEMMA SigInv ==
  ASSUME IndInv, SigStep
  PROVE  IndInv' /\ (sigpc = "shuffle" \/ Settled' = Settled)
<1> USE Threads
<1>1. TypeOK /\ next \in Nat /\ next \in Shelves /\ pending \subseteq night
  BY DEF IndInv, TypeOK
<1>2. CASE Interrupted
  <2>1. UNCHANGED <<shelves, shelf_mutexes, worker>> BY <1>2 DEF Interrupted
  <2>2. TypeOK' BY <1>1, <1>2 DEF Interrupted, Take, TypeOK, worker
  <2>3. SigHolds' BY <1>2 DEF Interrupted, SigHolds, SigShelves
  <2>4. ActiveInv' /\ EndInv'
    BY <1>2 DEF Interrupted, Take, IndInv, ActiveInv, EndInv, worker
  <2> QED BY <2>1, <2>2, <2>3, <2>4, WorkersAlone DEF IndInv
<1>3. CASE ShelvesWanted
  <2>1. UNCHANGED <<shelves, shelf_mutexes, worker>> BY <1>3 DEF ShelvesWanted, locks
  <2>2. TypeOK' BY <1>1, <1>3 DEF ShelvesWanted, Take, TypeOK, worker, locks
  <2>3. next' = 0 /\ SigShelves' = {}
    BY <1>3 DEF ShelvesWanted, Take, IndInv, SigHolds, SigShelves, Shelves
  <2>4. SigHolds' BY <1>3, <2>3 DEF ShelvesWanted, Take, SigHolds
  <2>5. ActiveInv' /\ EndInv'
    BY <1>3 DEF ShelvesWanted, Take, IndInv, ActiveInv, EndInv, worker, locks
  <2> QED BY <2>1, <2>2, <2>4, <2>5, WorkersAlone DEF IndInv
<1>4. CASE LockShelf
  <2>1. WorkersHold' /\ SwapInv' /\ IsArrangement(Settled)' /\ Settled' = Settled
    BY <1>1, <1>4, SigLocks DEF LockShelf, Lock
  <2>2. next' \in Shelves BY <1>1, <1>4, ShopAssumption DEF LockShelf, Shelves
  <2>3. TypeOK' BY <1>1, <1>4, <2>2 DEF LockShelf, Lock, TypeOK, worker
  <2>4. SigHolds'
    <3>1. \A i \in Shelves : i <= next => shelf_mutexes'[i] = Sig
      BY <1>1, <1>4 DEF LockShelf, Lock, IndInv, SigHolds, SigShelves, TypeOK
    <3>2. \A i \in SigShelves' : i \in Shelves /\ i <= next
      BY <1>1, <1>4, ShopAssumption DEF LockShelf, SigShelves, Shelves
    <3>3. sigpc' \in {"sigwait", "print", "shuffle"} => next' = 0
      BY <1>4 DEF LockShelf
    <3> QED BY <3>1, <3>2, <3>3 DEF SigHolds
  <2>5. ActiveInv' BY <1>4 DEF LockShelf, IndInv, ActiveInv
  <2>6. EndInv' BY <1>4 DEF LockShelf, IndInv, EndInv, worker
  <2> QED BY <2>1, <2>3, <2>4, <2>5, <2>6 DEF IndInv
<1>5. CASE PrintShop
  <2>1. UNCHANGED <<shelves, shelf_mutexes, worker>> BY <1>5 DEF PrintShop, locks
  <2>2. TypeOK' BY <1>1, <1>5 DEF PrintShop, TypeOK, worker, locks
  <2>3. SigHolds' BY <1>5 DEF PrintShop, IndInv, SigHolds, SigShelves, locks
  <2>4. ActiveInv' /\ EndInv' BY <1>5 DEF PrintShop, IndInv, ActiveInv, EndInv, worker, locks
  <2> QED BY <2>1, <2>2, <2>3, <2>4, WorkersAlone DEF IndInv
<1>6. CASE UnlockShelf
  <2>1. shelf_mutexes[next] = Sig
    BY <1>1, <1>6 DEF UnlockShelf, IndInv, SigHolds, SigShelves
  <2>2. WorkersHold' /\ SwapInv' /\ IsArrangement(Settled)' /\ Settled' = Settled
    BY <1>1, <1>6, <2>1, SigLocks DEF UnlockShelf, Unlock
  <2>3. next' \in Shelves BY <1>1, <1>6, ShopAssumption DEF UnlockShelf, Shelves
  <2>4. TypeOK' BY <1>1, <1>6, <2>3 DEF UnlockShelf, Unlock, TypeOK, worker
  <2>5. SigHolds'
    <3>1. \A i \in Shelves : i > next => shelf_mutexes'[i] = Sig
      BY <1>1, <1>6 DEF UnlockShelf, Unlock, IndInv, SigHolds, SigShelves, TypeOK
    <3>2. \A i \in SigShelves' : i \in Shelves /\ i > next
      BY <1>1, <1>6, ShopAssumption DEF UnlockShelf, SigShelves, Shelves
    <3>3. sigpc' \in {"sigwait", "print", "shuffle"} => next' = 0
      BY <1>6 DEF UnlockShelf
    <3> QED BY <3>1, <3>2, <3>3 DEF SigHolds
  <2>6. ActiveInv' BY <1>6 DEF UnlockShelf, IndInv, ActiveInv
  <2>7. EndInv' BY <1>6 DEF UnlockShelf, IndInv, EndInv, worker
  <2> QED BY <2>2, <2>4, <2>5, <2>6, <2>7 DEF IndInv
<1>7. ASSUME NEW k \in Workers, CancelWorker(k) PROVE IndInv' /\ Settled' = Settled
  <2>1. /\ UNCHANGED <<shelves, shelf_mutexes, worker>>
        /\ k \in 1 .. Len(active) /\ active' = WithoutActive(k)
        /\ cancelled' = [cancelled EXCEPT ![active[k]] = TRUE]
    BY <1>7 DEF CancelWorker
  <2>2. active[k] \in Workers BY <1>1, <2>1 DEF TypeOK
  <2>3. active' \in Seq(Workers) BY <2>1, ActiveLeft
  <2>4. TypeOK' BY <1>1, <1>7, <2>1, <2>3 DEF CancelWorker, Take, TypeOK, worker
  <2>5. SigHolds' BY <1>7 DEF CancelWorker, Take, IndInv, SigHolds, SigShelves
  <2>6. ActiveInv'
    <3>1. \A i, j \in DOMAIN active' : active'[i] = active'[j] => i = j BY <2>1, ActiveLeft
    <3>2. ASSUME NEW j \in DOMAIN active' PROVE ~cancelled'[active'[j]]
      <4>1. PICK i \in 1 .. Len(active) : i # k /\ active'[j] = active[i]
        BY <2>1, <3>2, ActiveLeft
      <4>2. active[i] # active[k] /\ ~cancelled[active[i]] /\ active[i] \in Workers
        <5>1. active \in Seq(Workers) /\ ActiveInv BY <1>1 DEF IndInv, TypeOK
        <5>2. i \in DOMAIN active /\ k \in DOMAIN active /\ active[i] \in Workers BY <2>1, <4>1, <5>1
        <5> QED BY <4>1, <5>1, <5>2 DEF ActiveInv
      <4> QED BY <1>1, <2>1, <4>1, <4>2 DEF TypeOK
    <3> QED BY <3>1, <3>2 DEF ActiveInv
  <2>7. EndInv'
    <3>1. \A w \in Workers : cancelled[w] => cancelled'[w] BY <1>1, <2>1, <2>2 DEF TypeOK
    <3>2. ~flag BY <1>7 DEF CancelWorker, Take, IndInv, EndInv
    <3>3. flag' <=> sigpc' = "done" BY <1>7, <3>2 DEF CancelWorker
    <3> QED BY <1>7, <3>1, <3>2, <3>3 DEF CancelWorker, IndInv, EndInv, worker
  <2> QED BY <2>1, <2>4, <2>5, <2>6, <2>7, WorkersAlone DEF IndInv
<1> QED BY <1>2, <1>3, <1>4, <1>5, <1>6, <1>7, ShuffleInv DEF SigStep, Shuffle

\* main joins threads that have ended, and the user sends signals.
LEMMA OutsideInv ==
  ASSUME IndInv, MainStep \/ \E sig \in night : Send(sig)
  PROVE  IndInv' /\ Settled' = Settled
<1>1. UNCHANGED <<shelves, locks, worker, signal, night>>
  BY DEF MainStep, JoinWorker, JoinSignalThread, Send
<1>2. UNCHANGED <<shelves, shelf_mutexes, flag, worker, cancelled, active, sigpc, next, night>>
  BY <1>1 DEF locks, signal
<1>3. /\ joined' \in 0 .. Employees + 1 /\ pending' \subseteq night
      /\ \A w \in Workers : w <= joined' => pc[w] = "ended"
  <2> USE ShopAssumption
  <2>1. /\ joined \in 0 .. Employees + 1 /\ pending \subseteq night
        /\ \A w \in Workers : w <= joined => pc[w] = "ended"
    BY DEF IndInv, TypeOK, EndInv
  <2>2. CASE JoinWorker BY <2>1, <2>2 DEF JoinWorker, Workers
  <2>3. CASE JoinSignalThread BY <2>1, <2>3 DEF JoinSignalThread, Workers
  <2>4. CASE \E sig \in night : Send(sig) BY <2>1, <2>4 DEF Send
  <2> QED BY <2>2, <2>3, <2>4 DEF MainStep
<1>4. TypeOK' BY <1>2, <1>3 DEF IndInv, TypeOK, worker
<1>5. SigHolds' /\ ActiveInv' BY <1>2 DEF IndInv, SigHolds, SigShelves, ActiveInv
<1>6. EndInv' BY <1>2, <1>3 DEF IndInv, EndInv, worker
<1> QED BY <1>2, <1>4, <1>5, <1>6, WorkersAlone DEF IndInv

-----------------------------------------------------------------------------
(* The theorems.                                                           *)

\* The first state: nobody has a shelf.
LEMMA InitInv == Init => IndInv
<1> SUFFICES ASSUME Init PROVE IndInv OBVIOUS
<1> USE Threads DEF Init
<1>1. shelves \in [Shelves -> Products] BY DEF IsArrangement
<1>2. active \in Seq(Workers) /\ DOMAIN active = Workers
  BY ShopAssumption, IsASeq DEF Workers
<1>3. TypeOK
  <2>1. NoPair \in Shelves \X Shelves /\ NoPair \in (Products \cup {0}) \X (Products \cup {0})
    BY DEF NoPair
  <2>2. /\ Nobody \in 0 .. Employees + 1 /\ 0 \in Shelves /\ 0 \in 0 .. Employees + 1
    BY ONLY ShopAssumption DEF Nobody, Shelves
  <2>3. /\ shelf_mutexes \in [Shelves -> 0 .. Employees + 1]
        /\ pair \in [Workers -> Shelves \X Shelves]
        /\ reg \in [Workers -> (Products \cup {0}) \X (Products \cup {0})]
    BY <2>1, <2>2
  <2> QED BY <1>1, <1>2, <2>2, <2>3 DEF TypeOK
<1>4. WorkersHold /\ SwapInv BY DEF WorkersHold, SwapInv
<1>5. SigHolds BY DEF SigHolds, SigShelves
<1>6. IsArrangement(Settled)
  <2>1. Settled = shelves BY <1>1 DEF Settled
  <2> QED BY <2>1
<1>7. ActiveInv BY <1>2 DEF ActiveInv
<1>8. EndInv BY DEF EndInv, Workers
<1> QED BY <1>3, <1>4, <1>5, <1>6, <1>7, <1>8 DEF IndInv

\* Every step keeps it, and only a shuffle brings products out of order.
LEMMA StepInv ==
  ASSUME IndInv, [Next]_vars
  PROVE  IndInv' /\ (sigpc = "shuffle" \/ Inversions(Settled') <= Inversions(Settled))
<1>0. Settled' = Settled => Inversions(Settled') <= Inversions(Settled) BY InvertedFinite
<1>1. CASE UNCHANGED vars
  <2>1. UNCHANGED <<shelves, shelf_mutexes, flag, worker, cancelled, active, sigpc, next, night,
                    pending, joined>>
    BY <1>1 DEF vars, locks, signal
  <2>2. TypeOK' BY <2>1 DEF IndInv, TypeOK, worker
  <2>3. SigHolds' /\ ActiveInv' BY <2>1 DEF IndInv, SigHolds, SigShelves, ActiveInv
  <2>4. EndInv' BY <2>1 DEF IndInv, EndInv, worker
  <2> QED BY <1>0, <2>1, <2>2, <2>3, <2>4, WorkersAlone DEF IndInv
<1>2. CASE Next BY <1>0, <1>2, WorkerInv, SigInv, OutsideInv DEF Next
<1> QED BY <1>1, <1>2

\* The inductive invariant of the shift.
THEOREM Invariance == Spec => []IndInv
<1>1. Init => IndInv BY InitInv
<1>2. IndInv /\ [Next]_vars => IndInv' BY StepInv
<1> QED BY <1>1, <1>2, PTL DEF Spec

\* Every variable keeps its type.
THEOREM TypeCorrectness == Spec => []TypeOK
<1>1. IndInv => TypeOK BY DEF IndInv
<1> QED BY <1>1, Invariance, PTL

\* No swap and no shuffle loses or doubles a product, and what is printed holds every one.
THEOREM ProductsAreKept == Spec => []ProductsStay
<1>1. IndInv => ProductsStay
  <2> SUFFICES ASSUME IndInv, sigpc \in {"print", "shuffle"} \/ joined = Employees + 1
               PROVE  IsArrangement(shelves)
    BY DEF IndInv, ProductsStay
  <2>1. \A w \in Workers : pc[w] # "write2"
    <3>1. CASE sigpc \in {"print", "shuffle"}
      <4>1. \A i \in Shelves : shelf_mutexes[i] = Sig
        BY <3>1 DEF IndInv, SigHolds, SigShelves
      <4> QED BY <4>1, Threads, PairType DEF IndInv, WorkersHold
    <3>2. CASE joined = Employees + 1
      BY <3>2, ShopAssumption DEF IndInv, EndInv, Workers
    <3> QED BY <3>1, <3>2
  <2>2. Settled = shelves BY <2>1 DEF Settled, IndInv, TypeOK
  <2> QED BY <2>2 DEF IndInv
<1> QED BY <1>1, Invariance, PTL

\* What a worker has compared is what it writes: no step of any thread but a shuffle leaves more
\* pairs of products out of order than there were, with the swaps that began taken as finished.
THEOREM SwapsImprove == Spec => OrderImproves
<1>1. IndInv /\ [Next]_vars =>
        [sigpc = "shuffle" \/ Inversions(Settled') <= Inversions(Settled)]_vars
  BY StepInv
<1> QED BY <1>1, Invariance, PTL DEF Spec, OrderImproves

\* The signal thread cancels each worker once, and none that main has joined.
THEOREM CancelsOnlyLive == Spec => CancelsLiveThread
<1>1. IndInv /\ [Next]_vars =>
        [\A k \in Workers : CancelWorker(k) => ~cancelled[active[k]] /\ active[k] > joined]_vars
  <2> SUFFICES ASSUME IndInv, NEW k \in Workers, CancelWorker(k)
               PROVE  ~cancelled[active[k]] /\ active[k] > joined
    OBVIOUS
  <2>1. k \in DOMAIN active /\ active[k] \in Workers /\ active[k] \in Nat
    BY Threads DEF CancelWorker, IndInv, TypeOK
  <2>2. ~cancelled[active[k]] BY <2>1 DEF IndInv, ActiveInv
  <2>3. ~flag BY DEF CancelWorker, Take, IndInv, EndInv
  <2>4. pc[active[k]] # "ended" BY <2>1, <2>2, <2>3 DEF IndInv, EndInv
  <2>5. joined \in Nat BY DEF IndInv, TypeOK
  <2> QED BY <2>1, <2>2, <2>4, <2>5 DEF IndInv, EndInv
<1> QED BY <1>1, Invariance, PTL DEF Spec, CancelsLiveThread

-----------------------------------------------------------------------------
(* The port of OpsPort.                                                    *)

\* At most one worker is between reading next_package and writing it back.
LEMMA OneNumbering ==
  ASSUME Port!MutexesHeld, Port!PortConstants, NEW w \in Dockers, NEW x \in Dockers,
         dock_pc[w] = "number", dock_pc[x] = "number"
  PROVE  w = x
  BY DEF Port!MutexesHeld

\* The initial state satisfies the invariant.
LEMMA PortInit == ASSUME Port!PortConstants, Port!Init PROVE Port!IndInv
<1>1. Port!TypeOK
  <2>1. dock_pc \in [Dockers -> {"lock", "test", "waiting", "lockShip", "lockAgain",
                            "retest", "number", "carry", "done"}]
        BY DEF Port!Init
  <2>2. pack \in [Dockers -> Nat]  BY DEF Port!Init
  <2>3. transported \subseteq Nat /\ dock_pending \subseteq {"INT", "USR1"}  BY DEF Port!Init
  <2>4. packages_left \in Nat /\ next_package \in Nat \ {0} /\ sent \in Nat /\ spurious \in Nat
        /\ docked \in Nat
        BY DEF Port!Init
  <2>5. state_mutex \in Port!Threads \cup {NoThread} /\ ship_mutex \in Dockers \cup {NoThread}
        BY DEF Port!Init
  <2>6. dock_sigpc \in {"sigwait", "dockLock", "dock", "termLock", "term", "done"}
        /\ mainpc \in {"join", "end"}
        BY DEF Port!Init
  <2>7. terminate \in BOOLEAN  BY DEF Port!Init
  <2> QED  BY <2>1, <2>2, <2>3, <2>4, <2>5, <2>6, <2>7 DEF Port!TypeOK
<1>2. Port!MutexesHeld  BY DEF Port!Init, Port!MutexesHeld, Port!PortConstants
<1>3. Port!Handed = 0 /\ Port!InHand = {}  BY DEF Port!Init, Port!Handed, Port!InHand
<1>4. Port!EachPackageOnce  BY <1>3 DEF Port!Init, Port!EachPackageOnce
<1> QED  BY <1>1, <1>2, <1>4 DEF Port!IndInv, Port!Init

\* Steps that leave the numbers alone keep the count of packages.
LEMMA SameNumbers ==
  ASSUME Port!IndInv,
         UNCHANGED <<packages_left, docked, next_package, pack, transported>>,
         \A w \in Dockers : /\ dock_pc[w] = "number" <=> dock_pc'[w] = "number"
                            /\ dock_pc[w] = "carry" <=> dock_pc'[w] = "carry"
  PROVE  Port!EachPackageOnce' /\ \A w \in Dockers : dock_pc'[w] = "number" => pack'[w] = next_package'
<1>1. Port!Handed' = Port!Handed  BY DEF Port!Handed
<1>2. Port!InHand' = Port!InHand  BY DEF Port!InHand
<1>3. Port!EachPackageOnce'  BY <1>1, <1>2 DEF Port!IndInv, Port!EachPackageOnce, Port!InHand
<1> QED  BY <1>3 DEF Port!IndInv

LEMMA LockStateStep ==
  ASSUME Port!IndInv, Port!PortConstants, NEW w \in Dockers, Port!LockState(w) PROVE Port!IndInv'
<1>1. Port!TypeOK'  BY DEF Port!IndInv, Port!TypeOK, Port!LockState, Port!Goto, Port!Threads,
                       Port!outside
<1>2. Port!MutexesHeld'  BY DEF Port!IndInv, Port!TypeOK, Port!MutexesHeld, Port!LockState,
            Port!Goto, Port!PortConstants
<1>3. \A v \in Dockers : /\ dock_pc[v] = "number" <=> dock_pc'[v] = "number"
                         /\ dock_pc[v] = "carry" <=> dock_pc'[v] = "carry"
      BY DEF Port!IndInv, Port!TypeOK, Port!LockState, Port!Goto
<1> QED  BY <1>1, <1>2, <1>3, SameNumbers DEF Port!IndInv, Port!LockState

\* The four ways to leave a test without taking a package.
LEMMA ReleaseStep ==
  ASSUME Port!IndInv, Port!PortConstants, NEW w \in Dockers,
         Port!CondWait(w) \/ Port!LeaveAtOnce(w) \/ Port!GoToShip(w) \/ Port!LeaveAtShip(w) \/ Port!ShipIsEmpty(w)
  PROVE  Port!IndInv'
<1> USE DEF Port!Release, Port!Private, Port!Goto
<1>1. Port!TypeOK'
      BY DEF Port!IndInv, Port!TypeOK, Port!CondWait, Port!LeaveAtOnce, Port!GoToShip,
         Port!LeaveAtShip, Port!ShipIsEmpty, Port!outside
<1>2. Port!MutexesHeld'
  <2>1. CASE Port!CondWait(w) \/ Port!LeaveAtOnce(w) \/ Port!GoToShip(w)
        BY <2>1 DEF Port!IndInv, Port!TypeOK, Port!MutexesHeld, Port!CondWait, Port!LeaveAtOnce,
           Port!GoToShip, Port!PortConstants
  <2>2. CASE Port!LeaveAtShip(w) \/ Port!ShipIsEmpty(w)
        BY <2>2 DEF Port!IndInv, Port!TypeOK, Port!MutexesHeld, Port!LeaveAtShip,
           Port!ShipIsEmpty, Port!PortConstants
  <2> QED  BY <2>1, <2>2
<1>3. \A v \in Dockers : /\ dock_pc[v] = "number" <=> dock_pc'[v] = "number"
                         /\ dock_pc[v] = "carry" <=> dock_pc'[v] = "carry"
      BY DEF Port!IndInv, Port!TypeOK, Port!CondWait, Port!LeaveAtOnce, Port!GoToShip,
         Port!LeaveAtShip, Port!ShipIsEmpty
<1>4. UNCHANGED <<packages_left, docked, next_package, pack, transported>>
      BY DEF Port!CondWait, Port!LeaveAtOnce, Port!GoToShip, Port!LeaveAtShip, Port!ShipIsEmpty
<1> QED  BY <1>1, <1>2, <1>3, <1>4, SameNumbers DEF Port!IndInv

LEMMA ShipLockStep ==
  ASSUME Port!IndInv, Port!PortConstants, NEW w \in Dockers, Port!LockShip(w) \/ Port!LockAgain(w)
  PROVE  Port!IndInv'
<1> USE DEF Port!Private, Port!Goto
<1>1. Port!TypeOK'  BY DEF Port!IndInv, Port!TypeOK, Port!LockShip, Port!LockAgain, Port!Threads,
                       Port!outside
<1>2. Port!MutexesHeld'
  <2>1. CASE Port!LockShip(w)  BY <2>1 DEF Port!IndInv, Port!TypeOK, Port!MutexesHeld,
            Port!LockShip, Port!PortConstants
  <2>2. CASE Port!LockAgain(w)  BY <2>2 DEF Port!IndInv, Port!TypeOK, Port!MutexesHeld,
            Port!LockAgain, Port!PortConstants
  <2> QED  BY <2>1, <2>2
<1>3. \A v \in Dockers : /\ dock_pc[v] = "number" <=> dock_pc'[v] = "number"
                         /\ dock_pc[v] = "carry" <=> dock_pc'[v] = "carry"
      BY DEF Port!IndInv, Port!TypeOK, Port!LockShip, Port!LockAgain
<1>4. UNCHANGED <<packages_left, docked, next_package, pack, transported>>
      BY DEF Port!LockShip, Port!LockAgain
<1> QED  BY <1>1, <1>2, <1>3, <1>4, SameNumbers DEF Port!IndInv

\* Reading the next number under both mutexes.
LEMMA TakeStep ==
  ASSUME Port!IndInv, Port!PortConstants, NEW w \in Dockers, Port!TakePackage(w) PROVE Port!IndInv'
<1> USE DEF Port!Goto
<1>1. Port!TypeOK'  BY DEF Port!IndInv, Port!TypeOK, Port!TakePackage, Port!outside
<1>2. Port!MutexesHeld'  BY DEF Port!IndInv, Port!TypeOK, Port!MutexesHeld, Port!TakePackage
<1>3. \A v \in Dockers : dock_pc[v] # "number"
      BY DEF Port!IndInv, Port!MutexesHeld, Port!TakePackage
<1>4. \A v \in Dockers : dock_pc'[v] = "number" => v = w
      BY <1>3 DEF Port!IndInv, Port!TypeOK, Port!TakePackage
<1>5. dock_pc'[w] = "number" /\ pack'[w] = next_package /\ next_package' = next_package
      BY DEF Port!IndInv, Port!TypeOK, Port!TakePackage
<1>6. Port!Handed = next_package - 1 /\ Port!Handed' = next_package
      BY <1>3, <1>5 DEF Port!Handed
<1>7. Port!InHand' = Port!InHand /\ w \notin Port!InHand /\ \A v \in Port!InHand : pack'[v] = pack[v]
      BY DEF Port!IndInv, Port!TypeOK, Port!TakePackage, Port!InHand
<1>8. packages_left' = packages_left - 1 /\ packages_left > 0 /\ docked' = docked
      /\ transported' = transported
      BY DEF Port!TakePackage
<1>9. {pack'[v] : v \in Port!InHand'} = {pack[v] : v \in Port!InHand}  BY <1>7
<1>10. packages_left' + Port!Handed' = docked'
  <2>1. packages_left + (next_package - 1) = docked
        BY <1>6 DEF Port!IndInv, Port!EachPackageOnce
  <2> QED  BY <2>1, <1>6, <1>8 DEF Port!IndInv, Port!TypeOK
<1>11. \A v, x \in Port!InHand' : pack'[v] = pack'[x] => v = x
      BY <1>7 DEF Port!IndInv, Port!EachPackageOnce
<1>12. \A v \in Port!InHand' : pack'[v] \notin transported'
      BY <1>7, <1>8 DEF Port!IndInv, Port!EachPackageOnce
<1>13. {pack'[v] : v \in Port!InHand'} \cup transported' = 1 .. next_package' - 1
      BY <1>9, <1>5, <1>8 DEF Port!IndInv, Port!EachPackageOnce
<1>14. Port!EachPackageOnce'
      BY <1>10, <1>11, <1>12, <1>13 DEF Port!EachPackageOnce
<1>15. \A v \in Dockers : dock_pc'[v] = "number" => pack'[v] = next_package'
      BY <1>4, <1>5
<1> QED  BY <1>1, <1>2, <1>14, <1>15 DEF Port!IndInv

\* Writing the number back and releasing both mutexes.
LEMMA CountStep ==
  ASSUME Port!IndInv, Port!PortConstants, NEW w \in Dockers, Port!CountPackage(w) PROVE Port!IndInv'
<1> USE DEF Port!Goto
<1>0. dock_pc[w] = "number" /\ pack[w] = next_package /\ next_package' = next_package + 1
      BY DEF Port!IndInv, Port!CountPackage
<1>1. Port!TypeOK'  BY <1>0 DEF Port!IndInv, Port!TypeOK, Port!CountPackage, Port!outside
<1>2. Port!MutexesHeld'
      BY DEF Port!IndInv, Port!TypeOK, Port!MutexesHeld, Port!CountPackage, Port!PortConstants
<1>3. \A v \in Dockers : dock_pc[v] = "number" => v = w
      BY <1>0, OneNumbering DEF Port!IndInv
<1>4. \A v \in Dockers : dock_pc'[v] # "number"
      BY <1>3 DEF Port!IndInv, Port!TypeOK, Port!CountPackage
<1>5. Port!Handed = next_package /\ Port!Handed' = next_package' - 1
      BY <1>0, <1>4 DEF Port!Handed
<1>6. Port!InHand' = Port!InHand \cup {w} /\ pack' = pack
      BY DEF Port!IndInv, Port!TypeOK, Port!CountPackage, Port!InHand
<1>7. UNCHANGED <<packages_left, docked, transported>>  BY DEF Port!CountPackage
<1>8. packages_left' + Port!Handed' = docked'
      BY <1>0, <1>5, <1>7 DEF Port!IndInv, Port!TypeOK, Port!EachPackageOnce
<1>9. \A n \in {pack[v] : v \in Port!InHand} \cup transported : n # next_package
      BY DEF Port!IndInv, Port!TypeOK, Port!EachPackageOnce
<1>10. \A v, x \in Port!InHand' : pack'[v] = pack'[x] => v = x
      BY <1>0, <1>6, <1>9 DEF Port!IndInv, Port!EachPackageOnce
<1>11. \A v \in Port!InHand' : pack'[v] \notin transported'
      BY <1>0, <1>6, <1>7, <1>9 DEF Port!IndInv, Port!EachPackageOnce
<1>12. {pack'[v] : v \in Port!InHand'} \cup transported' = 1 .. next_package' - 1
  <2>1. {pack'[v] : v \in Port!InHand'} = {pack[v] : v \in Port!InHand} \cup {next_package}
        BY <1>0, <1>6
  <2>2. {pack[v] : v \in Port!InHand} \cup transported = 1 .. next_package - 1
        BY DEF Port!IndInv, Port!EachPackageOnce
  <2>3. 1 .. next_package' - 1 = (1 .. next_package - 1) \cup {next_package}
        BY <1>0 DEF Port!IndInv, Port!TypeOK
  <2> QED  BY <2>1, <2>2, <2>3, <1>7
<1>13. Port!EachPackageOnce'  BY <1>8, <1>10, <1>11, <1>12 DEF Port!EachPackageOnce
<1> QED  BY <1>1, <1>2, <1>4, <1>13 DEF Port!IndInv

\* The worker reports the number it carried.
LEMMA TransportStep ==
  ASSUME Port!IndInv, Port!PortConstants, NEW w \in Dockers, Port!Transport(w) PROVE Port!IndInv'
<1> USE DEF Port!Goto
<1>1. Port!TypeOK'  BY DEF Port!IndInv, Port!TypeOK, Port!Transport, Port!shared, Port!outside
<1>2. Port!MutexesHeld'
      BY DEF Port!IndInv, Port!TypeOK, Port!MutexesHeld, Port!Transport, Port!shared,
         Port!PortConstants
<1>3. \A v \in Dockers : dock_pc[v] = "number" <=> dock_pc'[v] = "number"
      BY DEF Port!IndInv, Port!TypeOK, Port!Transport
<1>4. UNCHANGED <<packages_left, docked, next_package, pack>>
      BY DEF Port!Transport, Port!shared
<1>5. Port!Handed' = Port!Handed  BY <1>3, <1>4 DEF Port!Handed
<1>6. w \in Port!InHand /\ Port!InHand' = Port!InHand \ {w} /\ transported' = transported \cup {pack[w]}
      BY DEF Port!IndInv, Port!TypeOK, Port!Transport, Port!InHand
<1>7. packages_left' + Port!Handed' = docked'  BY <1>4, <1>5 DEF Port!IndInv, Port!EachPackageOnce
<1>8. \A v, x \in Port!InHand' : pack'[v] = pack'[x] => v = x
      BY <1>4, <1>6 DEF Port!IndInv, Port!EachPackageOnce
<1>9. \A v \in Port!InHand' : pack'[v] \notin transported'
      BY <1>4, <1>6 DEF Port!IndInv, Port!EachPackageOnce
<1>10. {pack'[v] : v \in Port!InHand'} \cup transported' = {pack[v] : v \in Port!InHand} \cup transported
      BY <1>4, <1>6
<1>11. {pack'[v] : v \in Port!InHand'} \cup transported' = 1 .. next_package' - 1
      BY <1>4, <1>10 DEF Port!IndInv, Port!EachPackageOnce
<1>12. Port!EachPackageOnce'  BY <1>7, <1>8, <1>9, <1>11 DEF Port!EachPackageOnce
<1> QED  BY <1>1, <1>2, <1>3, <1>4, <1>12 DEF Port!IndInv

\* A broadcast moves only workers that hold nothing.
LEMMA BroadcastKeeps ==
  ASSUME Port!IndInv, Port!Broadcast
  PROVE  /\ dock_pc' \in [Dockers -> {"lock", "test", "waiting", "lockShip", "lockAgain",
                                 "retest", "number", "carry", "done"}]
         /\ \A w \in Dockers :
              dock_pc'[w] = dock_pc[w] \/ (dock_pc[w] = "waiting" /\ dock_pc'[w] = "lock")
<1>1. \A w \in Dockers : /\ dock_pc[w] = "waiting" => dock_pc'[w] = "lock"
                         /\ dock_pc[w] # "waiting" => dock_pc'[w] = dock_pc[w]
      BY DEF Port!Broadcast
<1>2. dock_pc' = [w \in Dockers |-> IF dock_pc[w] = "waiting" THEN "lock" ELSE dock_pc[w]]
      BY DEF Port!Broadcast
<1>3. \A w \in Dockers : dock_pc[w] \in {"lock", "test", "waiting", "lockShip", "lockAgain",
                                     "retest", "number", "carry", "done"}
      BY DEF Port!IndInv, Port!TypeOK
<1>4. dock_pc' \in [Dockers -> {"lock", "test", "waiting", "lockShip", "lockAgain",
                           "retest", "number", "carry", "done"}]
      BY <1>2, <1>3
<1>5. \A w \in Dockers : dock_pc'[w] = dock_pc[w] \/ (dock_pc[w] = "waiting" /\ dock_pc'[w] = "lock")
      BY <1>1
<1> QED  BY <1>4, <1>5

LEMMA PortSigStep ==
  ASSUME Port!IndInv, Port!PortConstants, Port!SigStep PROVE Port!IndInv'
<1>1. CASE \E sig \in {"INT", "USR1"} : Port!SigWait(sig)
  <2>1. PICK sig \in {"INT", "USR1"} : Port!SigWait(sig)  BY <1>1
  <2>2. Port!TypeOK'  BY <2>1 DEF Port!IndInv, Port!TypeOK, Port!SigWait, Port!shared, Port!worker
  <2>3. Port!MutexesHeld'  BY <2>1 DEF Port!IndInv, Port!TypeOK, Port!MutexesHeld, Port!SigWait,
            Port!shared, Port!worker
  <2>4. UNCHANGED <<packages_left, docked, next_package, pack, transported, dock_pc>>
        BY <2>1 DEF Port!SigWait, Port!shared, Port!worker
  <2> QED  BY <2>2, <2>3, <2>4, SameNumbers DEF Port!IndInv
<1>2. CASE Port!SigLock
  <2>2. Port!TypeOK'  BY <1>2 DEF Port!IndInv, Port!TypeOK, Port!SigLock, Port!outside,
            Port!worker, Port!Threads
  <2>3. Port!MutexesHeld'
        BY <1>2 DEF Port!IndInv, Port!TypeOK, Port!MutexesHeld, Port!SigLock, Port!outside,
           Port!worker, Port!PortConstants
  <2> QED  BY <1>2, <2>2, <2>3, SameNumbers DEF Port!IndInv, Port!SigLock, Port!worker
<1>3. CASE Port!DockRefused
  <2>2. Port!TypeOK'  BY <1>3 DEF Port!IndInv, Port!TypeOK, Port!DockRefused, Port!Release,
            Port!outside, Port!worker
  <2>3. Port!MutexesHeld'
        BY <1>3 DEF Port!IndInv, Port!TypeOK, Port!MutexesHeld, Port!DockRefused, Port!Release,
           Port!worker, Port!PortConstants
  <2> QED  BY <1>3, <2>2, <2>3, SameNumbers DEF Port!IndInv, Port!DockRefused, Port!Release,
              Port!worker
<1>4. CASE Port!TryTerminate
  <2>1. Port!Broadcast  BY <1>4 DEF Port!TryTerminate
  <2>2. Port!TypeOK'
        BY <1>4, <2>1, BroadcastKeeps DEF Port!IndInv, Port!TypeOK, Port!TryTerminate, Port!outside
  <2>3. Port!MutexesHeld'
        BY <1>4, <2>1, BroadcastKeeps DEF Port!IndInv, Port!TypeOK, Port!MutexesHeld,
           Port!TryTerminate, Port!PortConstants
  <2>4. UNCHANGED <<packages_left, docked, next_package, pack, transported>>
        BY <1>4 DEF Port!TryTerminate
  <2> QED  BY <2>1, <2>2, <2>3, <2>4, BroadcastKeeps, SameNumbers DEF Port!IndInv
<1>5. CASE \E n \in Loads : Port!DockShip(n)
  <2>1. PICK n \in Loads : Port!DockShip(n)  BY <1>5
  <2>2. n \in Nat /\ Port!Broadcast  BY <2>1 DEF Port!PortConstants, Port!DockShip
  <2>3. Port!TypeOK'
        BY <2>1, <2>2, BroadcastKeeps DEF Port!IndInv, Port!TypeOK, Port!DockShip, Port!outside
  <2>4. Port!MutexesHeld'
        BY <2>1, <2>2, BroadcastKeeps DEF Port!IndInv, Port!TypeOK, Port!MutexesHeld,
           Port!DockShip, Port!PortConstants
  <2>5. UNCHANGED <<next_package, pack, transported>>  BY <2>1 DEF Port!DockShip
  <2>6. Port!InHand' = Port!InHand /\ Port!Handed' = Port!Handed
        BY <2>2, <2>5, BroadcastKeeps DEF Port!InHand, Port!Handed
  <2>7. packages_left = 0 /\ packages_left' = n /\ docked' = docked + n
        BY <2>1 DEF Port!IndInv, Port!TypeOK, Port!DockShip
  <2>8. Port!Handed \in Nat  BY DEF Port!IndInv, Port!TypeOK, Port!Handed
  <2>9. packages_left' + Port!Handed' = docked'
        BY <2>2, <2>6, <2>7, <2>8 DEF Port!IndInv, Port!TypeOK, Port!EachPackageOnce
  <2>10. Port!EachPackageOnce'
        BY <2>5, <2>6, <2>9 DEF Port!IndInv, Port!EachPackageOnce
  <2>11. \A w \in Dockers : dock_pc'[w] = "number" => pack'[w] = next_package'
        BY <2>2, <2>5, BroadcastKeeps DEF Port!IndInv
  <2> QED  BY <2>3, <2>4, <2>10, <2>11 DEF Port!IndInv
<1> QED  BY <1>1, <1>2, <1>3, <1>4, <1>5 DEF Port!SigStep

\* main, the user and the system touch no package.
LEMMA PortOutside ==
  ASSUME Port!IndInv, Port!PortConstants,
         Port!MainEnds \/ Port!SendUsr1 \/ Port!SendInt
             \/ (\E w \in Dockers : Port!SpuriousWakeup(w)) \/ UNCHANGED Port!vars
  PROVE  Port!IndInv'
<1>1. CASE Port!MainEnds \/ Port!SendUsr1 \/ Port!SendInt \/ UNCHANGED Port!vars
  <2>1. UNCHANGED <<Port!shared, Port!worker, dock_sigpc, docked>>
        BY <1>1 DEF Port!MainEnds, Port!SendUsr1, Port!SendInt, Port!vars
  <2>2. Port!TypeOK'
    <3>1. CASE Port!MainEnds  BY <3>1 DEF Port!IndInv, Port!TypeOK, Port!MainEnds, Port!shared,
            Port!worker, Port!outside
    <3>2. CASE Port!SendUsr1  BY <3>2 DEF Port!IndInv, Port!TypeOK, Port!SendUsr1, Port!shared,
            Port!worker
    <3>3. CASE Port!SendInt  BY <3>3 DEF Port!IndInv, Port!TypeOK, Port!SendInt, Port!shared,
            Port!worker
    <3>4. CASE UNCHANGED Port!vars  BY <3>4 DEF Port!IndInv, Port!TypeOK, Port!vars, Port!shared,
            Port!worker, Port!outside
    <3> QED  BY <1>1, <3>1, <3>2, <3>3, <3>4
  <2>3. Port!MutexesHeld'  BY <2>1 DEF Port!IndInv, Port!MutexesHeld, Port!shared, Port!worker
  <2> QED  BY <2>1, <2>2, <2>3, SameNumbers DEF Port!IndInv, Port!shared, Port!worker
<1>2. CASE \E w \in Dockers : Port!SpuriousWakeup(w)
  <2>1. PICK w \in Dockers : Port!SpuriousWakeup(w)  BY <1>2
  <2>2. Port!TypeOK'  BY <2>1 DEF Port!IndInv, Port!TypeOK, Port!SpuriousWakeup, Port!Goto,
            Port!shared
  <2>3. Port!MutexesHeld'  BY <2>1 DEF Port!IndInv, Port!TypeOK, Port!MutexesHeld,
            Port!SpuriousWakeup, Port!Goto, Port!shared
  <2>4. \A v \in Dockers : /\ dock_pc[v] = "number" <=> dock_pc'[v] = "number"
                           /\ dock_pc[v] = "carry" <=> dock_pc'[v] = "carry"
        BY <2>1 DEF Port!IndInv, Port!TypeOK, Port!SpuriousWakeup, Port!Goto
  <2> QED  BY <2>1, <2>2, <2>3, <2>4, SameNumbers DEF Port!IndInv, Port!SpuriousWakeup, Port!shared
<1> QED  BY <1>1, <1>2

LEMMA PortNext == ASSUME Port!PortConstants, Port!IndInv, [Port!Next]_Port!vars PROVE Port!IndInv'
<1>1. CASE \E w \in Dockers : Port!WorkerStep(w)
  <2>1. PICK w \in Dockers : Port!WorkerStep(w)  BY <1>1
  <2> QED  BY <2>1, LockStateStep, ReleaseStep, ShipLockStep, TakeStep, CountStep, TransportStep
           DEF Port!WorkerStep
<1>2. CASE Port!SigStep  BY <1>2, PortSigStep
<1>3. CASE Port!MainEnds \/ Port!SendUsr1 \/ Port!SendInt
             \/ (\E w \in Dockers : Port!SpuriousWakeup(w)) \/ UNCHANGED Port!vars
      BY <1>3, PortOutside
<1> QED  BY <1>1, <1>2, <1>3 DEF Port!Next, Port!Ended

\* The invariant holds for every number of workers, ships and packages.
THEOREM PortInvariance == PortSpec => []Port!IndInv
<1>1. Port!Init => Port!IndInv  BY PortInit, PortAssumption
<1>2. Port!IndInv /\ [Port!Next]_Port!vars => Port!IndInv'  BY PortNext, PortAssumption
<1> QED  BY <1>1, <1>2, PTL DEF PortSpec, Port!Spec

\* No package is lost, none is taken twice, no number is used twice.
THEOREM PackagesAreConserved == PortSpec => []EachPackageOnce
<1>1. Port!IndInv => EachPackageOnce  BY DEF Port!IndInv, EachPackageOnce
<1> QED  BY <1>1, PortInvariance, PTL

\* After SIGINT was handled no package leaves a ship and no ship docks.
THEOREM PortClosedForGood == PortSpec => NoWorkAfterClosing
<1>1. Port!IndInv /\ [Port!Next]_Port!vars => [terminate => terminate' /\ packages_left' = packages_left]_Port!vars
  <2> SUFFICES ASSUME Port!IndInv, Port!Next, terminate
               PROVE  terminate' /\ packages_left' = packages_left
      OBVIOUS
  <2>1. CASE \E w \in Dockers : Port!WorkerStep(w)
        BY <2>1 DEF Port!WorkerStep, Port!LockState, Port!CondWait, Port!LeaveAtOnce,
           Port!GoToShip, Port!LockShip, Port!LockAgain,
           Port!LeaveAtShip, Port!ShipIsEmpty, Port!TakePackage, Port!CountPackage,
           Port!Transport, Port!Release, Port!Private, Port!shared
  <2>2. CASE Port!SigStep
        BY <2>2 DEF Port!SigStep, Port!SigWait, Port!SigLock, Port!DockRefused, Port!DockShip,
           Port!TryTerminate, Port!Release, Port!shared
  <2>3. CASE Port!MainEnds \/ Port!SendUsr1 \/ Port!SendInt
             \/ (\E w \in Dockers : Port!SpuriousWakeup(w)) \/ Port!Ended
        BY <2>3 DEF Port!MainEnds, Port!SendUsr1, Port!SendInt, Port!SpuriousWakeup, Port!Ended,
           Port!vars, Port!shared
  <2> QED  BY <2>1, <2>2, <2>3 DEF Port!Next
<1> QED  BY <1>1, PortInvariance, PTL DEF PortSpec, Port!Spec, NoWorkAfterClosing,
            Port!NoWorkAfterClosing

\* Steps of the threads that neither hand out a package nor dock a ship.
LEMMA StutterStep ==
  ASSUME Port!IndInv, UNCHANGED <<packages_left, next_package, docked, terminate>>,
         \A w \in Dockers : dock_pc[w] = "number" <=> dock_pc'[w] = "number"
  PROVE  UNCHANGED <<packages_left, Port!Handed, docked, terminate>>
  BY DEF Port!Handed

\* The threads, mutexes and signals together do what PackageFlow promises.
THEOREM PortImplementsFlow == PortSpec => FlowSpec
<1>1. Port!Init => Port!Flow!Init  BY DEF Port!Init, Port!Flow!Init, Port!Handed
<1>2. Port!IndInv /\ Port!IndInv' /\ [Port!Next]_Port!vars => [Port!Flow!Next]_<<packages_left,
Port!Handed, docked, terminate>>
  <2> SUFFICES ASSUME Port!IndInv, Port!IndInv', [Port!Next]_Port!vars
               PROVE  Port!Flow!Next \/ UNCHANGED <<packages_left, Port!Handed, docked, terminate>>
      OBVIOUS
  <2>1. CASE \E w \in Dockers : Port!TakePackage(w)
    <3>1. PICK w \in Dockers : Port!TakePackage(w)  BY <2>1
    <3>2. (\A v \in Dockers : dock_pc[v] # "number") /\ dock_pc'[w] = "number"
          BY <3>1 DEF Port!IndInv, Port!TypeOK, Port!MutexesHeld, Port!TakePackage, Port!Goto
    <3>3. Port!Handed = next_package - 1 /\ Port!Handed' = next_package
          BY <3>1, <3>2 DEF Port!Handed, Port!TakePackage
    <3>4. Port!Flow!HandOut  BY <3>1, <3>3 DEF Port!Flow!HandOut, Port!TakePackage, Port!IndInv,
            Port!TypeOK
    <3> QED  BY <3>4 DEF Port!Flow!Next
  <2>2. CASE \E w \in Dockers : Port!CountPackage(w)
    <3>1. PICK w \in Dockers : Port!CountPackage(w)  BY <2>2
    <3>2. dock_pc[w] = "number" /\ pack[w] = next_package  BY <3>1 DEF Port!IndInv,
            Port!CountPackage, Port!Goto
    <3>3. \A v \in Dockers : dock_pc'[v] # "number"
          BY <3>1, <3>2, OneNumbering, PortAssumption DEF Port!IndInv, Port!TypeOK,
             Port!CountPackage, Port!Goto
    <3>4. Port!Handed' = Port!Handed
          BY <3>1, <3>2, <3>3 DEF Port!Handed, Port!CountPackage, Port!IndInv, Port!TypeOK
    <3> QED  BY <3>1, <3>4 DEF Port!CountPackage
  <2>3. CASE \E n \in Loads : Port!DockShip(n)
    <3>1. PICK n \in Loads : Port!DockShip(n)  BY <2>3
    <3>2. \A v \in Dockers : dock_pc[v] = "number" <=> dock_pc'[v] = "number"
          BY <3>1, BroadcastKeeps DEF Port!DockShip
    <3>3. Port!Handed' = Port!Handed  BY <3>1, <3>2 DEF Port!Handed, Port!DockShip
    <3>4. Port!Flow!Arrive(n)  BY <3>1, <3>3 DEF Port!Flow!Arrive, Port!DockShip, Port!IndInv,
            Port!TypeOK
    <3> QED  BY <3>4 DEF Port!Flow!Next
  <2>4. CASE Port!TryTerminate
    <3>1. \A v \in Dockers : dock_pc[v] = "number" <=> dock_pc'[v] = "number"
          BY <2>4, BroadcastKeeps DEF Port!TryTerminate
    <3>2. Port!Handed' = Port!Handed  BY <2>4, <3>1 DEF Port!Handed, Port!TryTerminate
    <3>3. Port!Flow!Close  BY <2>4, <3>2 DEF Port!Flow!Close, Port!TryTerminate
    <3> QED  BY <3>3 DEF Port!Flow!Next
  <2>5. CASE \E w \in Dockers : Port!LockState(w) \/ Port!CondWait(w) \/ Port!LeaveAtOnce(w) \/ Port!GoToShip(w)
                                \/ Port!LockShip(w) \/ Port!LockAgain(w) \/ Port!LeaveAtShip(w) \/ Port!ShipIsEmpty(w)
    <3>1. UNCHANGED <<packages_left, next_package, docked, terminate>>
          BY <2>5 DEF Port!LockState, Port!CondWait, Port!LeaveAtOnce, Port!GoToShip,
             Port!LockShip, Port!LockAgain, Port!LeaveAtShip,
             Port!ShipIsEmpty, Port!Release, Port!Private
    <3>2. \A v \in Dockers : dock_pc[v] = "number" <=> dock_pc'[v] = "number"
          BY <2>5 DEF Port!LockState, Port!CondWait, Port!LeaveAtOnce, Port!GoToShip,
             Port!LockShip, Port!LockAgain, Port!LeaveAtShip,
             Port!ShipIsEmpty, Port!Goto, Port!IndInv, Port!TypeOK
    <3> QED  BY <3>1, <3>2, StutterStep
  <2>6. CASE \E w \in Dockers : Port!Transport(w) \/ Port!SpuriousWakeup(w)
    <3>1. \A v \in Dockers : dock_pc[v] = "number" <=> dock_pc'[v] = "number"
          BY <2>6 DEF Port!Transport, Port!SpuriousWakeup, Port!Goto, Port!IndInv, Port!TypeOK
    <3> QED  BY <2>6, <3>1, StutterStep DEF Port!Transport, Port!SpuriousWakeup, Port!shared
  <2>7. CASE (\E sig \in {"INT", "USR1"} : Port!SigWait(sig)) \/ Port!SigLock \/ Port!DockRefused
        BY <2>7, StutterStep DEF Port!SigWait, Port!SigLock, Port!DockRefused, Port!Release,
           Port!shared, Port!worker
  <2>8. CASE Port!MainEnds \/ Port!SendUsr1 \/ Port!SendInt \/ Port!Ended \/ UNCHANGED Port!vars
        BY <2>8, StutterStep DEF Port!MainEnds, Port!SendUsr1, Port!SendInt, Port!Ended,
           Port!vars, Port!shared, Port!worker
  <2> QED  BY <2>1, <2>2, <2>3, <2>4, <2>5, <2>6, <2>7, <2>8 DEF Port!Next, Port!WorkerStep,
              Port!SigStep
<1> QED  BY <1>1, <1>2, PortInvariance, PTL DEF PortSpec, Port!Spec, FlowSpec, Port!FlowSpec,
            Port!Flow!Spec, Port!Flow!flow
=============================================================================
