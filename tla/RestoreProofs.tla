--------------------------- MODULE RestoreProofs ---------------------------
(***************************************************************************)
(* Proofs about Restore for every tree, every content and any number of    *)
(* failed attempts: IndInv is inductive, and the safety properties the     *)
(* run checks follow from it.                                              *)
(***************************************************************************)
EXTENDS Restore, TLAPS

\* A node's kind tells which node it is, unless it is a file or a link.
LEMMA Kinds ==
  ASSUME NEW n \in Nodes
  PROVE  /\ n = Absent <=> n.kind = "absent"
         /\ n = Dir <=> n.kind = "dir"
         /\ n.kind \in {"absent", "dir", "other", "file", "link"}
         /\ n.kind \in {"file", "link"} =>
              n.new \in BOOLEAN /\ n.data \in Data \cup {Cut} /\ n = [kind |-> n.kind, data |-> n.data, new |-> n.new]
BY DEF Nodes, Leaves, Absent, Dir, Other

\* Nodes of a backup.
LEMMA BackupKinds ==
  ASSUME NEW n \in {Absent, Dir} \cup Leaves(Data, {FALSE})
  PROVE  /\ n \in Nodes
         /\ n.kind \in {"absent", "dir", "file", "link"}
<1>1. CASE n \in {Absent, Dir}
  BY <1>1 DEF Nodes, Absent, Dir
<1>2. CASE n \in Leaves(Data, {FALSE})
  <2>1. Leaves(Data, {FALSE}) \subseteq Leaves(Data \cup {Cut}, BOOLEAN)
    BY DEF Leaves
  <2>2. n.kind \in {"file", "link"}
    BY <1>2 DEF Leaves
  <2> QED
    BY <1>2, <2>1, <2>2 DEF Nodes
<1> QED
  BY <1>1, <1>2

\* A file or a link is a node.
LEMMA LeafIsNode ==
  ASSUME NEW k \in {"file", "link"}, NEW d \in Data \cup {Cut}, NEW b \in BOOLEAN
  PROVE  /\ [kind |-> k, data |-> d, new |-> b] \in Nodes
         /\ [kind |-> k, data |-> d, new |-> b].kind = k
         /\ [kind |-> k, data |-> d, new |-> b].data = d
         /\ [kind |-> k, data |-> d, new |-> b].new = b
BY DEF Nodes, Leaves

\* What the source gets for a file or a link of the backup.
LEMMA ContentOf ==
  ASSUME TypeOK, NEW p \in Paths, bak[p].kind \in {"file", "link"}
  PROVE  /\ Content(p) \in Data
         /\ bak[p].kind = "file" => Content(p) = bak[p].data
         /\ bak[p].kind = "link" => Content(p) = Rewritten[bak[p].data]
<1>1. bak[p] \in {Absent, Dir} \cup Leaves(Data, {FALSE})
  BY DEF TypeOK
<1>2. bak[p].data \in Data
  <2>1. bak[p] \notin {Absent, Dir}
    BY DEF Absent, Dir
  <2> QED
    BY <1>1, <2>1 DEF Leaves
<1>3. Rewritten[bak[p].data] \in Data
  BY <1>2, RestoreAssumption
<1> QED
  BY <1>2, <1>3 DEF Content, LinkTo

\* Which entries lie where.
LEMMA Trees ==
  /\ \A p \in Paths : p \in Below[p] /\ Below[p] \subseteq Paths /\ Children[p] \subseteq Below[p]
  /\ \A p \in Paths : \A q \in Below[p] \ {p} : \E c \in Children[p] : q \in Below[c]
  /\ \A p, q \in Paths : q \in Below[p] => Below[q] \subseteq Below[p]
  /\ \A p, q \in Paths : p \in Below[q] /\ q \in Below[p] => p = q
  /\ \A p, q \in Paths : \A c \in Children[p] : c \in Below[q] /\ c # q => p \in Below[q]
  /\ Root \in Paths /\ Below[Root] = Paths
BY RestoreAssumption

LEMMA InitInv == Init => IndInv
<1> SUFFICES ASSUME Init PROVE IndInv
  OBVIOUS
<1>1. src \in [Paths -> Nodes]
  BY DEF Init, Nodes, Leaves
<1>2. TypeOK
  BY <1>1, Trees, RestoreAssumption DEF Init, TypeOK
<1>3. NeverTouchesSame /\ NothingInTheWay /\ AgeInv /\ ApplyInv /\ Restored
  BY DEF Init, NeverTouchesSame, NothingInTheWay, AgeInv, ApplyInv, Restored
<1>4. CheckInv
  BY Trees DEF Init, CheckInv
<1> QED
  BY <1>2, <1>3, <1>4 DEF Init, IndInv

\* What is removed with a misfit was not in the backup in that place: nothing
\* below a misfit is untouched.
LEMMA MisfitsHoldNothing ==
  ASSUME IndInv, NEW p \in Paths, Foreign(p), NEW q \in Below[p]
  PROVE  ~Untouched(q)
<1> SUFFICES ASSUME Untouched(q) PROVE FALSE
  OBVIOUS
<1>1. q \in Paths
  BY Trees
<1>2. src[q] = orig[q] /\ orig[q].kind = bak[q].kind /\ orig[q] # Absent
  BY <1>1 DEF IndInv, NeverTouchesSame, Untouched, Same
<1>3. q # p
  BY <1>2 DEF Foreign
<1>4. orig[q] \in Nodes /\ bak[q] \in Nodes /\ orig[p] \in Nodes
  BY <1>1, BackupKinds DEF IndInv, TypeOK
<1>5. bak[q] # Absent
  BY <1>2, <1>4, Kinds
<1>6. orig[p] = Dir /\ bak[p] = Dir
  BY <1>1, <1>2, <1>3, <1>5 DEF IndInv, Shaped
<1>7. Untouched(p)
  BY <1>6 DEF Untouched, Same, Dir, Absent
<1>8. src[p] = Dir
  BY <1>6, <1>7 DEF IndInv, NeverTouchesSame
<1> QED
  BY <1>6, <1>8 DEF Foreign

\* Removing a subtree leaves a tree, and nodes.
LEMMA RemovalKeepsShape ==
  ASSUME NEW t \in [Paths -> Nodes], Shaped(t), NEW p \in Paths
  PROVE  /\ Without(t, p) \in [Paths -> Nodes]
         /\ Shaped(Without(t, p))
<1>1. Absent \in Nodes
  BY DEF Nodes
<1>2. Without(t, p) \in [Paths -> Nodes]
  BY <1>1 DEF Without
<1>3. ASSUME NEW r \in Paths, NEW s \in Below[r] \ {r}, Without(t, p)[s] # Absent
      PROVE  Without(t, p)[r] = Dir
  <2>1. s \in Paths
    BY Trees
  <2>2. s \notin Below[p] /\ t[s] # Absent
    BY <1>3, <2>1 DEF Without
  <2>3. r \notin Below[p]
    BY <2>1, <2>2, Trees
  <2>4. t[r] = Dir
    BY <2>2 DEF Shaped
  <2> QED
    BY <2>3, <2>4 DEF Without
<1> QED
  BY <1>2, <1>3 DEF Shaped

\* A removal below a misfit, in the check, disturbs nothing that must stay.
LEMMA RemovalStep ==
  ASSUME IndInv, NEW p \in Paths, Foreign(p), NEW c \in Below[p],
         src' = Without(src, c), bak' = bak, orig' = orig
  PROVE  /\ src' \in [Paths -> Nodes]
         /\ Shaped(src)'
         /\ NeverTouchesSame'
         /\ AgeInv'
<1> USE DEF IndInv
<1>0. c \in Paths /\ Below[c] \subseteq Below[p]
  BY Trees
<1>1. src' \in [Paths -> Nodes] /\ Shaped(src)'
  BY <1>0, RemovalKeepsShape DEF TypeOK, Shaped
<1>2. NeverTouchesSame'
  <2> SUFFICES ASSUME NEW q \in Paths, Untouched(q)' PROVE src'[q] = orig[q]
    BY DEF NeverTouchesSame
  <2>1. Untouched(q)
    BY DEF Untouched, Same
  <2>2. q \notin Below[c]
    BY <1>0, <2>1, MisfitsHoldNothing
  <2> QED
    BY <2>1, <2>2 DEF NeverTouchesSame, Without
<1>3. AgeInv'
  BY DEF AgeInv, Without, Same
<1> QED
  BY <1>1, <1>2, <1>3

LEMMA CheckEntryStep ==
  ASSUME IndInv, NEW p \in Paths, CheckEntry(p)
  PROVE  IndInv'
<1> USE DEF IndInv
<1>0. phase = "check" /\ phase' = "check" /\ p \in todo /\ bak' = bak /\ orig' = orig /\ fails' = fails
  BY DEF CheckEntry
<1>1. NothingInTheWay' /\ ApplyInv' /\ Restored'
  BY <1>0 DEF NothingInTheWay, ApplyInv, Restored
<1>2. CASE Foreign(p)
  <2>1. src' = Without(src, p) /\ todo' = todo \ {p}
    BY <1>2 DEF CheckEntry
  <2>2. p \in Below[p]
    BY Trees
  <2>3. src' \in [Paths -> Nodes] /\ Shaped(src)' /\ NeverTouchesSame' /\ AgeInv'
    BY <1>0, <1>2, <2>1, <2>2, RemovalStep
  <2>4. TypeOK'
    BY <1>0, <2>1, <2>3 DEF TypeOK
  <2>5. CheckInv'
    BY <1>0, <2>1, Trees DEF CheckInv, Without, Foreign
  <2> QED
    BY <1>0, <1>1, <2>3, <2>4, <2>5 DEF Shaped
<1>3. CASE ~Foreign(p)
  <2>1. src' = src /\ todo' = (todo \ {p}) \cup Held(src, p)
    BY <1>3 DEF CheckEntry
  <2>2. TypeOK'
    BY <1>0, <2>1, Trees DEF TypeOK, Held
  <2>3. CheckInv'
    <3> SUFFICES ASSUME NEW q \in Paths, src[q] # Absent, Foreign(q)
                 PROVE  \E r \in todo' : q \in Below[r]
      BY <1>0, <2>1 DEF CheckInv, Foreign
    <3>1. PICK r \in todo : q \in Below[r]
      BY <1>0 DEF CheckInv
    <3>2. CASE r # p
      BY <2>1, <3>1, <3>2
    <3>3. CASE r = p
      <4>1. q # p
        BY <1>3
      <4>2. PICK c \in Children[p] : q \in Below[c]
        BY <3>1, <3>3, <4>1, Trees
      <4>3. c \in Paths
        BY Trees
      <4>4. src[c] # Absent
        <5>1. CASE c = q
          BY <5>1
        <5>2. CASE c # q
          BY <4>2, <4>3, <5>2 DEF Shaped, Dir, Absent
        <5> QED
          BY <5>1, <5>2
      <4> QED
        BY <2>1, <4>2, <4>4 DEF Held
    <3> QED
      BY <3>2, <3>3
  <2> QED
    BY <1>0, <1>1, <2>1, <2>2, <2>3 DEF Shaped, NeverTouchesSame, Untouched, Same, AgeInv
<1> QED
  BY <1>2, <1>3

LEMMA CheckEndsStep ==
  ASSUME IndInv, CheckEnds
  PROVE  IndInv'
<1> USE DEF IndInv
<1>0. /\ phase = "check" /\ todo = {} /\ src' = src /\ bak' = bak /\ orig' = orig /\ fails' = fails
      /\ phase' \in {"apply", "failed"} /\ todo' \in {{}, {Root}} /\ (phase' = "apply" => todo' = {Root} /\ bak[Root] # Absent)
  BY DEF CheckEnds
<1>1. TypeOK'
  BY <1>0, Trees DEF TypeOK
<1>2. Shaped(src)' /\ Shaped(bak)' /\ Shaped(orig)' /\ NeverTouchesSame' /\ AgeInv'
  BY <1>0 DEF Shaped, NeverTouchesSame, Untouched, Same, AgeInv
<1>3. NothingInTheWay'
  BY <1>0 DEF CheckInv, NothingInTheWay, Foreign
<1>4. CheckInv' /\ Restored'
  BY <1>0 DEF CheckInv, Restored
<1>5. ApplyInv'
  BY <1>0, Trees DEF ApplyInv
<1> QED
  BY <1>1, <1>2, <1>3, <1>4, <1>5

\* What apply_backup makes of an entry that is not in the way.
LEMMA ApplyEntrySets ==
  ASSUME IndInv, NEW p \in Paths, ApplyEntry(p), bak[p] # Absent
  PROVE  /\ src' \in [Paths -> Nodes]
         /\ \A q \in Paths \ {p} : src'[q] = src[q]
         /\ src'[p].kind = bak[p].kind
         /\ Same(src', p) \/ (src'[p] = src[p] /\ KeptOld(p))
         /\ Untouched(p) => src'[p] = src[p]
         /\ src'[p] \in {Dir, src[p]} \/ (src'[p].kind \in {"file", "link"} /\ Same(src', p))
<1> USE DEF IndInv
<1>1. /\ src[p] \in Nodes /\ bak[p] \in Nodes /\ orig[p] \in Nodes /\ Dir \in Nodes
      /\ bak[p].kind \in {"dir", "file", "link"}
      /\ p \in todo /\ bak' = bak /\ orig' = orig
  BY BackupKinds, Kinds DEF TypeOK, ApplyEntry, Nodes
<1>2. src[p] = Absent \/ src[p].kind = bak[p].kind
  BY DEF ApplyEntry, NothingInTheWay
<1>3. CASE bak[p] = Dir
  <2>1. src' = [src EXCEPT ![p] = Dir]
    BY <1>3 DEF ApplyEntry
  <2>2. src' \in [Paths -> Nodes] /\ src'[p] = Dir /\ \A q \in Paths \ {p} : src'[q] = src[q]
    BY <1>1, <2>1 DEF TypeOK
  <2>3. Untouched(p) => src'[p] = src[p]
    BY <1>1, <1>3, <2>2, Kinds DEF Untouched, Same, NeverTouchesSame
  <2> QED
    BY <1>1, <1>3, <2>2, <2>3 DEF Same, Dir
<1>4. CASE bak[p] # Dir
  <2>0. bak[p].kind \in {"file", "link"}
    BY <1>1, <1>4, Kinds
  <2>1. /\ bak[p].kind \in {"file", "link"} /\ Content(p) \in Data \cup {Cut}
        /\ bak[p].kind = "file" => Content(p) = bak[p].data
        /\ bak[p].kind = "link" => Content(p) = Rewritten[bak[p].data]
    BY <2>0, ContentOf
  <2>2. CASE ToWrite(p)
    <3>1. PICK late \in BOOLEAN : src' = [src EXCEPT ![p] = [kind |-> bak[p].kind, data |-> Content(p), new |-> late]]
      BY <1>4, <2>2 DEF ApplyEntry, Copied
    <3>2. /\ src' \in [Paths -> Nodes]
          /\ src'[p] = [kind |-> bak[p].kind, data |-> Content(p), new |-> late]
          /\ \A q \in Paths \ {p} : src'[q] = src[q]
      <4> DEFINE leaf == [kind |-> bak[p].kind, data |-> Content(p), new |-> late]
      <4>1. leaf \in Nodes
        BY <2>1, LeafIsNode
      <4>2. src \in [Paths -> Nodes] /\ src' = [src EXCEPT ![p] = leaf]
        BY <3>1 DEF TypeOK
      <4> HIDE DEF leaf
      <4>3. src' \in [Paths -> Nodes] /\ src'[p] = leaf /\ \A q \in Paths \ {p} : src'[q] = src[q]
        BY <4>1, <4>2
      <4> QED
        BY <4>3 DEF leaf
    <3>3. src'[p].kind = bak[p].kind /\ src'[p].data = Content(p)
      BY <2>1, <3>2, LeafIsNode
    <3>4. ~Untouched(p)
      BY <2>2 DEF Untouched, NeverTouchesSame, ToWrite
    <3> QED
      BY <2>1, <3>2, <3>3, <3>4 DEF Same
  <2>3. CASE ~ToWrite(p)
    <3>1. src' = src
      BY <1>4, <2>3 DEF ApplyEntry
    <3>2. src[p] # Absent /\ src[p].kind = bak[p].kind
      BY <1>2, <2>3 DEF ToWrite
    <3>3. src[p] # Dir /\ ~src[p].new
      BY <1>1, <2>1, <2>3, <3>2, Kinds DEF ToWrite
    <3>4. src[p] = orig[p] \/ Same(src, p) \/ src[p].data = Cut
      BY <3>2, <3>3 DEF AgeInv
    <3> QED
      <4>1. Same(src', p) \/ KeptOld(p)
        BY <2>1, <3>1, <3>2, <3>3, <3>4 DEF KeptOld
      <4>2. src \in [Paths -> Nodes]
        BY DEF TypeOK
      <4> QED
        BY <3>1, <3>2, <4>1, <4>2
  <2> QED
    BY <2>2, <2>3
<1> QED
  BY <1>3, <1>4

LEMMA ApplyEntryStep ==
  ASSUME IndInv, NEW p \in Paths, ApplyEntry(p)
  PROVE  IndInv'
<1> USE DEF IndInv
<1>0. /\ phase = "apply" /\ phase' = "apply" /\ p \in todo /\ bak' = bak /\ orig' = orig /\ fails' = fails
      /\ todo' = (todo \ {p}) \cup Held(bak, p)
  BY DEF ApplyEntry
<1>1. bak[p] # Absent
  BY <1>0 DEF ApplyInv
<1>2. /\ src' \in [Paths -> Nodes]
      /\ \A q \in Paths \ {p} : src'[q] = src[q]
      /\ src'[p].kind = bak[p].kind
      /\ Same(src', p) \/ (src'[p] = src[p] /\ KeptOld(p))
      /\ Untouched(p) => src'[p] = src[p]
      /\ src'[p] \in {Dir, src[p]} \/ (src'[p].kind \in {"file", "link"} /\ Same(src', p))
  BY <1>1, ApplyEntrySets
<1>3. TypeOK'
  BY <1>0, <1>2, Trees DEF TypeOK, Held
<1>4. src'[p] # Absent /\ (src[p] = Dir => src'[p] = Dir)
  <2>1. src'[p] \in Nodes /\ bak[p] \in Nodes /\ src[p] \in Nodes
    BY <1>2, BackupKinds DEF TypeOK
  <2>2. src'[p] # Absent
    BY <1>1, <1>2, <2>1, Kinds
  <2>3. src[p] = Dir => bak[p].kind = "dir"
    BY <1>0, <2>1, Kinds DEF NothingInTheWay, Dir, Absent
  <2> QED
    BY <1>2, <2>1, <2>2, <2>3, Kinds
<1>5. Shaped(src)'
  <2> SUFFICES ASSUME NEW r \in Paths, NEW s \in Below[r] \ {r}, src'[s] # Absent
               PROVE  src'[r] = Dir
    BY DEF Shaped
  <2>0. s \in Paths
    BY Trees
  <2>1. CASE s = p
    BY <1>0, <1>2, <2>1 DEF ApplyInv
  <2>2. CASE s # p
    <3>1. src[r] = Dir
      BY <1>2, <2>0, <2>2 DEF Shaped
    <3> QED
      BY <1>2, <1>4, <3>1
  <2> QED
    BY <2>1, <2>2
<1>6. NeverTouchesSame'
  BY <1>0, <1>2 DEF NeverTouchesSame, Untouched, Same
<1>7. NothingInTheWay'
  BY <1>0, <1>2 DEF NothingInTheWay
<1>8. AgeInv'
  BY <1>0, <1>2 DEF AgeInv, Same
<1>9. ApplyInv'
  <2>1. ASSUME NEW q \in Paths
        PROVE  Same(src, q)' \/ KeptOld(q)' \/ \E r \in todo' : q \in Below[r]
    <3>1. CASE q = p
      BY <1>0, <1>2, <3>1 DEF Same, KeptOld
    <3>2. CASE q # p /\ (Same(src, q) \/ KeptOld(q))
      BY <1>0, <1>2, <3>2 DEF Same, KeptOld
    <3>3. CASE q # p /\ ~Same(src, q) /\ ~KeptOld(q)
      <4>1. PICK r \in todo : q \in Below[r]
        BY <1>0, <3>3 DEF ApplyInv
      <4>2. CASE r # p
        BY <1>0, <4>1, <4>2
      <4>3. CASE r = p
        <5>1. PICK c \in Children[p] : q \in Below[c]
          BY <3>3, <4>1, <4>3, Trees
        <5>2. c \in Paths
          BY Trees
        <5>3. CASE bak[c] # Absent
          BY <1>0, <5>1, <5>3 DEF Held
        <5>4. CASE bak[c] = Absent
          <6>1. bak[q] = Absent
            BY <5>1, <5>2, <5>4 DEF Shaped, Dir, Absent
          <6>2. src[q] = Absent
            <7>1. src[q] \in Nodes
              BY DEF TypeOK
            <7> QED
              BY <1>0, <6>1, <7>1, Kinds DEF NothingInTheWay, Absent
          <6> QED
            BY <3>3, <6>1, <6>2 DEF Same, Absent
        <5> QED
          BY <5>3, <5>4
      <4> QED
        BY <4>2, <4>3
    <3> QED
      BY <3>1, <3>2, <3>3
  <2>2. ASSUME NEW t \in todo' PROVE bak'[t] # Absent
    BY <1>0 DEF ApplyInv, Held
  <2>3. ASSUME NEW t \in todo', NEW q \in Paths, t \in Below[q], t # q PROVE src'[q] = Dir
    <3>1. CASE t \in todo
      BY <1>0, <1>2, <1>4, <2>3, <3>1 DEF ApplyInv
    <3>2. CASE t \in Held(bak, p) /\ t # p
      <4>1. t \in Paths /\ t \in Below[p]
        BY <3>2, Trees DEF Held
      <4>2. bak[t] # Absent
        BY <3>2 DEF Held
      <4>3. bak[p] = Dir /\ bak[q] = Dir
        BY <2>3, <3>2, <4>1, <4>2 DEF Shaped
      <4>4. CASE q = p
        <5>1. src'[p] \in Nodes /\ src'[p].kind = "dir"
          BY <1>2, <4>3 DEF Dir
        <5> QED
          BY <4>4, <5>1, Kinds
      <4>5. CASE q # p /\ p \in Below[q]
        BY <1>0, <1>2, <4>5 DEF ApplyInv
      <4>6. p \in Below[q]
        BY <2>3, <3>2, Trees DEF Held
      <4> QED
        BY <4>4, <4>5, <4>6
    <3> QED
      BY <1>0, <3>1, <3>2
  <2> QED
    BY <2>1, <2>2, <2>3 DEF ApplyInv
<1>10. CheckInv' /\ Restored'
  BY <1>0 DEF CheckInv, Restored
<1> QED
  BY <1>0, <1>3, <1>5, <1>6, <1>7, <1>8, <1>9, <1>10 DEF Shaped

LEMMA ApplyEndsStep ==
  ASSUME IndInv, ApplyEnds
  PROVE  IndInv'
<1> USE DEF IndInv
<1>0. /\ phase = "apply" /\ phase' = "done" /\ todo = {}
      /\ src' = src /\ bak' = bak /\ orig' = orig /\ todo' = todo /\ fails' = fails
  BY DEF ApplyEnds
<1>1. TypeOK'
  BY <1>0 DEF TypeOK
<1>2. Shaped(src)' /\ Shaped(bak)' /\ Shaped(orig)' /\ NeverTouchesSame' /\ AgeInv'
  BY <1>0 DEF Shaped, NeverTouchesSame, Untouched, Same, AgeInv
<1>3. NothingInTheWay' /\ CheckInv' /\ ApplyInv'
  BY <1>0 DEF NothingInTheWay, CheckInv, ApplyInv
<1>4. Restored'
  BY <1>0 DEF ApplyInv, Restored, Same, KeptOld
<1> QED
  BY <1>1, <1>2, <1>3, <1>4

\* A copy that did not finish leaves its file in the place of another.
LEMMA CutCopy ==
  ASSUME IndInv, NEW p \in todo, phase = "apply", bak[p].kind = "file", ToWrite(p),
         NEW late \in BOOLEAN, src' = Copied(src, p, Cut, late), bak' = bak, orig' = orig
  PROVE  /\ src' \in [Paths -> Nodes]
         /\ Shaped(src)'
         /\ NeverTouchesSame'
         /\ AgeInv'
<1> USE DEF IndInv
<1>0. p \in Paths
  BY DEF TypeOK
<1>1. src' = [src EXCEPT ![p] = [kind |-> "file", data |-> Cut, new |-> late]]
  BY DEF Copied
<1>2. /\ src' \in [Paths -> Nodes]
      /\ src'[p] = [kind |-> "file", data |-> Cut, new |-> late]
      /\ \A q \in Paths \ {p} : src'[q] = src[q]
  <2> DEFINE leaf == [kind |-> "file", data |-> Cut, new |-> late]
  <2>1. leaf \in Nodes
    BY LeafIsNode
  <2>2. src \in [Paths -> Nodes] /\ src' = [src EXCEPT ![p] = leaf]
    BY <1>1 DEF TypeOK
  <2> HIDE DEF leaf
  <2>3. src' \in [Paths -> Nodes] /\ src'[p] = leaf /\ \A q \in Paths \ {p} : src'[q] = src[q]
    BY <1>0, <2>1, <2>2
  <2> QED
    BY <2>3 DEF leaf
<1>3. src[p] # Dir
  BY DEF ToWrite, Dir, Absent
<1>4. Shaped(src)'
  <2> SUFFICES ASSUME NEW r \in Paths, NEW s \in Below[r] \ {r}, src'[s] # Absent
               PROVE  src'[r] = Dir
    BY DEF Shaped
  <2>0. s \in Paths
    BY Trees
  <2>1. CASE s = p
    BY <1>2, <2>1 DEF ApplyInv
  <2>2. CASE s # p
    BY <1>2, <1>3, <2>0, <2>2 DEF Shaped
  <2> QED
    BY <2>1, <2>2
<1>5. ~Untouched(p)
  BY <1>0 DEF Untouched, NeverTouchesSame, ToWrite
<1>6. NeverTouchesSame'
  BY <1>2, <1>5 DEF NeverTouchesSame, Untouched, Same
<1>7. AgeInv'
  <2>1. src'[p].kind = "file" /\ src'[p].data = Cut
    BY <1>2
  <2> QED
    BY <1>0, <1>2, <2>1 DEF AgeInv, Same
<1> QED
  BY <1>2, <1>4, <1>6, <1>7

\* A link that could not be made is missing.
LEMMA LostLink ==
  ASSUME IndInv, NEW p \in todo, phase = "apply", bak[p].kind = "link", ToWrite(p),
         src' = Without(src, p), bak' = bak, orig' = orig
  PROVE  /\ src' \in [Paths -> Nodes]
         /\ Shaped(src)'
         /\ NeverTouchesSame'
         /\ AgeInv'
<1> USE DEF IndInv
<1>0. p \in Paths
  BY DEF TypeOK
<1>1. src' \in [Paths -> Nodes] /\ Shaped(src)'
  BY <1>0, RemovalKeepsShape DEF TypeOK, Shaped
<1>2. src[p] # Dir
  BY DEF ToWrite, Dir, Absent
<1>3. NeverTouchesSame'
  <2> SUFFICES ASSUME NEW q \in Paths, Untouched(q) PROVE src'[q] = orig[q]
    BY DEF NeverTouchesSame, Untouched, Same
  <2>1. src[q] = orig[q] /\ src[q] # Absent
    BY DEF NeverTouchesSame, Untouched
  <2>2. CASE q = p
    BY <2>1, <2>2 DEF ToWrite, Untouched
  <2>3. CASE q # p
    <3>1. q \notin Below[p]
      BY <1>0, <1>2, <2>1, <2>3 DEF Shaped
    <3> QED
      BY <2>1, <3>1 DEF Without
  <2> QED
    BY <2>2, <2>3
<1>4. AgeInv'
  BY DEF AgeInv, Without, Same
<1> QED
  BY <1>1, <1>3, <1>4

LEMMA FailStep ==
  ASSUME IndInv, NEW p \in Paths, Fail(p)
  PROVE  IndInv'
<1> USE DEF IndInv
<1>0. /\ p \in todo /\ phase' = "failed" /\ todo' = {} /\ bak' = bak /\ orig' = orig
      /\ fails < MaxFails /\ fails' = fails + 1
  BY DEF Fail
<1>1. src' \in [Paths -> Nodes] /\ Shaped(src)' /\ NeverTouchesSame' /\ AgeInv'
  <2>1. CASE src' = src
    BY <1>0, <2>1 DEF TypeOK, Shaped, NeverTouchesSame, Untouched, Same, AgeInv
  <2>2. CASE Foreign(p) /\ \E c \in Held(src, p) : src' = Without(src, c)
    <3>1. PICK c \in Held(src, p) : src' = Without(src, c)
      BY <2>2
    <3>2. c \in Below[p]
      BY Trees DEF Held
    <3> QED
      BY <1>0, <2>2, <3>1, <3>2, RemovalStep
  <2>3. CASE phase = "apply" /\ bak[p].kind = "file" /\ ToWrite(p) /\ \E late \in BOOLEAN : src' = Copied(src, p, Cut, late)
    BY <1>0, <2>3, CutCopy
  <2>4. CASE phase = "apply" /\ bak[p].kind = "link" /\ ToWrite(p) /\ src' = Without(src, p)
    BY <1>0, <2>4, LostLink
  <2> QED
    BY <2>1, <2>2, <2>3, <2>4 DEF Fail
<1>2. TypeOK'
  BY <1>0, <1>1, RestoreAssumption DEF TypeOK
<1>3. NothingInTheWay' /\ CheckInv' /\ ApplyInv' /\ Restored'
  BY <1>0 DEF NothingInTheWay, CheckInv, ApplyInv, Restored
<1> QED
  BY <1>0, <1>1, <1>2, <1>3 DEF Shaped

LEMMA AgainStep ==
  ASSUME IndInv, Again
  PROVE  IndInv'
<1> USE DEF IndInv
<1>0. /\ phase' = "check" /\ todo' = {Root}
      /\ src' = src /\ bak' = bak /\ orig' = orig /\ fails' = fails
  BY DEF Again
<1>1. TypeOK'
  BY <1>0, Trees DEF TypeOK
<1>2. Shaped(src)' /\ Shaped(bak)' /\ Shaped(orig)' /\ NeverTouchesSame' /\ AgeInv'
  BY <1>0 DEF Shaped, NeverTouchesSame, Untouched, Same, AgeInv
<1>3. NothingInTheWay' /\ ApplyInv' /\ Restored'
  BY <1>0 DEF NothingInTheWay, ApplyInv, Restored
<1>4. CheckInv'
  BY <1>0, Trees DEF CheckInv
<1> QED
  BY <1>1, <1>2, <1>3, <1>4

LEMMA StutterStep == IndInv /\ UNCHANGED vars => IndInv'
BY DEF vars, IndInv, TypeOK, Shaped, NeverTouchesSame, Untouched, Same, AgeInv, NothingInTheWay,
       CheckInv, Foreign, ApplyInv, KeptOld, Restored

\* IndInv holds in every reachable state.
THEOREM Invariance == Spec => []IndInv
<1>1. IndInv /\ [Next]_vars => IndInv'
  <2> SUFFICES ASSUME IndInv, [Next]_vars PROVE IndInv'
    OBVIOUS
  <2>1. ASSUME NEW p \in Paths, CheckEntry(p) PROVE IndInv'
    BY <2>1, CheckEntryStep
  <2>2. ASSUME NEW p \in Paths, ApplyEntry(p) PROVE IndInv'
    BY <2>2, ApplyEntryStep
  <2>3. CASE CheckEnds
    BY <2>3, CheckEndsStep
  <2>4. CASE ApplyEnds
    BY <2>4, ApplyEndsStep
  <2>5. ASSUME NEW p \in Paths, Fail(p) PROVE IndInv'
    BY <2>5, FailStep
  <2>6. CASE Again
    BY <2>6, AgainStep
  <2>7. CASE UNCHANGED vars
    BY <2>7, StutterStep
  <2> QED
    BY <2>1, <2>2, <2>3, <2>4, <2>5, <2>6, <2>7 DEF Next, Walk
<1> QED
  BY <1>1, InitInv, PTL DEF Spec

\* Every variable keeps its type.
THEOREM TypeCorrectness == Spec => []TypeOK
<1>1. IndInv => TypeOK
  BY DEF IndInv
<1> QED
  BY <1>1, Invariance, PTL

\* A restore that reports success has made the source the backup, but for
\* entries not newer than the backup, for every tree.
THEOREM RestoreIsExact == Spec => []Restored
<1>1. IndInv => Restored
  BY DEF IndInv
<1> QED
  BY <1>1, Invariance, PTL

\* No attempt, failed or not, ever touches an entry that equals its backup and
\* is not newer.
THEOREM SameEntriesAreSafe == Spec => []NeverTouchesSame
<1>1. IndInv => NeverTouchesSame
  BY DEF IndInv
<1> QED
  BY <1>1, Invariance, PTL

\* What apply_backup finds in its way has the kind it writes.
THEOREM ChecksBeforeWriting == Spec => []NothingInTheWay
<1>1. IndInv => NothingInTheWay
  BY DEF IndInv
<1> QED
  BY <1>1, Invariance, PTL
=============================================================================
