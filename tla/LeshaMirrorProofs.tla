------------------------- MODULE LeshaMirrorProofs -------------------------
(***************************************************************************)
(* Proofs about LeshaMirror: its trees and types, what a restore changes   *)
(* beside a worker at rest, what a restore that is alone leaves, and that  *)
(* the target of a worker at rest is its source.                           *)
(***************************************************************************)
EXTENDS LeshaMirror, SequenceTheorems, FiniteSetTheorems, TLAPS

\* A path is a sequence of its own names.
LEMMA PathType ==
  ASSUME NEW p \in Paths
  PROVE  p \in Seq(ToSet(p)) /\ Len(p) \in Nat /\ DOMAIN p = 1 .. Len(p)
         /\ \A i \in 1 .. Len(p) : p[i] \in ToSet(p)
BY MirrorAssumption, LenProperties DEF ToSet

\* One path is a prefix of another where they agree.
LEMMA PrefixMeans ==
  ASSUME NEW p \in Paths, NEW q \in Paths
  PROVE  IsPrefix(p, q) <=> Len(p) <= Len(q) /\ \A i \in 1 .. Len(p) : p[i] = q[i]
<1>1. /\ Len(p) \in Nat /\ Len(q) \in Nat
      /\ \A i \in 1 .. Len(p) : p[i] \in ToSet(p)
      /\ \A i \in 1 .. Len(q) : q[i] \in ToSet(q)
  BY PathType
<1>2. ASSUME Len(p) <= Len(q)
      PROVE  SubSeq(p, 1, Len(p)) = SubSeq(q, 1, Len(p)) <=> \A i \in 1 .. Len(p) : p[i] = q[i]
  <2> DEFINE n == Len(p)
             a == SubSeq(p, 1, n)
             b == SubSeq(q, 1, n)
             S == ToSet(p) \cup ToSet(q)
  <2>1. /\ a \in Seq(S) /\ Len(a) = IF 1 <= n THEN n - 1 + 1 ELSE 0
        /\ \A i \in 1 .. n - 1 + 1 : a[i] = p[1 + i - 1]
    BY <1>1, SubSeqProperties
  <2>2. /\ b \in Seq(S) /\ Len(b) = IF 1 <= n THEN n - 1 + 1 ELSE 0
        /\ \A i \in 1 .. n - 1 + 1 : b[i] = q[1 + i - 1]
    <3>1. \A i \in 1 .. n : q[i] \in S BY <1>1, <1>2
    <3> QED BY <1>1, <3>1, SubSeqProperties
  <2>3. /\ Len(a) = n /\ Len(b) = n /\ \A i \in 1 .. n : a[i] = p[i] /\ b[i] = q[i]
    <3>1. n \in Nat BY <1>1
    <3> HIDE DEF n, a, b
    <3>2. Len(a) = n /\ Len(b) = n BY <2>1, <2>2, <3>1
    <3>3. ASSUME NEW i \in 1 .. n PROVE a[i] = p[i] /\ b[i] = q[i]
      <4>1. i \in 1 .. n - 1 + 1 /\ 1 + i - 1 = i BY <3>1
      <4> QED BY <2>1, <2>2, <4>1
    <3> QED BY <3>2, <3>3
  <2>4. (\A i \in 1 .. n : a[i] = b[i]) => a = b
    <3> HIDE DEF a, b, n, S
    <3> QED BY <2>1, <2>2, <2>3, SeqEqual
  <2> HIDE DEF a, b
  <2> QED BY <2>3, <2>4 DEF a, b
<1> QED BY <1>2 DEF IsPrefix

\* Prefixes order the paths, and two of the same path are one a prefix of the other.
LEMMA PrefixOrder ==
  /\ \A p \in Paths : IsPrefix(p, p)
  /\ \A p, q \in Paths : IsPrefix(p, q) /\ IsPrefix(q, p) => p = q
  /\ \A p, q, r \in Paths : IsPrefix(p, q) /\ IsPrefix(q, r) => IsPrefix(p, r)
  /\ \A p, q, r \in Paths : IsPrefix(p, r) /\ IsPrefix(q, r) => IsPrefix(p, q) \/ IsPrefix(q, p)
<1>1. \A p \in Paths : Len(p) \in Nat BY PathType
<1>2. \A p \in Paths : IsPrefix(p, p) BY <1>1, PrefixMeans
<1>3. ASSUME NEW p \in Paths, NEW q \in Paths, IsPrefix(p, q), IsPrefix(q, p) PROVE p = q
  <2>1. Len(p) = Len(q) /\ \A i \in 1 .. Len(p) : p[i] = q[i] BY <1>1, <1>3, PrefixMeans
  <2>2. p = [i \in 1 .. Len(p) |-> p[i]] /\ q = [i \in 1 .. Len(q) |-> q[i]]
    BY PathType, LenProperties
  <2> QED BY <2>1, <2>2
<1>4. ASSUME NEW p \in Paths, NEW q \in Paths, NEW r \in Paths, IsPrefix(p, q), IsPrefix(q, r)
      PROVE  IsPrefix(p, r)
  BY <1>1, <1>4, PrefixMeans
<1>5. ASSUME NEW p \in Paths, NEW q \in Paths, NEW r \in Paths, IsPrefix(p, r), IsPrefix(q, r)
      PROVE  IsPrefix(p, q) \/ IsPrefix(q, p)
  <2>1. Len(p) <= Len(q) \/ Len(q) <= Len(p) BY <1>1
  <2> QED BY <1>1, <1>5, <2>1, PrefixMeans
<1> QED BY <1>2, <1>3, <1>4, <1>5

\* The first names of a path are a path, and a prefix of it.
LEMMA Cut ==
  ASSUME NEW p \in Paths, NEW n \in 0 .. Len(p)
  PROVE  /\ SubSeq(p, 1, n) \in Paths /\ Len(SubSeq(p, 1, n)) = n
         /\ \A i \in 1 .. n : SubSeq(p, 1, n)[i] = p[i]
         /\ IsPrefix(SubSeq(p, 1, n), p)
<1>1. Len(p) \in Nat /\ p \in Seq(ToSet(p)) /\ \A i \in 1 .. Len(p) : p[i] \in ToSet(p) BY PathType
<1>2. SubSeq(p, 1, n) \in Paths
  <2>1. CASE n = Len(p) BY <1>1, <2>1, SubSeqFull
  <2>2. CASE n # Len(p)
    <3>1. n \in 0 .. Len(p) - 1 BY <1>1, <2>2
    <3> QED BY <3>1, MirrorAssumption
  <2> QED BY <2>1, <2>2
<1>3. /\ Len(SubSeq(p, 1, n)) = IF 1 <= n THEN n - 1 + 1 ELSE 0
      /\ \A i \in 1 .. n - 1 + 1 : SubSeq(p, 1, n)[i] = p[1 + i - 1]
  <2>1. \A i \in 1 .. n : p[i] \in ToSet(p) BY <1>1
  <2> QED BY <1>1, <2>1, SubSeqProperties
<1>4. Len(SubSeq(p, 1, n)) = n BY <1>1, <1>3
<1>5. ASSUME NEW i \in 1 .. n PROVE SubSeq(p, 1, n)[i] = p[i]
  <2>1. i \in 1 .. n - 1 + 1 /\ 1 + i - 1 = i BY <1>1
  <2> QED BY <1>3, <2>1
<1>6. Len(SubSeq(p, 1, n)) <= Len(p) BY <1>1, <1>4
<1> QED BY <1>2, <1>4, <1>5, <1>6, PrefixMeans

\* The root is a prefix of every path.
LEMMA RootPrefix == Root \in Paths /\ \A p \in Paths : IsPrefix(Root, p)
<1>1. Root \in Paths /\ Len(Root) = 0 BY MirrorAssumption DEF Root
<1> QED BY <1>1, PathType, PrefixMeans

\* The parent of a path is the longest of its strict prefixes.
LEMMA ParentPrefix ==
  ASSUME NEW p \in Paths, p # Root
  PROVE  /\ Parent(p) \in Paths /\ Parent(p) \in Dirs
         /\ IsStrictPrefix(Parent(p), p)
         /\ \A q \in Paths : IsStrictPrefix(q, p) => IsPrefix(q, Parent(p))
<1>1. Len(p) \in Nat /\ Len(p) # 0
  <2>1. p \in Seq(ToSet(p)) BY PathType
  <2> QED BY <2>1, EmptySeq DEF Root
<1>2. Parent(p) = SubSeq(p, 1, Len(p) - 1) BY DEF Parent, Front
<1>3. Len(p) - 1 \in 0 .. Len(p) - 1 /\ Len(p) - 1 \in 0 .. Len(p) BY <1>1
<1>4. Parent(p) \in Paths /\ Len(Parent(p)) = Len(p) - 1 /\ IsPrefix(Parent(p), p)
      /\ \A i \in 1 .. Len(p) - 1 : Parent(p)[i] = p[i]
  BY <1>2, <1>3, Cut
<1>5. Parent(p) # p BY <1>1, <1>4
<1>6. Parent(p) \in Dirs BY <1>2, <1>3, MirrorAssumption
<1>7. ASSUME NEW q \in Paths, IsStrictPrefix(q, p) PROVE IsPrefix(q, Parent(p))
  <2>1. IsPrefix(q, p) /\ q # p BY <1>7 DEF IsStrictPrefix
  <2>2. Len(q) \in Nat /\ Len(q) <= Len(p) /\ \A i \in 1 .. Len(q) : p[i] = q[i]
    BY <2>1, PathType, PrefixMeans
  <2>3. Len(q) # Len(p)
    <3> SUFFICES ASSUME Len(q) = Len(p) PROVE FALSE OBVIOUS
    <3>1. IsPrefix(p, q) BY <2>2, PrefixMeans, <1>1
    <3> QED BY <2>1, <3>1, PrefixOrder
  <2>4. Len(q) <= Len(Parent(p)) BY <1>1, <1>4, <2>2, <2>3
  <2>5. \A i \in 1 .. Len(q) : q[i] = Parent(p)[i] BY <1>1, <1>4, <2>2, <2>4
  <2> QED BY <1>4, <2>4, <2>5, PrefixMeans
<1> QED BY <1>4, <1>5, <1>6, <1>7 DEF IsStrictPrefix

\* Below a path lie its children and what is below them.
LEMMA ChildOnTheWay ==
  ASSUME NEW p \in Paths, NEW q \in Paths, IsStrictPrefix(p, q)
  PROVE  \E c \in Paths \ {Root} : Parent(c) = p /\ IsPrefix(c, q)
<1>1. IsPrefix(p, q) /\ p # q BY DEF IsStrictPrefix
<1>2. Len(p) \in Nat /\ Len(q) \in Nat /\ Len(p) <= Len(q) /\ \A i \in 1 .. Len(p) : p[i] = q[i]
  BY <1>1, PathType, PrefixMeans
<1>3. Len(p) # Len(q)
  <2> SUFFICES ASSUME Len(q) = Len(p) PROVE FALSE OBVIOUS
  <2>1. IsPrefix(q, p) BY <1>2, PrefixMeans
  <2> QED BY <1>1, <2>1, PrefixOrder
<1> DEFINE c == SubSeq(q, 1, Len(p) + 1)
<1>4. Len(p) + 1 \in 0 .. Len(q) /\ Len(p) \in 0 .. Len(p) + 1 /\ Len(p) + 1 - 1 = Len(p)
  BY <1>2, <1>3
<1>5. c \in Paths /\ Len(c) = Len(p) + 1 /\ IsPrefix(c, q) /\ \A i \in 1 .. Len(p) + 1 : c[i] = q[i]
  BY <1>4, Cut
<1> HIDE DEF c
<1>6. c # Root BY <1>2, <1>5 DEF Root
<1>7. Parent(c) = SubSeq(c, 1, Len(p)) BY <1>4, <1>5 DEF Parent, Front
<1>8. Parent(c) \in Paths /\ Len(Parent(c)) = Len(p) /\ \A i \in 1 .. Len(p) : Parent(c)[i] = c[i]
  BY <1>4, <1>5, <1>7, Cut
<1>9. \A i \in 1 .. Len(p) : Parent(c)[i] = p[i] BY <1>2, <1>5, <1>8
<1>10. IsPrefix(p, Parent(c)) /\ IsPrefix(Parent(c), p) BY <1>2, <1>8, <1>9, PrefixMeans
<1> QED BY <1>5, <1>6, <1>8, <1>10, PrefixOrder

\* A listing holds one call for each path of a finite set, in any order.
LEMMA ListingMeans ==
  ASSUME NEW do, NEW S, IsFiniteSet(S), NEW tasks \in Listings(do, S)
  PROVE  /\ tasks \in Seq([do : {do}, path : S])
         /\ \A i \in DOMAIN tasks : tasks[i].do = do /\ tasks[i].path \in S
         /\ \A p \in S : \E i \in DOMAIN tasks : tasks[i] = Task(do, p)
<1> DEFINE n == Cardinality(S)
<1>1. n \in Nat /\ IsFiniteSet(1 .. n) /\ Cardinality(1 .. n) = n
  <2>1. n \in Nat BY FS_CardinalityType
  <2>2. IsFiniteSet(1 .. n) /\ Cardinality(1 .. n) = IF 1 > n THEN 0 ELSE n - 1 + 1
    BY <2>1, FS_Interval
  <2> QED BY <2>1, <2>2
<1>2. PICK s \in SetToSeqs(S) : tasks = [i \in DOMAIN s |-> Task(do, s[i])] BY DEF Listings
<1>3. s \in [1 .. n -> S] /\ \A i, j \in 1 .. n : i # j => s[i] # s[j] BY <1>2 DEF SetToSeqs
<1>4. s \in Injection(1 .. n, S) BY <1>3 DEF Injection, IsInjective
<1>5. s \in Surjection(1 .. n, S) BY <1>1, <1>4, FS_Injection
<1>6. \A p \in S : \E i \in 1 .. n : s[i] = p BY <1>5 DEF Surjection
<1> HIDE DEF n
<1>7. tasks = [i \in 1 .. n |-> Task(do, s[i])] BY <1>2, <1>3
<1>8. \A i \in 1 .. n : Task(do, s[i]) \in [do : {do}, path : S] BY <1>3 DEF Task
<1>9. tasks \in Seq([do : {do}, path : S]) BY <1>1, <1>7, <1>8
<1>10. DOMAIN tasks = 1 .. n BY <1>7
<1>11. ASSUME NEW i \in 1 .. n PROVE tasks[i].do = do /\ tasks[i].path \in S
  BY <1>3, <1>7 DEF Task
<1>12. ASSUME NEW p \in S PROVE \E i \in DOMAIN tasks : tasks[i] = Task(do, p)
  <2>1. PICK i \in 1 .. n : s[i] = p BY <1>6
  <2>2. tasks[i] = Task(do, p) BY <1>7, <2>1
  <2> QED BY <1>10, <2>2
<1> QED BY <1>9, <1>10, <1>11, <1>12

\* A finite set can be listed.
LEMMA SetToSeqType ==
  ASSUME NEW S, IsFiniteSet(S)
  PROVE  /\ SetToSeq(S) \in Seq(S) /\ Len(SetToSeq(S)) = Cardinality(S)
         /\ \A i, j \in DOMAIN SetToSeq(S) : SetToSeq(S)[i] = SetToSeq(S)[j] => i = j
         /\ \A x \in S : \E i \in DOMAIN SetToSeq(S) : SetToSeq(S)[i] = x
<1> DEFINE n == Cardinality(S)
           s == SetToSeq(S)
<1>1. n \in Nat /\ IsFiniteSet(1 .. n) /\ Cardinality(1 .. n) = n
  <2>1. n \in Nat BY FS_CardinalityType
  <2>2. IsFiniteSet(1 .. n) /\ Cardinality(1 .. n) = IF 1 > n THEN 0 ELSE n - 1 + 1
    BY <2>1, FS_Interval
  <2> QED BY <2>1, <2>2
<1>2. \E f \in [1 .. n -> S] : IsInjective(f)
  <2>1. ExistsBijection(1 .. n, S) BY FS_CardinalityType
  <2> QED BY <2>1 DEF ExistsBijection, Bijection, Injection
<1>3. s \in [1 .. n -> S] /\ IsInjective(s) BY <1>2 DEF SetToSeq
<1>4. s \in Injection(1 .. n, S) BY <1>3 DEF Injection
<1>5. s \in Surjection(1 .. n, S) BY <1>1, <1>4, FS_Injection
<1>6. \A x \in S : \E i \in 1 .. n : s[i] = x BY <1>5 DEF Surjection
<1> HIDE DEF n, s
<1>7. s \in Seq(S) /\ Len(s) = n /\ DOMAIN s = 1 .. n BY <1>1, <1>3
<1>8. \A i, j \in 1 .. n : s[i] = s[j] => i = j BY <1>3, <1>7 DEF IsInjective
<1> QED BY <1>6, <1>7, <1>8 DEF n, s

\* How many inodes there are.
LEMMA Numbers ==
  /\ IsFiniteSet(Files) /\ IsFiniteSet(Dirs) /\ IsFiniteSet(Paths)
  /\ Cardinality(Files) \in Nat /\ Dir \in Nat /\ Dir # Absent
  /\ Absent = 0 /\ Dir = 2 * Cardinality(Files) + 5
  /\ IsFiniteSet(Inodes) /\ Cardinality(Inodes) = 2 * Cardinality(Files) + 4
  /\ Inodes = 1 .. 2 * Cardinality(Files) + 4
  /\ Absent \notin Inodes /\ Dir \notin Inodes
<1>1. Files \in SUBSET Paths /\ Dirs \in SUBSET Paths /\ IsFiniteSet(Paths) BY MirrorAssumption
<1>2. IsFiniteSet(Files) /\ IsFiniteSet(Dirs) BY <1>1, FS_Subset
<1>3. Cardinality(Files) \in Nat BY <1>2, FS_CardinalityType
<1> DEFINE m == 2 * Cardinality(Files) + 4
<1>4. m \in Int /\ m >= 1 BY <1>3
<1>5. IsFiniteSet(1 .. m) /\ Cardinality(1 .. m) = m
  <2> HIDE DEF m
  <2>1. IsFiniteSet(1 .. m) /\ Cardinality(1 .. m) = IF 1 > m THEN 0 ELSE m - 1 + 1
    BY <1>4, FS_Interval
  <2> QED BY <1>4, <2>1
<1> QED BY <1>1, <1>2, <1>3, <1>5 DEF Inodes, Dir, Absent

\* An open file is not none.
LEMMA AnOpenFile == \A f \in OpenFiles : f # NoFile
<1> SUFFICES ASSUME NEW f \in OpenFiles PROVE f # NoFile OBVIOUS
<1>1. DOMAIN f = {"path", "from", "to", "buffer", "read"} BY DEF OpenFiles
<1>2. DOMAIN NoFile = {} BY DEF NoFile
<1> QED BY <1>1, <1>2

\* The inodes that a tree holds are no more than the names of files that hold one.
LEMMA Held ==
  ASSUME TypeOK, InodesApart, NEW t \in {"src", "dst"}, NEW F \in SUBSET Files,
         \A p \in Files : IsFile(fs[t][p]) => p \in F
  PROVE  LET held == {i \in Inodes : \E p \in Paths : fs[t][p] = i}
         IN  IsFiniteSet(held) /\ Cardinality(held) \in Nat /\ Cardinality(held) <= Cardinality(F)
<1> DEFINE held == {i \in Inodes : \E p \in Paths : fs[t][p] = i}
           names == {p \in F : IsFile(fs[t][p])}
           node == [p \in names |-> fs[t][p]]
<1>1. IsFiniteSet(F) /\ IsFiniteSet(names) /\ Cardinality(names) <= Cardinality(F)
      /\ Cardinality(F) \in Nat /\ Cardinality(names) \in Nat
  <2>1. IsFiniteSet(F) BY Numbers, FS_Subset
  <2>2. IsFiniteSet(names) /\ Cardinality(names) <= Cardinality(F) BY <2>1, FS_Subset
  <2> QED BY <2>1, <2>2, FS_CardinalityType
<1>2. node \in [names -> held]
  <2> SUFFICES ASSUME NEW p \in names PROVE fs[t][p] \in held OBVIOUS
  <2> QED BY MirrorAssumption DEF IsFile
<1>3. ASSUME NEW i \in held PROVE \E p \in names : node[p] = i
  <2>1. PICK p \in Paths : fs[t][p] = i OBVIOUS
  <2>2. IsFile(fs[t][p]) BY <2>1 DEF IsFile
  <2>3. p \in Files BY <2>2 DEF InodesApart
  <2> QED BY <2>1, <2>2, <2>3
<1> HIDE DEF held, names, node
<1>4. node \in Surjection(names, held) BY <1>2, <1>3 DEF Surjection
<1>5. IsFiniteSet(held) /\ Cardinality(held) <= Cardinality(names) BY <1>1, <1>4, FS_Surjection
<1>6. Cardinality(held) \in Nat BY <1>5, FS_CardinalityType
<1> QED BY <1>1, <1>5, <1>6 DEF held

\* Four files are open at most.
LEMMA OpenedIsSmall ==
  IsFiniteSet(Opened) /\ Cardinality(Opened) \in Nat /\ Cardinality(Opened) <= 4
<1> DEFINE a == file["worker"].from
           b == file["worker"].to
           c == file["restore"].from
           d == file["restore"].to
<1>1. Opened \in SUBSET {a, b, c, d}
  <2> SUFFICES ASSUME NEW i \in Opened PROVE i \in {a, b, c, d} OBVIOUS
  <2>1. PICK x \in Copiers : i \in {file[x].from, file[x].to} BY DEF Opened
  <2> QED BY <2>1 DEF Copiers
<1> HIDE DEF a, b, c, d
<1>2. IsFiniteSet({a}) /\ Cardinality({a}) = 1 BY FS_Singleton
<1>3. {a} \cup {b} = {a, b} /\ {a, b} \cup {c} = {a, b, c} /\ {a, b, c} \cup {d} = {a, b, c, d}
  OBVIOUS
<1>4. IsFiniteSet({a, b}) /\ Cardinality({a, b}) \in 1 .. 2
  <2>1. IsFiniteSet({a} \cup {b})
        /\ Cardinality({a} \cup {b}) = IF b \in {a} THEN Cardinality({a}) ELSE Cardinality({a}) + 1
    BY <1>2, FS_AddElement
  <2> QED BY <1>2, <1>3, <2>1
<1>5. IsFiniteSet({a, b, c}) /\ Cardinality({a, b, c}) \in 1 .. 3
  <2>1. IsFiniteSet({a, b} \cup {c})
        /\ Cardinality({a, b} \cup {c})
             = IF c \in {a, b} THEN Cardinality({a, b}) ELSE Cardinality({a, b}) + 1
    BY <1>4, FS_AddElement
  <2> QED BY <1>3, <1>4, <2>1
<1>6. IsFiniteSet({a, b, c, d}) /\ Cardinality({a, b, c, d}) \in 1 .. 4
  <2>1. IsFiniteSet({a, b, c} \cup {d})
        /\ Cardinality({a, b, c} \cup {d})
             = IF d \in {a, b, c} THEN Cardinality({a, b, c}) ELSE Cardinality({a, b, c}) + 1
    BY <1>5, FS_AddElement
  <2> QED BY <1>3, <1>5, <2>1
<1>7. IsFiniteSet(Opened) /\ Cardinality(Opened) <= Cardinality({a, b, c, d}) BY <1>1, <1>6, FS_Subset
<1> QED BY <1>6, <1>7, FS_CardinalityType

\* There is a fresh inode for a name of a file that holds none.
LEMMA FreshIsNew ==
  ASSUME TypeOK, InodesApart, NEW t \in {"src", "dst"}, NEW p \in Files, ~IsFile(fs[t][p])
  PROVE  /\ Fresh \in Inodes /\ Fresh \notin Opened
         /\ \A u \in {"src", "dst"}, q \in Paths : fs[u][q] # Fresh
<1> DEFINE held(u) == {i \in Inodes : \E q \in Paths : fs[u][q] = i}
           S == held("src")
           D == held("dst")
           used == Opened \cup (S \cup D)
           n == Cardinality(Files)
<1>1. n \in Nat /\ IsFiniteSet(Files) BY Numbers
<1>2. ASSUME NEW u \in {"src", "dst"}
      PROVE  IsFiniteSet(held(u)) /\ Cardinality(held(u)) \in Nat /\ Cardinality(held(u)) <= n
  BY Held
<1>3. Cardinality(held(t)) <= n - 1
  <2>1. \A q \in Files : IsFile(fs[t][q]) => q \in Files \ {p} OBVIOUS
  <2>2. Cardinality(held(t)) <= Cardinality(Files \ {p}) BY <2>1, Held
  <2>3. Cardinality(Files \ {p}) = n - 1 BY <1>1, FS_RemoveElement
  <2> QED BY <2>2, <2>3
<1>4. /\ IsFiniteSet(S) /\ Cardinality(S) \in Nat /\ Cardinality(S) <= n
      /\ IsFiniteSet(D) /\ Cardinality(D) \in Nat /\ Cardinality(D) <= n
      /\ Cardinality(S) + Cardinality(D) <= 2 * n - 1
  <2>1. /\ IsFiniteSet(S) /\ Cardinality(S) \in Nat /\ Cardinality(S) <= n
        /\ IsFiniteSet(D) /\ Cardinality(D) \in Nat /\ Cardinality(D) <= n
    BY <1>2
  <2>2. Cardinality(S) <= n - 1 \/ Cardinality(D) <= n - 1 BY <1>3
  <2> HIDE DEF S, D, n
  <2> QED BY <1>1, <2>1, <2>2
<1>5. \E i \in Inodes : i \notin used
  <2> SUFFICES ASSUME \A i \in Inodes : i \in used PROVE FALSE OBVIOUS
  <2> HIDE DEF S, D, n
  <2>1. IsFiniteSet(S \cup D) /\ Cardinality(S \cup D) \in Nat /\ Cardinality(S \cup D) <= 2 * n - 1
    <3>1. IsFiniteSet(S \cup D)
          /\ Cardinality(S \cup D) = Cardinality(S) + Cardinality(D) - Cardinality(S \cap D)
      BY <1>4, FS_Union
    <3>2. IsFiniteSet(S \cap D) BY <1>4, FS_Subset
    <3>3. Cardinality(S \cap D) \in Nat /\ Cardinality(S \cup D) \in Nat
      BY <3>1, <3>2, FS_CardinalityType
    <3> QED BY <1>1, <1>4, <3>1, <3>3
  <2>2. IsFiniteSet(used) /\ Cardinality(used) \in Nat /\ Cardinality(used) <= 2 * n + 3
    <3>0. IsFiniteSet(Opened) /\ Cardinality(Opened) \in Nat /\ Cardinality(Opened) <= 4
      BY OpenedIsSmall
    <3>1. IsFiniteSet(used)
          /\ Cardinality(used) = Cardinality(Opened) + Cardinality(S \cup D)
                                   - Cardinality(Opened \cap (S \cup D))
      BY <2>1, <3>0, FS_Union
    <3>2. IsFiniteSet(Opened \cap (S \cup D)) BY <2>1, FS_Subset
    <3>3. Cardinality(Opened \cap (S \cup D)) \in Nat /\ Cardinality(used) \in Nat
      BY <3>1, <3>2, FS_CardinalityType
    <3> HIDE DEF used
    <3> QED BY <1>1, <2>1, <3>0, <3>1, <3>3
  <2>3. Inodes \in SUBSET used OBVIOUS
  <2>4. Cardinality(Inodes) <= Cardinality(used) BY <2>2, <2>3, FS_Subset
  <2>5. Cardinality(Inodes) = 2 * n + 4 BY Numbers DEF n
  <2> HIDE DEF used
  <2> QED BY <1>1, <2>2, <2>4, <2>5
<1>6. PICK i \in Inodes : i \notin used BY <1>5
<1>7. i \notin Opened /\ \A u \in {"src", "dst"}, q \in Paths : fs[u][q] # i BY <1>6
<1> HIDE DEF used
<1> QED BY <1>7 DEF Fresh

\* What a name may hold.
Nodes == {Absent, Dir} \cup Inodes

\* What is in a tree, and what a tree is.
LEMMA TreeMeans ==
  ASSUME NEW t
  PROVE  t \in Trees <=> /\ t \in [Paths -> Nodes]
                         /\ \A p, q \in Paths : t[p] # Absent /\ IsStrictPrefix(q, p) => t[q] = Dir
BY DEF Trees, Nodes

\* A directory is no file, and nothing is none.
LEMMA NodeKinds == /\ Absent \in Nodes /\ Dir \in Nodes /\ Inodes \subseteq Nodes
                   /\ Absent # Dir /\ ~IsFile(Absent) /\ ~IsFile(Dir)
                   /\ \A x \in Nodes : x = Absent \/ x = Dir \/ IsFile(x)
BY Numbers DEF Nodes, IsFile

\* Every path but the root has a parent; the parent of the root is the root.
LEMMA ParentType == \A p \in Paths : Parent(p) \in Paths
<1>1. Parent(Root) = Root
  <2>1. Parent(Root) = SubSeq(<<>>, 1, Len(<<>>) - 1) BY DEF Parent, Front, Root
  <2>2. Len(<<>>) = 0 BY EmptySeq
  <2>3. SubSeq(<<>>, 1, 0 - 1) = <<>> BY SubSeqEmpty
  <2> QED BY <2>1, <2>2, <2>3 DEF Root
<1> QED BY <1>1, ParentPrefix, RootPrefix

\* Below what is no directory, or one without children, there is nothing.
LEMMA NothingBelow ==
  ASSUME NEW t \in Trees, NEW p \in Paths, t[p] # Dir \/ Children(t, p) = {},
         NEW q \in Paths, IsStrictPrefix(p, q)
  PROVE  t[q] = Absent
<1>1. CASE t[p] # Dir BY <1>1, TreeMeans
<1>2. CASE Children(t, p) = {}
  <2>1. PICK c \in Paths \ {Root} : Parent(c) = p /\ IsPrefix(c, q) BY ChildOnTheWay
  <2>2. t[c] = Absent BY <1>2, <2>1 DEF Children
  <2>3. CASE c = q BY <2>2, <2>3
  <2>4. CASE c # q
    <3>1. IsStrictPrefix(c, q) BY <2>1, <2>4 DEF IsStrictPrefix
    <3> QED BY <2>2, <3>1, TreeMeans, NodeKinds
  <2> QED BY <2>3, <2>4
<1> QED BY <1>1, <1>2

\* A directory has directories above it.
LEMMA DirsAbove ==
  ASSUME NEW t \in Trees, NEW p \in Paths, t[p] # Absent \/ t[Parent(p)] = Dir,
         NEW q \in Paths, IsStrictPrefix(q, p)
  PROVE  t[q] = Dir
<1>1. CASE t[p] # Absent BY <1>1, TreeMeans
<1>2. CASE t[Parent(p)] = Dir
  <2>1. p # Root
    <3> SUFFICES ASSUME p = Root PROVE FALSE OBVIOUS
    <3> QED BY RootPrefix, PrefixOrder DEF IsStrictPrefix
  <2>2. Parent(p) \in Paths /\ IsPrefix(q, Parent(p)) BY <2>1, ParentPrefix
  <2>3. CASE q = Parent(p) BY <1>2, <2>3
  <2>4. CASE q # Parent(p)
    <3>1. IsStrictPrefix(q, Parent(p)) BY <2>2, <2>4 DEF IsStrictPrefix
    <3> QED BY <1>2, <2>2, <3>1, TreeMeans, NodeKinds
  <2> QED BY <2>3, <2>4
<1> QED BY <1>1, <1>2

\* Putting a node where nothing is below that it could not hold.
LEMMA Put ==
  ASSUME NEW t \in Trees, NEW p \in Paths, NEW x \in Nodes,
         x # Absent => t[p] # Absent \/ t[Parent(p)] = Dir,
         x = Dir \/ t[p] # Dir \/ Children(t, p) = {}
  PROVE  [t EXCEPT ![p] = x] \in Trees
<1> DEFINE u == [t EXCEPT ![p] = x]
<1>1. u \in [Paths -> Nodes] /\ u[p] = x /\ \A q \in Paths : q # p => u[q] = t[q] BY TreeMeans
<1> HIDE DEF u
<1>2. ASSUME NEW a \in Paths, NEW b \in Paths, u[a] # Absent, IsStrictPrefix(b, a) PROVE u[b] = Dir
  <2>0. a # b BY <1>2 DEF IsStrictPrefix
  <2>1. CASE a = p
    <3>1. t[b] = Dir BY <1>1, <1>2, <2>1, DirsAbove
    <3> QED BY <1>1, <2>0, <2>1, <3>1
  <2>2. CASE a # p /\ b = p
    <3>1. t[a] # Absent BY <1>1, <1>2, <2>2
    <3>2. t[p] = Dir BY <1>2, <2>2, <3>1, TreeMeans
    <3>3. x = Dir BY <1>2, <2>2, <3>1, <3>2, NothingBelow
    <3> QED BY <1>1, <2>2, <3>3
  <2>3. CASE a # p /\ b # p BY <1>1, <1>2, <2>3, TreeMeans
  <2> QED BY <2>1, <2>2, <2>3
<1>3. u \in Trees BY <1>1, <1>2, TreeMeans
<1> QED BY <1>3 DEF u

\* Removing everything below a path leaves a tree.
LEMMA Removing ==
  ASSUME NEW t \in Trees, NEW p \in Paths
  PROVE  /\ RemovePathRecursive(t, p) \in Trees
         /\ \A q \in Paths : RemovePathRecursive(t, p)[q] \in {t[q], Absent}
<1> DEFINE u == RemovePathRecursive(t, p)
<1>1. u \in [Paths -> Nodes] /\ \A q \in Paths : u[q] = IF IsPrefix(p, q) THEN Absent ELSE t[q]
  BY TreeMeans, NodeKinds DEF RemovePathRecursive, Below
<1> HIDE DEF u
<1>2. ASSUME NEW a \in Paths, NEW b \in Paths, u[a] # Absent, IsStrictPrefix(b, a) PROVE u[b] = Dir
  <2>1. ~IsPrefix(p, a) /\ t[a] # Absent BY <1>1, <1>2
  <2>2. ~IsPrefix(p, b) BY <1>2, <2>1, PrefixOrder DEF IsStrictPrefix
  <2> QED BY <1>1, <1>2, <2>1, <2>2, TreeMeans
<1>3. u \in Trees BY <1>1, <1>2, TreeMeans
<1> QED BY <1>1, <1>3 DEF u

\* Making the parents of a path leaves a tree.
LEMMA Parents ==
  ASSUME NEW t \in Trees, NEW p \in Paths
  PROVE  /\ WithParents(t, p) \in Trees
         /\ \A q \in Paths : WithParents(t, p)[q] \in {t[q], Dir}
         /\ (\A q \in Paths : IsStrictPrefix(q, p) => t[q] # Absent) => WithParents(t, p) = t
<1> DEFINE u == WithParents(t, p)
           made(q) == /\ IsStrictPrefix(q, p) /\ t[q] = Absent
                      /\ \A r \in Paths : IsStrictPrefix(r, q) => ~IsFile(t[r])
<1>1. u \in [Paths -> Nodes] /\ \A q \in Paths : u[q] = IF made(q) THEN Dir ELSE t[q]
  BY TreeMeans, NodeKinds DEF WithParents
<1> HIDE DEF u
<1>2. ASSUME NEW a \in Paths, NEW b \in Paths, u[a] # Absent, IsStrictPrefix(b, a) PROVE u[b] = Dir
  <2>1. CASE t[a] # Absent
    <3>1. t[b] = Dir BY <1>2, <2>1, TreeMeans
    <3> QED BY <1>1, <3>1
  <2>2. CASE t[a] = Absent
    <3>1. made(a) BY <1>1, <1>2, <2>2
    <3>2. IsStrictPrefix(b, p) BY <1>2, <3>1, PrefixOrder DEF IsStrictPrefix
    <3>3. \A r \in Paths : IsStrictPrefix(r, b) => IsStrictPrefix(r, a)
      BY <1>2, PrefixOrder DEF IsStrictPrefix
    <3>4. ~IsFile(t[b]) /\ \A r \in Paths : IsStrictPrefix(r, b) => ~IsFile(t[r])
      BY <1>2, <3>1, <3>3
    <3>5. t[b] = Absent \/ t[b] = Dir BY <3>4, TreeMeans, NodeKinds
    <3> QED BY <1>1, <3>2, <3>4, <3>5
  <2> QED BY <2>1, <2>2
<1>3. u \in Trees BY <1>1, <1>2, TreeMeans
<1>4. (\A q \in Paths : IsStrictPrefix(q, p) => t[q] # Absent) => u = t
  <2> SUFFICES ASSUME \A q \in Paths : IsStrictPrefix(q, p) => t[q] # Absent PROVE u = t OBVIOUS
  <2>1. \A q \in Paths : u[q] = t[q] BY <1>1
  <2>2. t \in [Paths -> Nodes] BY TreeMeans
  <2> QED BY <1>1, <2>1, <2>2
<1> QED BY <1>1, <1>3, <1>4 DEF u

\* The two trees.
Names == {"src", "dst"}

\* Whence and whither each copier copies.
LEMMA CopierNames ==
  /\ \A c \in Copiers : From[c] \in Names /\ To[c] \in Names /\ From[c] # To[c]
  /\ From["worker"] = "src" /\ To["worker"] = "dst"
  /\ From["restore"] = "dst" /\ To["restore"] = "src"
  /\ "worker" \in Copiers /\ "restore" \in Copiers
  /\ \A c \in Copiers : c = "worker" \/ c = "restore"
BY DEF Names, Copiers, From, To

\* The trees and their nodes have their types.
LEMMA TreesOf ==
  ASSUME TypeOK
  PROVE  /\ fs \in [Names -> Trees]
         /\ \A t \in Names : fs[t] \in Trees /\ fs[t] \in [Paths -> Nodes]
         /\ \A t \in Names, p \in Paths :
              fs[t][p] \in Nodes /\ (fs[t][p] = Absent \/ fs[t][p] = Dir \/ fs[t][p] \in Inodes)
<1>1. fs \in [Names -> Trees] BY DEF TypeOK, Names
<1> QED BY <1>1, TreeMeans, NodeKinds DEF IsFile

\* One node of one tree changes.
LEMMA PutNode ==
  ASSUME TypeOK, NEW t \in Names, NEW p \in Paths, NEW x \in Nodes,
         fs' = [fs EXCEPT ![t][p] = x],
         x # Absent => fs[t][p] # Absent \/ fs[t][Parent(p)] = Dir,
         x = Dir \/ fs[t][p] # Dir \/ Children(fs[t], p) = {}
  PROVE  /\ fs' \in [Names -> Trees] /\ fs'[t][p] = x
         /\ \A u \in Names, q \in Paths : u # t \/ q # p => fs'[u][q] = fs[u][q]
<1>1. fs \in [Names -> Trees] /\ fs[t] \in Trees /\ fs[t] \in [Paths -> Nodes] BY TreesOf
<1>2. [fs[t] EXCEPT ![p] = x] \in Trees BY <1>1, Put
<1>3. fs' = [fs EXCEPT ![t] = [fs[t] EXCEPT ![p] = x]] OBVIOUS
<1>4. fs'[t] = [fs[t] EXCEPT ![p] = x] /\ \A u \in Names : u # t => fs'[u] = fs[u] BY <1>1, <1>3
<1>5. fs' \in [Names -> Trees] BY <1>1, <1>2, <1>3
<1> QED BY <1>1, <1>4, <1>5

\* The same, where the change is known point by point.
LEMMA PutPoint ==
  ASSUME TypeOK, NEW t \in Names, NEW p \in Paths, NEW x \in Nodes,
         fs' \in [Names -> [Paths -> Nodes]], fs'[t][p] = x,
         \A u \in Names, q \in Paths : u # t \/ q # p => fs'[u][q] = fs[u][q],
         x # Absent => fs[t][p] # Absent \/ fs[t][Parent(p)] = Dir,
         x = Dir \/ fs[t][p] # Dir \/ Children(fs[t], p) = {}
  PROVE  fs' \in [Names -> Trees]
<1>1. fs \in [Names -> Trees] /\ \A u \in Names : fs[u] \in Trees /\ fs[u] \in [Paths -> Nodes] BY TreesOf
<1>2. [fs[t] EXCEPT ![p] = x] \in Trees BY <1>1, Put
<1>3. fs'[t] = [fs[t] EXCEPT ![p] = x]
  <2>1. fs'[t] \in [Paths -> Nodes] /\ [fs[t] EXCEPT ![p] = x] \in [Paths -> Nodes]
    BY <1>2, TreeMeans
  <2>2. \A q \in Paths : fs'[t][q] = [fs[t] EXCEPT ![p] = x][q] BY <1>1
  <2> HIDE DEF Names
  <2> QED BY <2>1, <2>2
<1>4. ASSUME NEW u \in Names, u # t PROVE fs'[u] = fs[u]
  <2>1. fs'[u] \in [Paths -> Nodes] /\ fs[u] \in [Paths -> Nodes] BY <1>1
  <2>2. \A q \in Paths : fs'[u][q] = fs[u][q] BY <1>4
  <2> QED BY <2>1, <2>2
<1>5. \A u \in Names : fs'[u] \in Trees BY <1>1, <1>2, <1>3, <1>4
<1> QED BY <1>5

\* A step that gives no name another file keeps the inodes apart.
LEMMA ApartKept ==
  ASSUME InodesApart, \A u \in Names, q \in Paths : IsFile(fs'[u][q]) => fs'[u][q] = fs[u][q]
  PROVE  InodesApart'
BY DEF InodesApart, Names

\* So does one that leaves the trees alone.
LEMMA ApartSame == ASSUME InodesApart, fs' = fs PROVE InodesApart'
BY DEF InodesApart

\* A file's name gets a fresh inode, or keeps its own.
LEMMA ApartPut ==
  ASSUME InodesApart, NEW t \in Names, NEW p \in Files, NEW x \in Inodes,
         x = fs[t][p] \/ \A u \in Names, q \in Paths : fs[u][q] # x,
         fs'[t][p] = x, \A u \in Names, q \in Paths : u # t \/ q # p => fs'[u][q] = fs[u][q]
  PROVE  InodesApart'
<1>1. p \in Paths BY MirrorAssumption
<1>2. ASSUME NEW u \in Names, NEW v \in Names, NEW q \in Paths, NEW r \in Paths,
             IsFile(fs'[u][q]), fs'[u][q] = fs'[v][r]
      PROVE  u = v /\ q = r
  <2>1. CASE u = t /\ q = p
    <3> SUFFICES ASSUME v # t \/ r # p PROVE FALSE BY <2>1
    <3>1. fs[v][r] = x BY <1>2, <2>1
    <3>2. x = fs[t][p] /\ IsFile(fs[t][p]) BY <3>1 DEF IsFile
    <3> QED BY <1>1, <3>1, <3>2 DEF InodesApart, Names
  <2>2. CASE v = t /\ r = p
    <3> SUFFICES ASSUME u # t \/ q # p PROVE FALSE BY <2>2
    <3>1. fs[u][q] = x BY <1>2, <2>2
    <3>2. x = fs[t][p] /\ IsFile(fs[t][p]) BY <3>1 DEF IsFile
    <3> QED BY <1>1, <3>1, <3>2 DEF InodesApart, Names
  <2>3. CASE (u # t \/ q # p) /\ (v # t \/ r # p)
    <3>1. IsFile(fs[u][q]) /\ fs[u][q] = fs[v][r] BY <1>2, <2>3
    <3> QED BY <3>1 DEF InodesApart, Names
  <2> QED BY <2>1, <2>2, <2>3
<1>3. ASSUME NEW u \in Names, NEW q \in Paths, IsFile(fs'[u][q]) PROVE q \in Files
  <2>1. CASE u = t /\ q = p BY <2>1
  <2>2. CASE u # t \/ q # p
    <3>1. IsFile(fs[u][q]) BY <1>3, <2>2
    <3> QED BY <3>1 DEF InodesApart, Names
  <2> QED BY <2>1, <2>2
<1> QED BY <1>2, <1>3 DEF InodesApart, Names

\* The queue and the missed paths.
LEMMA QueuedType ==
  ASSUME NEW q \in Seq(Events), NEW e \in Events PROVE Queued(q, e) \in Seq(Events)
<1>1. Append(q, e) \in Seq(Events) BY AppendProperties
<1> QED BY <1>1 DEF Queued

\* An event of a path is an event.
LEMMA EventType ==
  \A k \in {"changed", "deleted", "self"}, p \in Paths, b \in BOOLEAN :
    /\ Event(k, p, b) \in Events /\ Event(k, p, b).kind = k /\ Event(k, p, b).path = p
    /\ Event(k, p, b).isdir = b
BY DEF Event, Events

\* A change of the source adds paths to the missed ones.
LEMMA MissedType ==
  ASSUME TypeOK, NEW p \in Paths, NEW b, Missed(p, b) PROVE missed' \in SUBSET Paths
<1>1. missed \in SUBSET Paths /\ Below(p) \in SUBSET Paths BY DEF TypeOK, Below
<1> QED BY <1>1 DEF Missed

\* A change adds an event to the queue.
LEMMA ChangedType ==
  ASSUME TypeOK, NEW p \in Paths, NEW b \in BOOLEAN, Changed(p, b)
  PROVE  queue' \in Seq(Events) /\ missed' \in SUBSET Paths
<1>1. queue \in Seq(Events) BY DEF TypeOK
<1>2. Event("changed", p, b) \in Events BY EventType
<1> QED BY <1>1, <1>2, QueuedType, MissedType DEF Changed

\* A removal adds two.
LEMMA RemovedType ==
  ASSUME TypeOK, NEW p \in Paths, NEW b \in BOOLEAN, Removed(p, b)
  PROVE  queue' \in Seq(Events) /\ missed' \in SUBSET Paths
<1>1. queue \in Seq(Events) BY DEF TypeOK
<1>2. Event("self", p, b) \in Events /\ Event("deleted", p, b) \in Events BY EventType
<1>3. Queued(queue, Event("self", p, b)) \in Seq(Events) BY <1>1, <1>2, QueuedType
<1>4. queue' \in Seq(Events) BY <1>2, <1>3, QueuedType DEF Removed
<1> QED BY <1>4, MissedType DEF Removed

\* The calls to make.
LEMMA TaskType == \A do \in {"copy", "make", "list"}, p \in Paths :
                    Task(do, p) \in Tasks /\ Task(do, p).do = do /\ Task(do, p).path = p
BY DEF Task, Tasks

\* The first of the calls to make, and the others.
LEMMA HeadTask ==
  ASSUME TypeOK, NEW c \in Copiers, todo[c] # <<>>
  PROVE  /\ todo[c] \in Seq(Tasks) /\ Head(todo[c]) \in Tasks /\ At(c) \in Paths
         /\ Tail(todo[c]) \in Seq(Tasks) /\ Len(todo[c]) \in Nat /\ Len(todo[c]) >= 1
         /\ Head(todo[c]) = todo[c][1]
         /\ Len(Tail(todo[c])) = Len(todo[c]) - 1
         /\ \A i \in 1 .. Len(todo[c]) - 1 : Tail(todo[c])[i] = todo[c][i + 1]
<1>1. todo[c] \in Seq(Tasks) BY DEF TypeOK
<1>2. Head(todo[c]) \in Tasks /\ Tail(todo[c]) \in Seq(Tasks)
      /\ Len(Tail(todo[c])) = Len(todo[c]) - 1
      /\ \A i \in 1 .. Len(Tail(todo[c])) : Tail(todo[c])[i] = todo[c][i + 1]
  BY <1>1, HeadTailProperties
<1>3. At(c) \in Paths BY <1>2 DEF At, Tasks
<1>4. Len(todo[c]) \in Nat /\ Len(todo[c]) >= 1 BY <1>1, EmptySeq
<1>5. Head(todo[c]) = todo[c][1] BY <1>1
<1> QED BY <1>1, <1>2, <1>3, <1>4, <1>5

\* The calls that take the place of one that is made.
LEMMA ThenType ==
  ASSUME TypeOK, NEW c \in Copiers, todo[c] # <<>>, NEW tasks \in Seq(Tasks), Then(c, tasks)
  PROVE  /\ todo' \in [Copiers -> Seq(Tasks)] /\ todo'[c] = tasks \o Tail(todo[c])
         /\ \A d \in Copiers : d # c => todo'[d] = todo[d]
<1>1. todo \in [Copiers -> Seq(Tasks)] BY DEF TypeOK
<1>2. Tail(todo[c]) \in Seq(Tasks) BY HeadTask
<1>3. tasks \o Tail(todo[c]) \in Seq(Tasks) BY <1>2, ConcatProperties
<1> QED BY <1>1, <1>3 DEF Then

\* A single call.
LEMMA OneTask == \A t \in Tasks : <<t>> \in Seq(Tasks)
OBVIOUS

\* The copies of what a directory holds.
LEMMA CopyListing ==
  ASSUME NEW S \in SUBSET Paths, NEW tasks \in Listings("copy", S)
  PROVE  tasks \in Seq(Tasks)
<1>1. IsFiniteSet(S) BY Numbers, FS_Subset
<1>2. tasks \in Seq([do : {"copy"}, path : S]) BY <1>1, ListingMeans
<1>3. [do : {"copy"}, path : S] \subseteq Tasks BY DEF Tasks
<1> QED BY <1>2, <1>3, SeqMonotonic

\* The checks of what a directory holds.
LEMMA CheckListing ==
  ASSUME NEW S \in SUBSET Paths, NEW tasks \in Listings("check", S)
  PROVE  tasks \in Seq(Removals)
<1>1. IsFiniteSet(S) BY Numbers, FS_Subset
<1>2. tasks \in Seq([do : {"check"}, path : S]) BY <1>1, ListingMeans
<1>3. [do : {"check"}, path : S] \subseteq Removals BY DEF Removals
<1> QED BY <1>2, <1>3, SeqMonotonic

\* What is well formed in every state.
Basic == TypeOK /\ InodesApart /\ RestoreInv

\* A step of the user changes the trees, the queue and the missed paths only.
LEMMA UserBasic ==
  ASSUME Basic, NEW p \in Paths \ {Root},
         fs' \in [Names -> Trees], data' \in [Inodes -> Contents], InodesApart',
         queue' \in Seq(Events), missed' \in SUBSET Paths, UserMay, UserDid
  PROVE  Basic'
<1>1. ops' \in 0 .. MaxOps BY MirrorAssumption DEF Basic, TypeOK, UserMay, UserDid
<1>2. TypeOK' BY <1>1 DEF Basic, TypeOK, UserDid, supervisor, worker, Names
<1>3. RestoreInv' BY DEF Basic, RestoreInv, UserDid, supervisor, Idle
<1> QED BY <1>2, <1>3 DEF Basic

\* The user writes a file.
LEMMA WriteBasic ==
  ASSUME Basic, NEW p \in Paths \ {Root}, Write(p) PROVE Basic'
<1>0. UserMay /\ UserDid /\ p \in Files /\ Changed(p, FALSE)
      /\ fs["src"][Parent(p)] = Dir /\ fs["src"][p] # Dir
  BY DEF Write
<1> DEFINE i == IF IsFile(fs["src"][p]) THEN fs["src"][p] ELSE Fresh
<1>1. i \in Inodes /\ (i = fs["src"][p] \/ \A u \in Names, q \in Paths : fs[u][q] # i)
  <2>1. CASE IsFile(fs["src"][p]) BY <2>1 DEF IsFile
  <2>2. CASE ~IsFile(fs["src"][p])
    BY <1>0, <2>2, FreshIsNew DEF Basic, Names
  <2> QED BY <2>1, <2>2
<1>2. fs' = [fs EXCEPT !["src"][p] = i] /\ data' = [data EXCEPT ![i] = ops + 2] BY DEF Write
<1> HIDE DEF i
<1>3. /\ fs' \in [Names -> Trees] /\ fs'["src"][p] = i
      /\ \A u \in Names, q \in Paths : u # "src" \/ q # p => fs'[u][q] = fs[u][q]
  BY <1>0, <1>1, <1>2, PutNode, NodeKinds DEF Basic, Names
<1>4. InodesApart' BY <1>0, <1>1, <1>3, ApartPut DEF Basic, Names
<1>5. data' \in [Inodes -> Contents]
  <2>1. ops + 2 \in Contents BY <1>0, MirrorAssumption DEF Basic, TypeOK, UserMay, Contents
  <2> QED BY <1>1, <1>2, <2>1 DEF Basic, TypeOK
<1>6. queue' \in Seq(Events) /\ missed' \in SUBSET Paths BY <1>0, ChangedType DEF Basic
<1> QED BY <1>0, <1>3, <1>4, <1>5, <1>6, UserBasic

\* The user removes a file or an empty directory.
LEMMA DropBasic ==
  ASSUME Basic, NEW p \in Paths \ {Root}, NEW x \in {Absent, Dir}, NEW b \in BOOLEAN,
         fs' = [fs EXCEPT !["src"][p] = x], Changed(p, b) \/ Removed(p, b),
         x # Absent => fs["src"][Parent(p)] = Dir,
         x = Dir \/ fs["src"][p] # Dir \/ Children(fs["src"], p) = {},
         UserMay, UserDid, UNCHANGED data
  PROVE  Basic'
<1>1. /\ fs' \in [Names -> Trees] /\ fs'["src"][p] = x
      /\ \A u \in Names, q \in Paths : u # "src" \/ q # p => fs'[u][q] = fs[u][q]
  BY PutNode, NodeKinds DEF Basic, Names
<1>2. InodesApart' BY <1>1, ApartKept, NodeKinds DEF Basic, Names
<1>3. data' \in [Inodes -> Contents] BY DEF Basic, TypeOK
<1>4. queue' \in Seq(Events) /\ missed' \in SUBSET Paths BY ChangedType, RemovedType DEF Basic
<1> QED BY <1>1, <1>2, <1>3, <1>4, UserBasic

\* So every step of the user keeps the state well formed.
LEMMA UserKeepsBasic == ASSUME Basic, User PROVE Basic'
<1>1. PICK p \in Paths \ {Root} : Write(p) \/ Unlink(p) \/ MkDir(p) \/ RmDir(p) BY DEF User
<1>2. CASE Write(p) BY <1>2, WriteBasic
<1>3. CASE Unlink(p)
  BY <1>3, DropBasic, NodeKinds DEF Unlink
<1>4. CASE MkDir(p) BY <1>4, DropBasic DEF MkDir
<1>5. CASE RmDir(p) BY <1>5, DropBasic DEF RmDir
<1> QED BY <1>1, <1>2, <1>3, <1>4, <1>5

-----------------------------------------------------------------------------

\* A step of a copier is one of a restore only while it restores.
LEMMA RestoreGoesOn ==
  ASSUME Basic, NEW c \in Copiers, Doing(c, "copy") \/ Doing(c, "make") \/ Doing(c, "list") \/ file[c] # NoFile
  PROVE  c = "restore" => pc = "restoring"
BY DEF Basic, RestoreInv, Doing, Idle

\* A step of a copier that goes on.
LEMMA CopyBasic ==
  ASSUME Basic, NEW c \in Copiers, c = "restore" => pc = "restoring",
         fs' \in [Names -> Trees], InodesApart', data' \in [Inodes -> Contents],
         todo' \in [Copiers -> Seq(Tasks)], \A d \in Copiers : d # c => todo'[d] = todo[d],
         file' \in [Copiers -> OpenFiles \cup {NoFile}], \A d \in Copiers : d # c => file'[d] = file[d],
         queue' \in Seq(Events), missed' \in SUBSET Paths, listed' \in SUBSET Paths, pc' = pc, CopierOnly
  PROVE  Basic'
<1>1. TypeOK' BY DEF Basic, TypeOK, CopierOnly, Names
<1>2. RestoreInv' BY CopierNames DEF Basic, RestoreInv, Idle
<1> QED BY <1>1, <1>2 DEF Basic

\* A walk that is given up.
LEMMA FailsBasic ==
  ASSUME Basic, NEW c \in Copiers, file[c] = NoFile, todo[c] # <<>>, Fails(c), c = "restore" => pc = "restoring"
  PROVE  Basic'
<1>1. todo' \in [Copiers -> Seq(Tasks)] /\ todo'[c] = <<>> /\ \A d \in Copiers : d # c => todo'[d] = todo[d]
  BY DEF Basic, TypeOK, Fails
<1>2. missed' \in SUBSET Paths
  <2>1. GivenUp(c) \in SUBSET Paths 
    <3>1. UNION {Below(t.path) : t \in ToSet(Tail(todo[c]))} \in SUBSET Paths BY DEF Below
    <3>2. Below(At(c)) \in SUBSET Paths BY DEF Below
    <3> QED BY <3>1, <3>2 DEF GivenUp
  <2>2. missed \in SUBSET Paths BY DEF Basic, TypeOK
  <2>3. missed' = missed \/ missed' = missed \cup GivenUp(c) BY DEF Fails
  <2> QED BY <2>1, <2>2, <2>3
<1>3. stage' \in {"dead", "sync", "loop"} /\ pc' \in {"idle", "restoring", "removing"}
  BY DEF Basic, TypeOK, Fails
<1>4. TypeOK' BY <1>1, <1>2, <1>3 DEF Basic, TypeOK, Fails, trees
<1>5. InodesApart' BY ApartSame DEF Basic, Fails, trees
<1>6. RestoreInv'
  <2>1. CASE c = "restore" BY <1>1, <2>1 DEF RestoreInv, Idle, Fails
  <2>2. CASE c # "restore" BY <1>1, <2>2, CopierNames DEF Basic, RestoreInv, Idle, Fails
  <2> QED BY <2>1, <2>2
<1> QED BY <1>4, <1>5, <1>6 DEF Basic

\* Every step of the copying keeps the state well formed.
LEMMA CopyKeepsBasic == ASSUME Basic, NEW c \in Copiers, Copy(c) PROVE Basic'
<1>0. /\ fs \in [Names -> Trees] /\ data \in [Inodes -> Contents] /\ queue \in Seq(Events)
      /\ missed \in SUBSET Paths /\ listed \in SUBSET Paths /\ InodesApart
      /\ file \in [Copiers -> OpenFiles \cup {NoFile}] /\ todo \in [Copiers -> Seq(Tasks)]
      /\ TypeOK
  BY TreesOf DEF Basic, TypeOK
<1>0a. From[c] \in Names /\ To[c] \in Names BY CopierNames
<1>1. CASE EntryGone(c) \/ MakeFails(c) \/ ListFails(c) \/ OpenFails(c)
  BY <1>1, FailsBasic, RestoreGoesOn DEF EntryGone, MakeFails, ListFails, OpenFails, Doing
<1>2. CASE EnterDirectory(c)
  <2>1. Doing(c, "copy") /\ todo[c] # <<>> BY <1>2 DEF EnterDirectory, Doing
  <2>2. <<Task("make", At(c))>> \in Seq(Tasks) BY <1>0, <2>1, HeadTask, TaskType, OneTask
  <2>3. todo' \in [Copiers -> Seq(Tasks)] /\ \A d \in Copiers : d # c => todo'[d] = todo[d]
    BY <1>0, <1>2, <2>1, <2>2, ThenType DEF EnterDirectory
  <2>4. InodesApart' BY <1>0, <1>2, ApartSame DEF EnterDirectory, trees
  <2> QED BY <1>0, <1>2, <2>1, <2>3, <2>4, CopyBasic, RestoreGoesOn DEF EnterDirectory, SameWorker, trees
<1>3. CASE MakeDirectory(c)
  <2>1. Doing(c, "make") /\ todo[c] # <<>> BY <1>3 DEF MakeDirectory, Doing
  <2>1a. At(c) \in Paths BY <1>0, <2>1, HeadTask
  <2>2. <<Task("list", At(c))>> \in Seq(Tasks) BY <2>1a, TaskType, OneTask
  <2>3. todo' \in [Copiers -> Seq(Tasks)] /\ \A d \in Copiers : d # c => todo'[d] = todo[d]
    BY <1>0, <1>3, <2>1, <2>2, ThenType DEF MakeDirectory
  <2>4. fs' \in [Names -> Trees] /\ InodesApart' /\ queue' \in Seq(Events) /\ missed' \in SUBSET Paths
    <3>1. CASE UNCHANGED <<fs, queue, missed>> BY <1>0, <3>1, ApartSame
    <3>2. CASE /\ Dest(c)[At(c)] = Absent /\ Dest(c)[Parent(At(c))] = Dir
               /\ fs' = [fs EXCEPT ![To[c]][At(c)] = Dir]
               /\ IF To[c] = "src" THEN Changed(At(c), TRUE) ELSE UNCHANGED <<queue, missed>>
      <4>0. fs[To[c]][Parent(At(c))] = Dir /\ fs' = [fs EXCEPT ![To[c]][At(c)] = Dir] /\ Dir \in Nodes
        BY <3>2, NodeKinds DEF Dest
      <4>1. /\ fs' \in [Names -> Trees] /\ fs'[To[c]][At(c)] = Dir
            /\ \A u \in Names, q \in Paths : u # To[c] \/ q # At(c) => fs'[u][q] = fs[u][q]
      <5>1. PICK t \in Names, p \in Paths : t = To[c] /\ p = At(c) BY <1>0a, <2>1a
      <5>2. fs' = [fs EXCEPT ![t][p] = Dir] BY <4>0, <5>1
      <5>2a. fs[t][Parent(p)] = Dir /\ Dir \in Nodes BY <4>0, <5>1
      <5>3. /\ fs' \in [Names -> [Paths -> Nodes]] /\ fs'[t][p] = Dir
            /\ \A u \in Names, q \in Paths : u # t \/ q # p => fs'[u][q] = fs[u][q]
        BY <1>0, <5>2, <5>2a, TreesOf
      <5>4. fs' \in [Names -> Trees] BY <1>0, <5>2a, <5>3, PutPoint
      <5> QED BY <5>1, <5>3, <5>4
      <4>2. InodesApart' BY <1>0, <4>1, ApartKept, NodeKinds
      <4>3. queue' \in Seq(Events) /\ missed' \in SUBSET Paths BY <1>0, <2>1a, <3>2, ChangedType
      <4> QED BY <4>1, <4>2, <4>3
    <3> QED BY <1>3, <3>1, <3>2 DEF MakeDirectory
  <2> QED BY <1>0, <1>3, <2>1, <2>3, <2>4, CopyBasic, RestoreGoesOn DEF MakeDirectory
<1>4. CASE ListDirectory(c)
  <2>1. Doing(c, "list") /\ todo[c] # <<>> BY <1>4 DEF ListDirectory, Doing
  <2>1a. At(c) \in Paths BY <1>0, <2>1, HeadTask
  <2>2. PICK tasks \in Listings("copy", Children(Source(c), At(c))) : Then(c, tasks)
    BY <1>4 DEF ListDirectory
  <2>3. tasks \in Seq(Tasks) BY CopyListing DEF Children
  <2>4. todo' \in [Copiers -> Seq(Tasks)] /\ \A d \in Copiers : d # c => todo'[d] = todo[d]
    BY <1>0, <2>1, <2>2, <2>3, ThenType
  <2>5. listed' \in SUBSET Paths BY <1>0, <1>4, <2>1a DEF ListDirectory
  <2>6. InodesApart' BY <1>0, <1>4, ApartSame DEF ListDirectory, trees
  <2> QED BY <1>0, <1>4, <2>1, <2>4, <2>5, <2>6, CopyBasic, RestoreGoesOn DEF ListDirectory, trees
<1>5. CASE SkipFile(c)
  <2>1. Doing(c, "copy") /\ todo[c] # <<>> BY <1>5 DEF SkipFile, Doing
  <2>2. <<>> \in Seq(Tasks) OBVIOUS
  <2>3. todo' \in [Copiers -> Seq(Tasks)] /\ \A d \in Copiers : d # c => todo'[d] = todo[d]
    BY <1>0, <1>5, <2>1, <2>2, ThenType DEF SkipFile
  <2>4. InodesApart' BY <1>0, <1>5, ApartSame DEF SkipFile, trees
  <2> QED BY <1>0, <1>5, <2>1, <2>3, <2>4, CopyBasic, RestoreGoesOn DEF SkipFile, SameWorker, trees
<1>6. CASE OpenFile(c)
  <2> DEFINE p == At(c)
             i == IF IsFile(Dest(c)[p]) THEN Dest(c)[p] ELSE Fresh
             f == [path |-> p, from |-> Source(c)[p], to |-> i, buffer |-> 0, read |-> FALSE]
  <2>1. /\ Doing(c, "copy") /\ todo[c] # <<>> /\ IsFile(Source(c)[p]) /\ Dest(c)[p] # Dir
        /\ Dest(c)[Parent(p)] = Dir /\ file' = [file EXCEPT ![c] = f]
        /\ fs' = [fs EXCEPT ![To[c]][p] = i] /\ data' = [data EXCEPT ![i] = 0] /\ Then(c, <<>>)
        /\ (IF To[c] = "src" THEN Changed(p, FALSE) ELSE UNCHANGED <<queue, missed>>)
        /\ CopierOnly /\ UNCHANGED <<listed, pc>>
    BY <1>6 DEF OpenFile, Doing
  <2>2. p \in Paths BY <1>0, <2>1, HeadTask
  <2>3. p \in Files BY <1>0, <1>0a, <2>1, <2>2 DEF InodesApart, Source, Names
  <2>4. i \in Inodes /\ (i = fs[To[c]][p] \/ \A u \in Names, q \in Paths : fs[u][q] # i)
    <3>1. CASE IsFile(Dest(c)[p]) BY <3>1 DEF IsFile, Dest
    <3>2. CASE ~IsFile(Dest(c)[p])
      BY <1>0, <1>0a, <2>3, <3>2, FreshIsNew DEF Names, Dest
    <3> QED BY <3>1, <3>2
  <2>5. f \in OpenFiles
    <3>1. 0 \in Contents BY MirrorAssumption DEF Contents
    <3> QED BY <2>1, <2>2, <2>4, <3>1 DEF OpenFiles, IsFile
  <2>6. file' \in [Copiers -> OpenFiles \cup {NoFile}] /\ \A d \in Copiers : d # c => file'[d] = file[d]
    <3> HIDE DEF f
    <3> QED BY <1>0, <2>1, <2>5
  <2> HIDE DEF p, i, f
  <2>7. /\ fs' \in [Names -> Trees] /\ fs'[To[c]][p] = i
        /\ \A u \in Names, q \in Paths : u # To[c] \/ q # p => fs'[u][q] = fs[u][q]
    <3>1. /\ fs[To[c]][Parent(p)] = Dir /\ fs[To[c]][p] # Dir /\ fs' = [fs EXCEPT ![To[c]][p] = i]
          /\ i \in Nodes
      BY <2>1, <2>4, NodeKinds DEF Dest
    <3>2. PICK t \in Names : t = To[c] BY <1>0a
    <3>3. fs' = [fs EXCEPT ![t][p] = i] BY <3>1, <3>2
    <3>3a. fs[t][Parent(p)] = Dir /\ fs[t][p] # Dir /\ i \in Nodes BY <3>1, <3>2
    <3>4. /\ fs' \in [Names -> [Paths -> Nodes]] /\ fs'[t][p] = i
          /\ \A u \in Names, q \in Paths : u # t \/ q # p => fs'[u][q] = fs[u][q]
      BY <1>0, <2>2, <3>3, <3>3a, TreesOf
    <3>5. fs' \in [Names -> Trees] BY <1>0, <2>2, <3>3a, <3>4, PutPoint
    <3> QED BY <3>2, <3>4, <3>5
  <2>8. InodesApart' BY <1>0, <1>0a, <2>3, <2>4, <2>7, ApartPut
  <2>9. data' \in [Inodes -> Contents]
    <3>1. 0 \in Contents BY MirrorAssumption DEF Contents
    <3> QED BY <1>0, <2>1, <2>4, <3>1
  <2>10. queue' \in Seq(Events) /\ missed' \in SUBSET Paths BY <1>0, <2>1, <2>2, ChangedType
  <2>11. todo' \in [Copiers -> Seq(Tasks)] /\ \A d \in Copiers : d # c => todo'[d] = todo[d]
    <3>1. <<>> \in Seq(Tasks) OBVIOUS
    <3> QED BY <1>0, <2>1, <3>1, ThenType
  <2> QED BY <1>0, <2>1, <2>6, <2>7, <2>8, <2>9, <2>10, <2>11, CopyBasic, RestoreGoesOn
<1>7. CASE ReadFile(c)
  <2>1. file[c] # NoFile /\ file[c] \in OpenFiles BY <1>0, <1>7 DEF ReadFile
  <2>2. file[c].from \in Inodes BY <2>1 DEF OpenFiles
  <2>3. data[file[c].from] \in Contents BY <1>0, <2>2
  <2>4. file' = [file EXCEPT ![c] = [file[c] EXCEPT !.read = TRUE, !.buffer = data[file[c].from]]]
    BY <1>7 DEF ReadFile
  <2>5. [file[c] EXCEPT !.read = TRUE, !.buffer = data[file[c].from]] \in OpenFiles
    BY <2>1, <2>3 DEF OpenFiles
  <2>6. file' \in [Copiers -> OpenFiles \cup {NoFile}] /\ \A d \in Copiers : d # c => file'[d] = file[d]
    BY <1>0, <2>4, <2>5
  <2>7. InodesApart' BY <1>0, <1>7, ApartSame DEF ReadFile, trees
  <2> QED BY <1>0, <1>7, <2>1, <2>6, <2>7, CopyBasic, RestoreGoesOn DEF ReadFile, SameWorker, trees
<1>8. CASE WriteFile(c)
  <2>1. file[c] # NoFile /\ file[c] \in OpenFiles BY <1>0, <1>8 DEF WriteFile
  <2>2. file[c].to \in Inodes /\ file[c].buffer \in Contents /\ file[c].path \in Paths
    BY <2>1 DEF OpenFiles
  <2>3. data' \in [Inodes -> Contents] BY <1>0, <1>8, <2>2 DEF WriteFile
  <2>4. file' \in [Copiers -> OpenFiles \cup {NoFile}] /\ \A d \in Copiers : d # c => file'[d] = file[d]
    BY <1>0, <1>8 DEF WriteFile
  <2>5. queue' \in Seq(Events) /\ missed' \in SUBSET Paths
    BY <1>0, <1>8, <2>2, ChangedType DEF WriteFile
  <2>6. InodesApart' BY <1>0, <1>8, ApartSame DEF WriteFile
  <2> QED BY <1>0, <1>8, <2>1, <2>3, <2>4, <2>5, <2>6, CopyBasic, RestoreGoesOn DEF WriteFile
<1> QED BY <1>1, <1>2, <1>3, <1>4, <1>5, <1>6, <1>7, <1>8 DEF Copy

\* So does a step that changes nothing.
LEMMA SameBasic == ASSUME Basic, UNCHANGED vars PROVE Basic'
BY DEF Basic, TypeOK, InodesApart, RestoreInv, Idle, vars, trees, worker, supervisor

\* What reading a path finds is a view.
LEMMA ViewType ==
  ASSUME TypeOK PROVE \A t \in Names, p \in Paths : View(t, p) \in Views
<1> SUFFICES ASSUME NEW t \in Names, NEW p \in Paths PROVE View(t, p) \in Views OBVIOUS
<1>1. data \in [Inodes -> Contents] /\ 0 \in Contents BY MirrorAssumption DEF TypeOK, Contents
<1>2. (IF IsFile(fs[t][p]) THEN data[fs[t][p]] ELSE 0) \in Contents BY <1>1 DEF IsFile
<1> QED BY <1>2 DEF View, Views

\* The first event, and the others.
LEMMA HeadEvent ==
  ASSUME TypeOK, queue # <<>>
  PROVE  /\ queue \in Seq(Events) /\ Head(queue) \in Events /\ Tail(queue) \in Seq(Events)
         /\ Head(queue).path \in Paths /\ Head(queue).isdir \in BOOLEAN
         /\ Head(queue) = queue[1] /\ Len(queue) \in Nat /\ Len(queue) >= 1
         /\ Len(Tail(queue)) = Len(queue) - 1
         /\ \A i \in 1 .. Len(queue) - 1 : Tail(queue)[i] = queue[i + 1]
<1>1. queue \in Seq(Events) BY DEF TypeOK
<1>2. Head(queue) \in Events /\ Tail(queue) \in Seq(Events) /\ Len(Tail(queue)) = Len(queue) - 1
      /\ \A i \in 1 .. Len(Tail(queue)) : Tail(queue)[i] = queue[i + 1]
  BY <1>1, HeadTailProperties
<1>3. Head(queue).path \in Paths /\ Head(queue).isdir \in BOOLEAN BY <1>2 DEF Events
<1>4. Len(queue) \in Nat /\ Len(queue) >= 1 BY <1>1, EmptySeq
<1>5. Head(queue) = queue[1] BY <1>1
<1> QED BY <1>1, <1>2, <1>3, <1>4, <1>5

\* The first of the calls to remove, and the others.
LEMMA HeadRemoval ==
  ASSUME TypeOK, toRemove # <<>>
  PROVE  /\ toRemove \in Seq(Removals) /\ Head(toRemove) \in Removals
         /\ Tail(toRemove) \in Seq(Removals) /\ Head(toRemove).path \in Paths
         /\ Head(toRemove) = toRemove[1] /\ Len(toRemove) \in Nat /\ Len(toRemove) >= 1
         /\ Len(Tail(toRemove)) = Len(toRemove) - 1
         /\ \A i \in 1 .. Len(toRemove) - 1 : Tail(toRemove)[i] = toRemove[i + 1]
<1>1. toRemove \in Seq(Removals) BY DEF TypeOK
<1>2. Head(toRemove) \in Removals /\ Tail(toRemove) \in Seq(Removals)
      /\ Len(Tail(toRemove)) = Len(toRemove) - 1
      /\ \A i \in 1 .. Len(Tail(toRemove)) : Tail(toRemove)[i] = toRemove[i + 1]
  BY <1>1, HeadTailProperties
<1>3. Head(toRemove).path \in Paths BY <1>2 DEF Removals
<1>4. Len(toRemove) \in Nat /\ Len(toRemove) >= 1 BY <1>1, EmptySeq
<1>5. Head(toRemove) = toRemove[1] BY <1>1
<1> QED BY <1>1, <1>2, <1>3, <1>4, <1>5

\* A step of the worker that copies nothing.
LEMMA WorkerBasic ==
  ASSUME Basic, WorkerOnly, fs' \in [Names -> Trees], InodesApart',
         todo' \in [Copiers -> Seq(Tasks)], todo'["restore"] = todo["restore"],
         stage' \in {"dead", "sync", "loop"}, toWatch' \in Seq(Paths), watched' \in SUBSET Paths,
         queue' \in Seq(Events), UNCHANGED <<listed, missed>>
  PROVE  Basic'
<1>1. TypeOK' BY DEF Basic, TypeOK, WorkerOnly, supervisor, Names
<1>2. RestoreInv' BY DEF Basic, RestoreInv, Idle, WorkerOnly, supervisor
<1> QED BY <1>1, <1>2 DEF Basic

\* Every step of the worker keeps the state well formed.
LEMMA WorkerKeepsBasic == ASSUME Basic, Worker PROVE Basic'
<1>0. /\ fs \in [Names -> Trees] /\ queue \in Seq(Events) /\ watched \in SUBSET Paths
      /\ todo \in [Copiers -> Seq(Tasks)] /\ toWatch \in Seq(Paths) /\ TypeOK
      /\ stage \in {"dead", "sync", "loop"}
  BY TreesOf DEF Basic, TypeOK
<1>1. CASE Copy("worker") BY <1>1, CopyKeepsBasic, CopierNames
<1>2. CASE StartLoop
  <2>1. <<Root>> \in Seq(Paths) BY RootPrefix
  <2>2. InodesApart' BY <1>2, ApartSame DEF Basic, StartLoop
  <2> QED BY <1>0, <1>2, <2>1, <2>2, WorkerBasic DEF StartLoop
<1>3. CASE WatchDirectory
  <2> DEFINE p == Head(toWatch)
             subdirs == {q \in Children(fs["src"], p) : fs["src"][q] = Dir}
             first == IF fs["src"][p] = Dir THEN SetToSeq(subdirs) ELSE <<>>
  <2>1. toWatch # <<>> /\ watched' \in {watched, watched \cup {p}} /\ toWatch' = first \o Tail(toWatch)
    BY <1>3 DEF WatchDirectory
  <2>2. p \in Paths /\ Tail(toWatch) \in Seq(Paths) BY <1>0, <2>1, HeadTailProperties
  <2>3. IsFiniteSet(subdirs) /\ subdirs \subseteq Paths
    <3>1. subdirs \in SUBSET Paths BY DEF Children
    <3> QED BY <3>1, Numbers, FS_Subset
  <2> HIDE DEF subdirs
  <2>4. SetToSeq(subdirs) \in Seq(subdirs) BY <2>3, SetToSeqType
  <2>5. SetToSeq(subdirs) \in Seq(Paths) BY <2>3, <2>4, SeqMonotonic
  <2>6. first \in Seq(Paths)
    <3>1. <<>> \in Seq(Paths) OBVIOUS
    <3> QED BY <2>5, <3>1
  <2> HIDE DEF first
  <2>7. first \o Tail(toWatch) \in Seq(Paths) BY <2>2, <2>6, ConcatProperties
  <2>8. watched' \in SUBSET Paths BY <1>0, <2>1, <2>2
  <2>9. InodesApart' BY <1>3, ApartSame DEF Basic, WatchDirectory
  <2>10. toWatch' \in Seq(Paths) BY <2>1, <2>7
  <2>11. /\ WorkerOnly /\ fs' = fs /\ todo' = todo /\ stage' = stage /\ queue' = queue
         /\ UNCHANGED <<listed, missed>>
    BY <1>3 DEF WatchDirectory
  <2> QED BY <1>0, <2>8, <2>9, <2>10, <2>11, WorkerBasic
<1>4. CASE HandleSelf
  <2>1. <<>> \in Seq(Events) OBVIOUS
  <2>2. InodesApart' BY <1>4, ApartSame DEF Basic, HandleSelf
  <2> QED BY <1>0, <1>4, <2>1, <2>2, WorkerBasic DEF HandleSelf
<1>5. CASE HandleDelete
  <2> DEFINE p == Head(queue).path
  <2>1. p \in Paths /\ Tail(queue) \in Seq(Events) BY <1>0, <1>5, HeadEvent DEF HandleDelete, Handling
  <2>2. fs' = [fs EXCEPT !["dst"] = RemovePathRecursive(fs["dst"], p)] BY <1>5 DEF HandleDelete
  <2> HIDE DEF p
  <2>3. /\ RemovePathRecursive(fs["dst"], p) \in Trees
        /\ \A q \in Paths : RemovePathRecursive(fs["dst"], p)[q] \in {fs["dst"][q], Absent}
    BY <1>0, <2>1, Removing DEF Names
  <2>4. fs' \in [Names -> Trees] /\ fs'["dst"] = RemovePathRecursive(fs["dst"], p) /\ fs'["src"] = fs["src"]
    BY <1>0, <2>2, <2>3 DEF Names
  <2>5. InodesApart' BY <2>3, <2>4, ApartKept, NodeKinds DEF Basic, Names
  <2>6. /\ WorkerOnly /\ todo' = todo /\ stage' = stage /\ queue' = Tail(queue)
        /\ UNCHANGED <<listed, missed, toWatch, watched>>
    BY <1>5 DEF HandleDelete
  <2> QED BY <1>0, <2>1, <2>4, <2>5, <2>6, WorkerBasic
<1>6. CASE HandleChange
  <2> DEFINE e == Head(queue)
             p == e.path
             task == Task(IF e.isdir THEN "make" ELSE "copy", p)
  <2>1. p \in Paths /\ Tail(queue) \in Seq(Events) BY <1>0, <1>6, HeadEvent DEF HandleChange, Handling
  <2>2. /\ fs' = [fs EXCEPT !["dst"] = WithParents(fs["dst"], p)]
        /\ todo' = [todo EXCEPT !["worker"] = <<task>>] /\ toWatch' \in {<<p>>, <<>>}
        /\ WorkerOnly /\ stage' = stage /\ queue' = Tail(queue) /\ UNCHANGED <<listed, missed, watched>>
    BY <1>6 DEF HandleChange
  <2>3. <<task>> \in Seq(Tasks)
    <3>1. task \in Tasks BY <2>1, TaskType
    <3> HIDE DEF task
    <3> QED BY <3>1
  <2> HIDE DEF e, p, task
  <2>4. todo' \in [Copiers -> Seq(Tasks)] /\ todo'["restore"] = todo["restore"]
    BY <1>0, <2>2, <2>3 DEF Copiers
  <2>5. WithParents(fs["dst"], p) \in Trees
        /\ \A q \in Paths : WithParents(fs["dst"], p)[q] \in {fs["dst"][q], Dir}
    BY <1>0, <2>1, Parents DEF Names
  <2>6. fs' \in [Names -> Trees] /\ fs'["dst"] = WithParents(fs["dst"], p) /\ fs'["src"] = fs["src"]
    BY <1>0, <2>2, <2>5 DEF Names
  <2>7. InodesApart' BY <2>5, <2>6, ApartKept, NodeKinds DEF Basic, Names
  <2>8. toWatch' \in Seq(Paths)
    <3>1. <<p>> \in Seq(Paths) /\ <<>> \in Seq(Paths) BY <2>1
    <3> QED BY <2>2, <3>1
  <2> QED BY <1>0, <2>1, <2>2, <2>4, <2>6, <2>7, <2>8, WorkerBasic
<1> QED BY <1>1, <1>2, <1>3, <1>4, <1>5, <1>6 DEF Worker

-----------------------------------------------------------------------------

\* So does every command.
LEMMA CommandsKeepBasic == ASSUME Basic, End \/ StartAgain \/ Restore PROVE Basic'
<1>0. /\ todo \in [Copiers -> Seq(Tasks)] /\ file \in [Copiers -> OpenFiles \cup {NoFile}] /\ TypeOK
      /\ fs \in [Names -> Trees]
  BY TreesOf DEF Basic, TypeOK
<1>1. MayCommand => commands + 1 \in 0 .. MaxCommands
  BY MirrorAssumption DEF Basic, TypeOK, MayCommand
<1>2. InodesApart' BY ApartSame DEF Basic, End, StartAgain, Restore, trees
<1>3. \A p \in Paths : View("dst", p) \in Views
  BY <1>0, ViewType DEF Names
<1>4. <<Task("make", Root)>> \in Seq(Tasks) /\ <<Task("copy", Root)>> \in Seq(Tasks)
  BY TaskType, OneTask, RootPrefix
<1>5. CASE End
  <2>1. <<>> \in Seq(Tasks) /\ <<>> \in Seq(Paths) /\ <<>> \in Seq(Events) OBVIOUS
  <2>2. todo' \in [Copiers -> Seq(Tasks)] /\ todo'["restore"] = todo["restore"]
    BY <1>0, <1>5, <2>1 DEF End, Copiers
  <2>3. file' \in [Copiers -> OpenFiles \cup {NoFile}] /\ file'["restore"] = file["restore"]
    BY <1>0, <1>5 DEF End, Copiers
  <2>4. TypeOK' BY <1>1, <1>5, <2>1, <2>2, <2>3 DEF Basic, TypeOK, End, trees
  <2>5. RestoreInv' BY <1>5, <2>2, <2>3 DEF Basic, RestoreInv, Idle, End
  <2> QED BY <1>2, <2>4, <2>5 DEF Basic
<1>6. CASE StartAgain
  <2>2. todo' \in [Copiers -> Seq(Tasks)] /\ todo'["restore"] = todo["restore"]
    BY <1>0, <1>4, <1>6 DEF StartAgain, Copiers
  <2>3. leftover' \in SUBSET Paths BY <1>6 DEF StartAgain
  <2>4. TypeOK' BY <1>1, <1>6, <2>2, <2>3 DEF Basic, TypeOK, StartAgain, trees
  <2>5. RestoreInv' BY <1>6, <2>2 DEF Basic, RestoreInv, Idle, StartAgain
  <2> QED BY <1>2, <2>4, <2>5 DEF Basic
<1>7. CASE Restore
  <2>2. todo' \in [Copiers -> Seq(Tasks)]
    BY <1>0, <1>4, <1>7 DEF Restore, Copiers
  <2>3. goal' \in [Paths -> Views] BY <1>3, <1>7 DEF Restore
  <2>3a. mode' \in {"alone", "settled", "racing"} /\ commands' \in 0 .. MaxCommands
    BY <1>1, <1>7 DEF Restore
  <2>3b. /\ UNCHANGED <<fs, data, file, stage, toWatch, watched, listed, queue, active, toRemove,
                        ops, missed, leftover>> /\ pc' = "restoring"
    BY <1>7 DEF Restore, trees, worker
  <2>4. TypeOK' BY <2>2, <2>3, <2>3a, <2>3b DEF Basic, TypeOK
  <2>5. RestoreInv' BY <2>3b DEF RestoreInv
  <2> QED BY <1>2, <2>4, <2>5 DEF Basic
<1> QED BY <1>5, <1>6, <1>7

-----------------------------------------------------------------------------
\* A step of remove_if_missing.
LEMMA RemoveBasic ==
  ASSUME Basic, RestoreOnly, fs' \in [Names -> Trees], InodesApart', queue' \in Seq(Events),
         missed' \in SUBSET Paths, toRemove' \in Seq(Removals),
         pc' \in {"idle", "removing"}, pc = "restoring" => Idle("restore")
  PROVE  Basic'
<1>1. TypeOK' BY DEF Basic, TypeOK, RestoreOnly, worker, Names
<1>2. RestoreInv' BY DEF Basic, RestoreInv, Idle, RestoreOnly
<1> QED BY <1>1, <1>2 DEF Basic

\* What is left of the calls to remove after a check has failed.
LEMMA AbortedType ==
  ASSUME NEW tasks \in Seq(Removals), NEW r \in Aborted(tasks)
  PROVE  /\ r \in Seq(Removals)
         /\ \E k \in 1 .. Len(tasks) + 1 :
              /\ Len(r) = Len(tasks) - k + 1 /\ \A i \in 1 .. Len(r) : r[i] = tasks[k + i - 1]
              /\ \A i \in 1 .. k - 1 : tasks[i].do = "check"
<1>1. PICK k \in 1 .. Len(tasks) + 1 :
             r = SubSeq(tasks, k, Len(tasks)) /\ \A i \in 1 .. k - 1 : tasks[i].do = "check"
  BY DEF Aborted
<1>2. Len(tasks) \in Nat BY LenProperties
<1>3. \A i \in k .. Len(tasks) : tasks[i] \in Removals BY <1>2
<1>4. /\ SubSeq(tasks, k, Len(tasks)) \in Seq(Removals)
      /\ Len(SubSeq(tasks, k, Len(tasks))) = IF k <= Len(tasks) THEN Len(tasks) - k + 1 ELSE 0
      /\ \A i \in 1 .. Len(tasks) - k + 1 : SubSeq(tasks, k, Len(tasks))[i] = tasks[k + i - 1]
  BY <1>2, <1>3, SubSeqProperties
<1>5. r \in Seq(Removals) /\ Len(r) = Len(tasks) - k + 1 BY <1>1, <1>2, <1>4
<1>6. \A i \in 1 .. Len(r) : r[i] = tasks[k + i - 1] BY <1>1, <1>4, <1>5
<1> QED BY <1>1, <1>5, <1>6

\* Every step of the removal keeps the state well formed.
LEMMA RemoveKeepsBasic ==
  ASSUME Basic, Restored \/ CheckBoth \/ CheckMissing \/ RemoveDirectory \/ Finished
  PROVE  Basic'
<1>0. /\ fs \in [Names -> Trees] /\ queue \in Seq(Events) /\ missed \in SUBSET Paths /\ TypeOK
      /\ toRemove \in Seq(Removals) /\ InodesApart
  BY TreesOf DEF Basic, TypeOK
<1> DEFINE p == Head(toRemove).path
<1>1. CASE Restored
  <2>1. toRemove' \in Seq(Removals)
    <3> DEFINE task == [do |-> "check", path |-> Root]
    <3>1. task \in Removals BY RootPrefix DEF Removals
    <3>2. toRemove' = <<task>> BY <1>1 DEF Restored
    <3> HIDE DEF task
    <3> QED BY <3>1, <3>2
  <2>2. InodesApart' BY <1>0, <1>1, ApartSame DEF Restored
  <2> QED BY <1>0, <1>1, <2>1, <2>2, RemoveBasic DEF Restored
<1>2. CASE CheckBoth
  <2>1. toRemove # <<>> BY <1>2 DEF CheckBoth, Checking
  <2>2. p \in Paths /\ Tail(toRemove) \in Seq(Removals) BY <1>0, <2>1, HeadRemoval
  <2>3. toRemove' \in Seq(Removals)
    <3>1. CASE toRemove' = Tail(toRemove) BY <2>2, <3>1
    <3>2. CASE \E tasks \in Listings("check", Children(fs["src"], p)) : toRemove' = tasks \o Tail(toRemove)
      <4>1. PICK tasks \in Listings("check", Children(fs["src"], p)) : toRemove' = tasks \o Tail(toRemove)
        BY <3>2
      <4>2. tasks \in Seq(Removals) BY CheckListing DEF Children
      <4> QED BY <2>2, <4>1, <4>2, ConcatProperties
    <3>3. CASE toRemove' \in Aborted(Tail(toRemove)) BY <2>2, <3>3, AbortedType
    <3> QED BY <1>2, <3>1, <3>2, <3>3 DEF CheckBoth
  <2>4. InodesApart' BY <1>0, <1>2, ApartSame DEF CheckBoth
  <2>5. RestoreOnly /\ UNCHANGED <<fs, pc, queue, missed>> /\ pc = "removing" BY <1>2 DEF CheckBoth, Checking
  <2> QED BY <1>0, <2>3, <2>4, <2>5, RemoveBasic
<1>3. ASSUME p \in Paths, RemoveEntry(p), fs["src"][p] # Dir \/ Children(fs["src"], p) = {}
      PROVE  fs' \in [Names -> Trees] /\ InodesApart' /\ queue' \in Seq(Events) /\ missed' \in SUBSET Paths
  <2>1. fs' = [fs EXCEPT !["src"][p] = Absent] /\ Removed(p, fs["src"][p] = Dir) BY <1>3 DEF RemoveEntry
  <2> HIDE DEF p
  <2>2. /\ fs' \in [Names -> Trees] /\ fs'["src"][p] = Absent
        /\ \A u \in Names, q \in Paths : u # "src" \/ q # p => fs'[u][q] = fs[u][q]
    BY <1>0, <1>3, <2>1, PutNode, NodeKinds DEF Names
  <2>3. InodesApart' BY <1>0, <2>2, ApartKept, NodeKinds
  <2>4. (fs["src"][p] = Dir) \in BOOLEAN OBVIOUS
  <2> QED BY <1>0, <1>3, <2>1, <2>2, <2>3, <2>4, RemovedType
<1>4. ASSUME UNCHANGED <<fs, queue, missed>>
      PROVE  fs' \in [Names -> Trees] /\ InodesApart' /\ queue' \in Seq(Events) /\ missed' \in SUBSET Paths
  BY <1>0, <1>4, ApartSame
<1>5. CASE CheckMissing
  <2>1. toRemove # <<>> BY <1>5 DEF CheckMissing, Checking
  <2>2. p \in Paths /\ Tail(toRemove) \in Seq(Removals) BY <1>0, <2>1, HeadRemoval
  <2>3. toRemove' \in Seq(Removals)
    <3>1. CASE toRemove' = Tail(toRemove) BY <2>2, <3>1
    <3>2. CASE \E tasks \in Listings("check", Children(fs["src"], p)) :
                 toRemove' = tasks \o <<[do |-> "rmdir", path |-> p]>> \o Tail(toRemove)
      <4> DEFINE task == [do |-> "rmdir", path |-> p]
      <4>1. PICK tasks \in Listings("check", Children(fs["src"], p)) :
                   toRemove' = tasks \o <<task>> \o Tail(toRemove)
        BY <3>2
      <4>2. tasks \in Seq(Removals) BY CheckListing DEF Children
      <4>3. task \in Removals BY <2>2 DEF Removals
      <4> HIDE DEF task
      <4>4. <<task>> \in Seq(Removals) BY <4>3
      <4>5. tasks \o <<task>> \in Seq(Removals) BY <4>2, <4>4, ConcatProperties
      <4> QED BY <2>2, <4>1, <4>5, ConcatProperties
    <3> QED BY <1>5, <3>1, <3>2 DEF CheckMissing
  <2>4. fs' \in [Names -> Trees] /\ InodesApart' /\ queue' \in Seq(Events) /\ missed' \in SUBSET Paths
    <3>1. UNCHANGED <<fs, queue, missed>> \/ (IsFile(fs["src"][p]) /\ RemoveEntry(p))
      BY <1>5 DEF CheckMissing
    <3> QED BY <1>3, <1>4, <2>2, <3>1, NodeKinds
  <2>5. RestoreOnly /\ pc' = pc /\ pc = "removing" BY <1>5 DEF CheckMissing, Checking
  <2> QED BY <2>3, <2>4, <2>5, RemoveBasic
<1>6. CASE RemoveDirectory
  <2>1. toRemove # <<>> BY <1>6 DEF RemoveDirectory
  <2>2. p \in Paths /\ Tail(toRemove) \in Seq(Removals) BY <1>0, <2>1, HeadRemoval
  <2>3. fs' \in [Names -> Trees] /\ InodesApart' /\ queue' \in Seq(Events) /\ missed' \in SUBSET Paths
    <3>1. UNCHANGED <<fs, queue, missed>> \/ (Children(fs["src"], p) = {} /\ RemoveEntry(p))
      BY <1>6 DEF RemoveDirectory
    <3> QED BY <1>3, <1>4, <2>2, <3>1
  <2>4. RestoreOnly /\ pc' = pc /\ pc = "removing" /\ toRemove' = Tail(toRemove)
    BY <1>6 DEF RemoveDirectory
  <2> QED BY <2>2, <2>3, <2>4, RemoveBasic
<1>7. CASE Finished
  <2>1. InodesApart' BY <1>0, <1>7, ApartSame DEF Finished
  <2> QED BY <1>0, <1>7, <2>1, RemoveBasic DEF Finished
<1> QED BY <1>1, <1>2, <1>5, <1>6, <1>7

\* So every step does.
LEMMA NextKeepsBasic == ASSUME Basic, [Next]_vars PROVE Basic'
<1>1. CASE User BY <1>1, UserKeepsBasic
<1>2. CASE Worker BY <1>2, WorkerKeepsBasic
<1>3. CASE Supervisor
  BY <1>3, CopyKeepsBasic, RemoveKeepsBasic, CopierNames DEF Supervisor
<1>4. CASE End \/ StartAgain \/ Restore BY <1>4, CommandsKeepBasic
<1>5. CASE UNCHANGED vars BY <1>5, SameBasic
<1> QED BY <1>1, <1>2, <1>3, <1>4, <1>5 DEF Next

\* The first state is well formed.
LEMMA InitBasic == ASSUME Init PROVE Basic
<1> DEFINE numbered == SetToSeq(StartFiles)
           start(p) == CHOOSE i \in DOMAIN numbered : numbered[i] = p
<1>1. /\ IsFiniteSet(StartFiles) /\ Cardinality(StartFiles) \in Nat
      /\ Cardinality(StartFiles) <= Cardinality(Files) /\ StartFiles \subseteq Paths
  <2>1. StartFiles \in SUBSET Files BY MirrorAssumption
  <2>2. IsFiniteSet(StartFiles) /\ Cardinality(StartFiles) <= Cardinality(Files) BY <2>1, Numbers, FS_Subset
  <2> QED BY <2>1, <2>2, FS_CardinalityType, MirrorAssumption
<1>2. /\ numbered \in Seq(StartFiles) /\ Len(numbered) = Cardinality(StartFiles)
      /\ \A p \in StartFiles : \E i \in DOMAIN numbered : numbered[i] = p
  BY <1>1, SetToSeqType
<1>3. DOMAIN numbered \subseteq Inodes
  <2>1. DOMAIN numbered = 1 .. Cardinality(StartFiles) BY <1>2
  <2> HIDE DEF numbered
  <2> QED BY <1>1, <2>1, Numbers
<1>4. \A p \in StartFiles : start(p) \in Inodes /\ numbered[start(p)] = p
  <2> HIDE DEF numbered
  <2> QED BY <1>2, <1>3
<1>5. Initially = [p \in Paths |-> IF p \in StartFiles THEN start(p)
                                    ELSE IF p \in StartDirs THEN Dir ELSE Absent]
  BY DEF Initially
<1> HIDE DEF numbered, start
<1>a. StartFiles \cap StartDirs = {} BY <1>1, PrefixOrder DEF StartDirs
<1>6. /\ Initially \in [Paths -> Nodes]
      /\ \A p \in Paths : /\ p \in StartFiles => Initially[p] = start(p)
                          /\ p \notin StartFiles => Initially[p] \in {Absent, Dir}
                          /\ Initially[p] = Dir <=> p \in StartDirs
  <2>1. Initially \in [Paths -> Nodes] BY <1>4, <1>5, NodeKinds
  <2>2. ASSUME NEW p \in Paths
        PROVE  /\ p \in StartFiles => Initially[p] = start(p)
               /\ p \notin StartFiles => Initially[p] \in {Absent, Dir}
               /\ Initially[p] = Dir <=> p \in StartDirs
    <3>1. Initially[p] = IF p \in StartFiles THEN start(p) ELSE IF p \in StartDirs THEN Dir ELSE Absent
      BY <1>5
    <3>2. p \in StartFiles => start(p) # Dir /\ p \notin StartDirs BY <1>4, <1>a, NodeKinds DEF IsFile
    <3>3. Absent # Dir BY NodeKinds
    <3> QED BY <3>1, <3>2, <3>3
  <2> QED BY <2>1, <2>2
<1>7. Initially \in Trees
  <2>1. ASSUME NEW p \in Paths, NEW q \in Paths, Initially[p] # Absent, IsStrictPrefix(q, p)
        PROVE  Initially[q] = Dir
    <3>1. p \in StartFiles \/ p \in StartDirs BY <1>6, <2>1
    <3>2. IsPrefix(q, p) /\ q # p BY <2>1 DEF IsStrictPrefix
    <3>3. ASSUME NEW r \in StartFiles PROVE ~IsPrefix(r, q)
      <4> SUFFICES ASSUME IsPrefix(r, q) PROVE FALSE OBVIOUS
      <4>1. IsPrefix(r, p) /\ r \in Paths BY <1>1, <3>2, PrefixOrder
      <4>2. p \in StartFiles BY <3>1, <4>1 DEF StartDirs
      <4>3. r # p BY <1>1, <3>2, PrefixOrder
      <4> QED BY <4>1, <4>2, <4>3, MirrorAssumption DEF IsStrictPrefix
    <3> QED BY <1>6, <3>3 DEF StartDirs
  <2> QED BY <1>6, <2>1, TreeMeans
<1> DEFINE empty == [p \in Paths |-> IF p = Root THEN Dir ELSE Absent]
<1>8. empty \in Trees
  <2>1. empty \in [Paths -> Nodes] BY NodeKinds
  <2>2. ASSUME NEW p \in Paths, NEW q \in Paths, empty[p] # Absent, IsStrictPrefix(q, p) PROVE FALSE
    <3>1. p = Root BY <2>2
    <3> QED BY <2>2, <3>1, RootPrefix, PrefixOrder DEF IsStrictPrefix
  <2> QED BY <2>1, <2>2, TreeMeans
<1>9. fs = [src |-> Initially, dst |-> empty] BY DEF Init
<1>10. \A p \in Paths : ~IsFile(fs["dst"][p]) BY <1>9, NodeKinds
<1> HIDE DEF empty
<1>11. fs \in [Names -> Trees] /\ fs["src"] = Initially BY <1>7, <1>8, <1>9 DEF Names
<1>12. data \in [Inodes -> Contents]
  <2>1. 0 \in Contents /\ 1 \in Contents BY MirrorAssumption DEF Contents
  <2> QED BY <2>1 DEF Init
<1>13. todo \in [Copiers -> Seq(Tasks)] /\ todo["restore"] = <<>>
  <2> DEFINE make == <<Task("make", Root)>>
  <2>1. make \in Seq(Tasks) /\ <<>> \in Seq(Tasks) BY TaskType, OneTask, RootPrefix
  <2> DEFINE none == <<>>
  <2>2. todo = [worker |-> make, restore |-> none] BY DEF Init
  <2>3. none \in Seq(Tasks) BY <2>1
  <2> HIDE DEF make, none
  <2>4. todo \in [Copiers -> Seq(Tasks)] /\ todo["restore"] = none BY <2>1, <2>2, <2>3 DEF Copiers
  <2> QED BY <2>4 DEF none
<1>14. goal \in [Paths -> Views]
  <2>1. goal = [p \in Paths |-> View("dst", p)] BY DEF Init
  <2>2. ASSUME NEW p \in Paths PROVE View("dst", p) \in Views
    <3>1. 0 \in Contents BY MirrorAssumption DEF Contents
    <3>2. View("dst", p).content = 0 /\ View("dst", p) \in [kind : {"absent", "dir", "file"}, content : {0}]
      BY <1>10 DEF View
    <3> QED BY <3>1, <3>2 DEF Views
  <2> QED BY <2>1, <2>2
<1>15. /\ file \in [Copiers -> OpenFiles \cup {NoFile}] /\ file["restore"] = NoFile
       /\ stage = "sync" /\ toWatch = <<>> /\ watched = {} /\ queue = <<>> /\ active = TRUE
       /\ pc = "idle" /\ toRemove = <<>> /\ ops = 0 /\ commands = 0 /\ listed = {} /\ missed = {}
       /\ leftover = {} /\ mode = "racing"
  BY DEF Init, Copiers
<1>16. TypeOK
  <2>1. <<>> \in Seq(Paths) /\ <<>> \in Seq(Events) /\ <<>> \in Seq(Removals) OBVIOUS
  <2>2. 0 \in 0 .. MaxOps /\ 0 \in 0 .. MaxCommands BY MirrorAssumption
  <2> QED BY <1>11, <1>12, <1>13, <1>14, <1>15, <2>1, <2>2 DEF TypeOK, Names
<1>17. InodesApart
  <2>1. ASSUME NEW p \in Paths, IsFile(fs["src"][p]) PROVE p \in StartFiles /\ p \in Files
    BY <1>6, <1>11, <2>1, NodeKinds, MirrorAssumption
  <2>2. ASSUME NEW t \in Names, NEW u \in Names, NEW p \in Paths, NEW q \in Paths,
               IsFile(fs[t][p]), fs[t][p] = fs[u][q]
        PROVE  t = u /\ p = q
    <3>1. t = "src" /\ u = "src" BY <1>10, <2>2 DEF Names
    <3>2. p \in StartFiles /\ q \in StartFiles BY <2>1, <2>2, <3>1
    <3>3. start(p) = start(q) BY <1>6, <1>11, <2>2, <3>1, <3>2
    <3> QED BY <1>4, <3>1, <3>2, <3>3
  <2> QED BY <1>10, <2>1, <2>2 DEF InodesApart, Names
<1>18. RestoreInv BY <1>13, <1>15 DEF RestoreInv, Idle
<1> QED BY <1>16, <1>17, <1>18 DEF Basic

\* The same view is the same kind of node with the same content.
LEMMA SameMeans ==
  ASSUME Basic, NEW p \in Paths, Same(p)
  PROVE  /\ fs["src"][p] = Absent <=> fs["dst"][p] = Absent
         /\ fs["src"][p] = Dir <=> fs["dst"][p] = Dir
         /\ IsFile(fs["src"][p]) <=> IsFile(fs["dst"][p])
         /\ IsFile(fs["src"][p]) => data[fs["src"][p]] = data[fs["dst"][p]]
<1>1. /\ \A t \in Names : fs[t][p] = Absent \/ fs[t][p] = Dir \/ IsFile(fs[t][p])
      /\ Absent # Dir /\ ~IsFile(Absent) /\ ~IsFile(Dir)
  BY TreesOf, NodeKinds DEF Basic, IsFile
<1>2. /\ View("src", p).kind = View("dst", p).kind /\ View("src", p).content = View("dst", p).content
  BY DEF Same
<1>3. \A t \in Names : /\ View(t, p).kind = "absent" <=> fs[t][p] = Absent
                       /\ View(t, p).kind = "dir" <=> fs[t][p] = Dir
                       /\ View(t, p).kind = "file" <=> IsFile(fs[t][p])
                       /\ IsFile(fs[t][p]) => View(t, p).content = data[fs[t][p]]
  BY <1>1 DEF View
<1> QED BY <1>2, <1>3 DEF Names

\* What stays under way when nothing changes in the trees.
LEMMA SettledStays ==
  ASSUME Basic, Settled, fs' = fs, data' = data,
         queue' \in Seq(EmptyEvents), todo'["worker"] \in Seq(EmptyCopies), todo'["restore"] \in Seq(Present),
         \A c \in Copiers : file'[c] # NoFile =>
            /\ Empty(file'[c].path)
            /\ data[file'[c].from] = 0 /\ data[file'[c].to] = 0 /\ file'[c].buffer = 0,
         pc' = "removing" => toRemove' \in Seq(Checks)
  PROVE  Settled'
<1>1. EmptyEvents' = EmptyEvents /\ EmptyCopies' = EmptyCopies /\ Present' = Present
  BY DEF EmptyEvents, EmptyCopies, Present, Empty
<1>2. \A p \in Paths : Same(p)' BY DEF Settled, Same, View
<1>3. \A p : Empty(p)' = Empty(p) BY DEF Empty
<1> QED BY <1>1, <1>2, <1>3 DEF Settled, Checks

\* A change of an empty file adds an event of an empty file.
LEMMA QueuedEmpty ==
  ASSUME queue \in Seq(EmptyEvents), NEW p \in Paths, Empty(p), Changed(p, FALSE)
  PROVE  queue' \in Seq(EmptyEvents)
<1> DEFINE e == Event("changed", p, FALSE)
<1>1. e \in EmptyEvents
  <2>1. Event("changed", p, FALSE) \in Events BY p \in Paths DEF Event, Events
  <2>2. e.kind = "changed" /\ e.path = p /\ ~e.isdir BY DEF Event
  <2>3. e \in Events BY <2>1
  <2> HIDE DEF e
  <2> QED BY <2>2, <2>3 DEF EmptyEvents
<1>2. queue' = Queued(queue, e) BY DEF Changed
<1> HIDE DEF e
<1>3. Append(queue, e) \in Seq(EmptyEvents) BY <1>1, AppendProperties
<1> QED BY <1>2, <1>3 DEF Queued

\* A walk that is given up, beside a worker at rest.
LEMMA SettledFails ==
  ASSUME Basic, Settled, NEW c \in Copiers, Fails(c), mode' = "settled"
  PROVE  SettledInv' /\ fs' = fs /\ data' = data
<1>1. fs' = fs /\ data' = data /\ file' = file /\ queue' = queue /\ toRemove' = toRemove
  BY DEF Fails, trees
<1>2. CASE c = "restore" BY <1>1, <1>2 DEF Fails, SettledInv
<1>3. CASE c = "worker"
  <2>1. pc' = pc /\ todo' = [todo EXCEPT !["worker"] = <<>>] BY <1>3 DEF Fails
  <2>2. todo'["worker"] = <<>> /\ todo'["restore"] = todo["restore"]
    BY <2>1 DEF Basic, TypeOK, Copiers
  <2>3. <<>> \in Seq(EmptyCopies) OBVIOUS
  <2>4. /\ queue' \in Seq(EmptyEvents) /\ todo'["restore"] \in Seq(Present)
        /\ \A d \in Copiers : file'[d] # NoFile =>
             /\ Empty(file'[d].path)
             /\ data[file'[d].from] = 0 /\ data[file'[d].to] = 0 /\ file'[d].buffer = 0
        /\ pc' = "removing" => toRemove' \in Seq(Checks)
    BY <1>1, <2>1, <2>2 DEF Settled
  <2>5. Settled' BY <1>1, <2>2, <2>3, <2>4, SettledStays
  <2> QED BY <1>1, <2>5 DEF SettledInv
<1> QED BY <1>2, <1>3, CopierNames

\* The first element of a sequence over a set, and the others, are in the set.
LEMMA TailIn == ASSUME NEW S, NEW s \in Seq(S), s # <<>> PROVE Head(s) \in S /\ Tail(s) \in Seq(S)
BY HeadTailProperties

\* The calls of a copier after one of its own steps.
LEMMA ThenIn ==
  ASSUME Basic, NEW c \in Copiers, NEW tasks, Then(c, tasks)
  PROVE  todo'[c] = tasks \o Tail(todo[c]) /\ \A d \in Copiers : d # c => todo'[d] = todo[d]
BY DEF Basic, TypeOK, Then

\* Two sequences over a set make one.
LEMMA TwoIn == ASSUME NEW S, NEW s \in Seq(S), NEW t \in Seq(S) PROVE s \o t \in Seq(S)
BY ConcatProperties

\* The worker copies empty files to empty files.
LEMMA SettledWorkerCopies ==
  ASSUME Basic, Settled, Copy("worker"), mode' = "settled"
  PROVE  SettledInv' /\ fs' = fs /\ data' = data
<1> DEFINE c == "worker"
           p == At(c)
<1>0. /\ From[c] = "src" /\ To[c] = "dst" /\ Source(c) = fs["src"] /\ Dest(c) = fs["dst"] /\ c \in Copiers
      /\ "src" # "dst" /\ "restore" \in Copiers /\ \A d \in Copiers : d = c \/ d = "restore"
  BY CopierNames DEF Source, Dest
<1>1. \A do : Doing(c, do) => /\ do = "copy" /\ p \in Paths /\ Empty(p) /\ Same(p)
                              /\ Tail(todo[c]) \in Seq(EmptyCopies) /\ todo[c] # <<>>
  <2> SUFFICES ASSUME NEW do, Doing(c, do)
               PROVE /\ do = "copy" /\ p \in Paths /\ Empty(p) /\ Same(p)
                     /\ Tail(todo[c]) \in Seq(EmptyCopies) /\ todo[c] # <<>>
    OBVIOUS
  <2>1. todo[c] # <<>> /\ Head(todo[c]).do = do BY DEF Doing
  <2>2. Head(todo[c]) \in EmptyCopies /\ Tail(todo[c]) \in Seq(EmptyCopies)
    BY <2>1, TailIn DEF Settled
  <2>3. p \in Paths BY <1>0, <2>1, HeadTask DEF Basic
  <2> QED BY <2>1, <2>2, <2>3 DEF EmptyCopies, Settled, At
<1>2. ASSUME Empty(p), p \in Paths, Same(p)
      PROVE  /\ IsFile(fs["src"][p]) /\ IsFile(fs["dst"][p])
             /\ fs["src"][p] # Dir /\ data[fs["src"][p]] = 0 /\ data[fs["dst"][p]] = 0
             /\ fs["src"][p] # Absent
  BY <1>2, SameMeans, NodeKinds DEF Empty
<1>3. /\ queue \in Seq(EmptyEvents) /\ todo["worker"] \in Seq(EmptyCopies)
      /\ todo["restore"] \in Seq(Present)
      /\ \A d \in Copiers : file[d] # NoFile =>
            /\ Empty(file[d].path)
            /\ data[file[d].from] = 0 /\ data[file[d].to] = 0 /\ file[d].buffer = 0
      /\ pc = "removing" => toRemove \in Seq(Checks)
  BY DEF Settled
<1> HIDE DEF c, p
<1>4. CASE EntryGone(c) \/ MakeFails(c) \/ ListFails(c) \/ OpenFails(c)
  BY <1>0, <1>4, SettledFails DEF EntryGone, MakeFails, ListFails, OpenFails
<1>5. ~EnterDirectory(c) /\ ~MakeDirectory(c) /\ ~ListDirectory(c) /\ ~SkipFile(c)
  <2>1. ~EnterDirectory(c) BY <1>0, <1>1, <1>2 DEF EnterDirectory, p
  <2>2. ~MakeDirectory(c) /\ ~ListDirectory(c) 
    <3>1. ~Doing(c, "make") /\ ~Doing(c, "list") BY <1>1
    <3> QED BY <3>1 DEF MakeDirectory, ListDirectory
  <2>3. ~SkipFile(c) BY DEF SkipFile, Unchanged, c
  <2> QED BY <2>1, <2>2, <2>3
<1>6. CASE OpenFile(c)
  <2>1. Doing(c, "copy") BY <1>6 DEF OpenFile
  <2>2. p \in Paths /\ Empty(p) /\ Same(p) /\ Tail(todo[c]) \in Seq(EmptyCopies) BY <1>1, <2>1
  <2>3. /\ IsFile(fs["src"][p]) /\ IsFile(fs["dst"][p])
        /\ data[fs["src"][p]] = 0 /\ data[fs["dst"][p]] = 0
    BY <1>2, <2>2
  <2>4. /\ fs' = [fs EXCEPT !["dst"][p] = fs["dst"][p]] /\ data' = [data EXCEPT ![fs["dst"][p]] = 0]
        /\ file' = [file EXCEPT ![c] = [path |-> p, from |-> fs["src"][p], to |-> fs["dst"][p],
                                        buffer |-> 0, read |-> FALSE]]
        /\ Then(c, <<>>) /\ queue' = queue /\ pc' = pc /\ toRemove' = toRemove
    BY <1>0, <1>6, <2>3 DEF OpenFile, p, CopierOnly
  <2>5. fs' = fs /\ data' = data
    <3>1. fs \in [Names -> Trees] /\ fs["dst"] \in [Paths -> Nodes] BY TreesOf DEF Basic, Names
    <3>2. [fs["dst"] EXCEPT ![p] = fs["dst"][p]] = fs["dst"] BY <2>2, <3>1
    <3>3. fs' = [fs EXCEPT !["dst"] = [fs["dst"] EXCEPT ![p] = fs["dst"][p]]] BY <2>4
    <3>4. fs' = [fs EXCEPT !["dst"] = fs["dst"]] BY <3>2, <3>3
    <3>5. fs' = fs BY <3>1, <3>4 DEF Names
    <3>6. data' = data BY <2>3, <2>4 DEF Basic, TypeOK, IsFile
    <3> QED BY <3>5, <3>6
  <2>6. todo'[c] \in Seq(EmptyCopies) /\ todo'["restore"] = todo["restore"]
    <3>1. todo'[c] = <<>> \o Tail(todo[c]) /\ todo'["restore"] = todo["restore"]
      BY <1>0, <2>4, ThenIn DEF c
    <3> QED BY <2>2, <3>1, ConcatEmptySeq
  <2>7. \A d \in Copiers : file'[d] # NoFile =>
            /\ Empty(file'[d].path)
            /\ data[file'[d].from] = 0 /\ data[file'[d].to] = 0 /\ file'[d].buffer = 0
    <3>1. file'[c].path = p /\ file'[c].from = fs["src"][p] /\ file'[c].to = fs["dst"][p] /\ file'[c].buffer = 0
      BY <1>0, <2>4 DEF Basic, TypeOK
    <3>2. file'["restore"] = file["restore"] BY <1>0, <2>4 DEF Basic, TypeOK, c
    <3> QED BY <1>0, <1>3, <2>2, <2>3, <3>1, <3>2
  <2>8. Settled' BY <1>3, <2>4, <2>5, <2>6, <2>7, SettledStays DEF c
  <2> QED BY <2>5, <2>8 DEF SettledInv
<1>7. CASE ReadFile(c)
  <2>1. /\ file[c] # NoFile /\ file' = [file EXCEPT ![c].read = TRUE, ![c].buffer = data[file[c].from]]
        /\ fs' = fs /\ data' = data /\ queue' = queue /\ todo' = todo /\ pc' = pc /\ toRemove' = toRemove
    BY <1>7 DEF ReadFile, CopierOnly, SameWorker, trees
  <2>2. file[c] \in OpenFiles BY <1>0, <2>1 DEF Basic, TypeOK
  <2>3. file'[c].path = file[c].path /\ file'[c].from = file[c].from /\ file'[c].to = file[c].to
        /\ file'[c].buffer = data[file[c].from] /\ file'["restore"] = file["restore"]
    BY <1>0, <2>1, <2>2 DEF Basic, TypeOK, OpenFiles, c
  <2>4. \A d \in Copiers : file'[d] # NoFile =>
            /\ Empty(file'[d].path)
            /\ data[file'[d].from] = 0 /\ data[file'[d].to] = 0 /\ file'[d].buffer = 0
    BY <1>0, <1>3, <2>1, <2>3
  <2>5. Settled' BY <1>3, <2>1, <2>4, SettledStays
  <2> QED BY <2>1, <2>5 DEF SettledInv
<1>8. CASE WriteFile(c)
  <2>1. /\ file[c] # NoFile /\ file' = [file EXCEPT ![c] = NoFile]
        /\ fs' = fs /\ queue' = queue /\ todo' = todo /\ pc' = pc /\ toRemove' = toRemove
        /\ (file[c].buffer = 0 => data' = data)
    BY <1>0, <1>8 DEF WriteFile, CopierOnly
  <2>2. data' = data BY <1>0, <1>3, <2>1
  <2>3. file'[c] = NoFile /\ file'["restore"] = file["restore"]
    BY <1>0, <2>1 DEF Basic, TypeOK, c
  <2>4. \A d \in Copiers : file'[d] # NoFile =>
            /\ Empty(file'[d].path)
            /\ data[file'[d].from] = 0 /\ data[file'[d].to] = 0 /\ file'[d].buffer = 0
    BY <1>0, <1>3, <2>3
  <2>5. Settled' BY <1>3, <2>1, <2>2, <2>4, SettledStays
  <2> QED BY <2>1, <2>2, <2>5 DEF SettledInv
<1> QED BY <1>4, <1>5, <1>6, <1>7, <1>8 DEF Copy, c

\* Beside a worker at rest, restore copies what is there already.
LEMMA SettledRestoreCopies ==
  ASSUME Basic, Settled, Copy("restore"), mode' = "settled"
  PROVE  SettledInv' /\ fs' = fs /\ data' = data
<1> DEFINE c == "restore"
           p == At(c)
<1>0. /\ From[c] = "dst" /\ To[c] = "src" /\ Source(c) = fs["dst"] /\ Dest(c) = fs["src"] /\ c \in Copiers
      /\ "worker" \in Copiers /\ c # "worker" /\ \A d \in Copiers : d = c \/ d = "worker"
  BY CopierNames DEF Source, Dest
<1>1. \A do : Doing(c, do) => /\ p \in Paths /\ Same(p) /\ Head(todo[c]) \in Present /\ Head(todo[c]).do = do
                              /\ Tail(todo[c]) \in Seq(Present) /\ todo[c] # <<>>
  <2> SUFFICES ASSUME NEW do, Doing(c, do)
               PROVE /\ p \in Paths /\ Same(p) /\ Head(todo[c]) \in Present /\ Head(todo[c]).do = do
                     /\ Tail(todo[c]) \in Seq(Present) /\ todo[c] # <<>>
    OBVIOUS
  <2>1. todo[c] # <<>> /\ Head(todo[c]).do = do BY DEF Doing
  <2>2. Head(todo[c]) \in Present /\ Tail(todo[c]) \in Seq(Present)
    BY <2>1, TailIn DEF Settled
  <2>3. p \in Paths BY <1>0, <2>1, HeadTask DEF Basic
  <2> QED BY <2>1, <2>2, <2>3 DEF Settled
<1>2. \A do \in {"make", "list"} : Doing(c, do) => fs["src"][p] # Absent
  BY <1>1 DEF Present, At
<1>3. /\ queue \in Seq(EmptyEvents) /\ todo["worker"] \in Seq(EmptyCopies)
      /\ todo["restore"] \in Seq(Present)
      /\ \A d \in Copiers : file[d] # NoFile =>
            /\ Empty(file[d].path)
            /\ data[file[d].from] = 0 /\ data[file[d].to] = 0 /\ file[d].buffer = 0
      /\ pc = "removing" => toRemove \in Seq(Checks)
  BY DEF Settled
<1>4. ASSUME NEW do, Doing(c, do), NEW tasks \in Seq(Present), Then(c, tasks),
             fs' = fs, data' = data, file' = file, queue' = queue, pc' = pc, toRemove' = toRemove
      PROVE  Settled'
  <2>1. todo'[c] = tasks \o Tail(todo[c]) /\ todo'["worker"] = todo["worker"]
    BY <1>0, <1>4, ThenIn
  <2>2. todo'[c] \in Seq(Present) BY <1>1, <1>4, <2>1, TwoIn
  <2> QED BY <1>3, <1>4, <2>1, <2>2, SettledStays
<1> HIDE DEF c, p
<1>5. CASE EntryGone(c) \/ MakeFails(c) \/ ListFails(c) \/ OpenFails(c)
  BY <1>0, <1>5, SettledFails DEF EntryGone, MakeFails, ListFails, OpenFails
<1>6. CASE EnterDirectory(c)
  <2>1. /\ Doing(c, "copy") /\ fs["dst"][p] = Dir /\ Then(c, <<Task("make", p)>>)
        /\ fs' = fs /\ data' = data /\ file' = file /\ queue' = queue /\ pc' = pc /\ toRemove' = toRemove
    BY <1>0, <1>6 DEF EnterDirectory, CopierOnly, SameWorker, trees, p
  <2>2. fs["src"][p] # Absent BY <1>1, <2>1, SameMeans, NodeKinds
  <2>3. Task("make", p) \in Present
    BY <1>1, <2>1, <2>2, TaskType DEF Present
  <2>4. <<Task("make", p)>> \in Seq(Present) BY <2>3
  <2>5. Settled' BY <1>4, <2>1, <2>4
  <2> QED BY <2>1, <2>5 DEF SettledInv
<1>7. CASE MakeDirectory(c)
  <2>1. Doing(c, "make") /\ fs["src"][p] # Absent BY <1>2, <1>7 DEF MakeDirectory
  <2>2. /\ Then(c, <<Task("list", p)>>)
        /\ fs' = fs /\ data' = data /\ file' = file /\ queue' = queue /\ pc' = pc /\ toRemove' = toRemove
    BY <1>0, <1>7, <2>1 DEF MakeDirectory, CopierOnly, p
  <2>3. Task("list", p) \in Present
    BY <1>1, <2>1, TaskType DEF Present
  <2>4. <<Task("list", p)>> \in Seq(Present) BY <2>3
  <2>5. Settled' BY <1>4, <2>1, <2>2, <2>4
  <2> QED BY <2>2, <2>5 DEF SettledInv
<1>8. CASE ListDirectory(c)
  <2>1. Doing(c, "list") BY <1>8 DEF ListDirectory
  <2>2. PICK tasks \in Listings("copy", Children(fs["dst"], p)) : Then(c, tasks)
    BY <1>0, <1>8 DEF ListDirectory, p
  <2>3. fs' = fs /\ data' = data /\ file' = file /\ queue' = queue /\ pc' = pc /\ toRemove' = toRemove
    BY <1>8 DEF ListDirectory, CopierOnly, trees
  <2>4. tasks \in Seq(Present)
    <3> DEFINE S == Children(fs["dst"], p)
               T == [do : {"copy"}, path : S]
    <3>1. S \in SUBSET Paths /\ IsFiniteSet(S)
      <4>1. S \in SUBSET Paths BY DEF Children
      <4> QED BY <4>1, Numbers, FS_Subset
    <3> HIDE DEF S
    <3>2. tasks \in Seq(T) BY <2>2, <3>1, ListingMeans DEF S
    <3>3. T \subseteq Present BY <3>1 DEF Present, Tasks
    <3> HIDE DEF T
    <3> QED BY <3>2, <3>3, SeqMonotonic
  <2>5. Settled' BY <1>4, <2>1, <2>2, <2>3, <2>4
  <2> QED BY <2>3, <2>5 DEF SettledInv
<1>9. CASE SkipFile(c)
  <2>1. /\ Doing(c, "copy") /\ Then(c, <<>>)
        /\ fs' = fs /\ data' = data /\ file' = file /\ queue' = queue /\ pc' = pc /\ toRemove' = toRemove
    BY <1>9 DEF SkipFile, CopierOnly, SameWorker, trees
  <2>2. <<>> \in Seq(Present) OBVIOUS
  <2>3. Settled' BY <1>4, <2>1, <2>2
  <2> QED BY <2>1, <2>3 DEF SettledInv
<1>10. CASE OpenFile(c)
  <2>1. Doing(c, "copy") /\ IsFile(fs["dst"][p]) /\ ~Unchanged(c) BY <1>0, <1>10 DEF OpenFile, p
  <2>2. p \in Paths /\ Same(p) /\ Tail(todo[c]) \in Seq(Present) BY <1>1, <2>1
  <2>3. IsFile(fs["src"][p]) /\ data[fs["src"][p]] = data[fs["dst"][p]] BY <2>1, <2>2, SameMeans
  <2>4. data[fs["src"][p]] = 0 /\ data[fs["dst"][p]] = 0
    BY <1>0, <2>1, <2>3 DEF Unchanged, Hashes, p, c
  <2>5. Empty(p) BY <2>3, <2>4 DEF Empty
  <2>6. /\ fs' = [fs EXCEPT !["src"][p] = fs["src"][p]] /\ data' = [data EXCEPT ![fs["src"][p]] = 0]
        /\ file' = [file EXCEPT ![c] = [path |-> p, from |-> fs["dst"][p], to |-> fs["src"][p],
                                        buffer |-> 0, read |-> FALSE]]
        /\ Then(c, <<>>) /\ Changed(p, FALSE) /\ pc' = pc /\ toRemove' = toRemove
    BY <1>0, <1>10, <2>3 DEF OpenFile, p, CopierOnly
  <2>7. fs' = fs /\ data' = data
    <3>1. fs \in [Names -> Trees] /\ fs["src"] \in [Paths -> Nodes] BY TreesOf DEF Basic, Names
    <3>2. [fs["src"] EXCEPT ![p] = fs["src"][p]] = fs["src"] BY <2>2, <3>1
    <3>3. fs' = [fs EXCEPT !["src"] = [fs["src"] EXCEPT ![p] = fs["src"][p]]] BY <2>6
    <3>4. fs' = [fs EXCEPT !["src"] = fs["src"]] BY <3>2, <3>3
    <3>5. fs' = fs BY <3>1, <3>4 DEF Names
    <3>6. data' = data BY <2>3, <2>4, <2>6 DEF Basic, TypeOK, IsFile
    <3> QED BY <3>5, <3>6
  <2>8. todo'[c] \in Seq(Present) /\ todo'["worker"] = todo["worker"]
    <3>1. todo'[c] = <<>> \o Tail(todo[c]) /\ todo'["worker"] = todo["worker"]
      BY <1>0, <2>6, ThenIn
    <3> QED BY <2>2, <3>1, ConcatEmptySeq
  <2>9. \A d \in Copiers : file'[d] # NoFile =>
            /\ Empty(file'[d].path)
            /\ data[file'[d].from] = 0 /\ data[file'[d].to] = 0 /\ file'[d].buffer = 0
    <3>1. file'[c].path = p /\ file'[c].from = fs["dst"][p] /\ file'[c].to = fs["src"][p] /\ file'[c].buffer = 0
      BY <1>0, <2>6 DEF Basic, TypeOK
    <3>2. file'["worker"] = file["worker"] BY <1>0, <2>6 DEF Basic, TypeOK
    <3> QED BY <1>0, <1>3, <2>4, <2>5, <3>1, <3>2
  <2>10. queue' \in Seq(EmptyEvents) BY <1>3, <2>2, <2>5, <2>6, QueuedEmpty
  <2>11. Settled' BY <1>3, <2>6, <2>7, <2>8, <2>9, <2>10, SettledStays DEF c
  <2> QED BY <2>7, <2>11 DEF SettledInv
<1>11. CASE ReadFile(c)
  <2>1. /\ file[c] # NoFile /\ file' = [file EXCEPT ![c].read = TRUE, ![c].buffer = data[file[c].from]]
        /\ fs' = fs /\ data' = data /\ queue' = queue /\ todo' = todo /\ pc' = pc /\ toRemove' = toRemove
    BY <1>11 DEF ReadFile, CopierOnly, SameWorker, trees
  <2>2. file[c] \in OpenFiles BY <1>0, <2>1 DEF Basic, TypeOK
  <2>3. file'[c].path = file[c].path /\ file'[c].from = file[c].from /\ file'[c].to = file[c].to
        /\ file'[c].buffer = data[file[c].from] /\ file'["worker"] = file["worker"]
    BY <1>0, <2>1, <2>2 DEF Basic, TypeOK, OpenFiles
  <2>4. \A d \in Copiers : file'[d] # NoFile =>
            /\ Empty(file'[d].path)
            /\ data[file'[d].from] = 0 /\ data[file'[d].to] = 0 /\ file'[d].buffer = 0
    BY <1>0, <1>3, <2>1, <2>3
  <2>5. Settled' BY <1>3, <2>1, <2>4, SettledStays
  <2> QED BY <2>1, <2>5 DEF SettledInv
<1>12. CASE WriteFile(c)
  <2>1. /\ file[c] # NoFile /\ file' = [file EXCEPT ![c] = NoFile]
        /\ Changed(file[c].path, FALSE) \/ queue' = queue
        /\ fs' = fs /\ todo' = todo /\ pc' = pc /\ toRemove' = toRemove
        /\ (file[c].buffer = 0 => data' = data)
    BY <1>0, <1>12 DEF WriteFile, CopierOnly
  <2>2. data' = data BY <1>0, <1>3, <2>1
  <2>3. file'[c] = NoFile /\ file'["worker"] = file["worker"]
    BY <1>0, <2>1 DEF Basic, TypeOK
  <2>4. \A d \in Copiers : file'[d] # NoFile =>
            /\ Empty(file'[d].path)
            /\ data[file'[d].from] = 0 /\ data[file'[d].to] = 0 /\ file'[d].buffer = 0
    BY <1>0, <1>3, <2>3
  <2>5. file[c].path \in Paths BY <1>0, <2>1 DEF Basic, TypeOK, OpenFiles
  <2>6. queue' \in Seq(EmptyEvents) BY <1>0, <1>3, <2>1, <2>5, QueuedEmpty
  <2>7. Settled' BY <1>3, <2>1, <2>2, <2>4, <2>6, SettledStays
  <2> QED BY <2>1, <2>2, <2>7 DEF SettledInv
<1> QED BY <1>5, <1>6, <1>7, <1>8, <1>9, <1>10, <1>11, <1>12 DEF Copy, c

\* The worker handles changes of empty files, and nothing else.
LEMMA SettledWorker ==
  ASSUME Basic, Settled, Worker, mode' = "settled"
  PROVE  SettledInv' /\ fs' = fs /\ data' = data
<1>0. /\ queue \in Seq(EmptyEvents) /\ todo["worker"] \in Seq(EmptyCopies)
      /\ todo["restore"] \in Seq(Present)
      /\ \A d \in Copiers : file[d] # NoFile =>
            /\ Empty(file[d].path)
            /\ data[file[d].from] = 0 /\ data[file[d].to] = 0 /\ file[d].buffer = 0
      /\ pc = "removing" => toRemove \in Seq(Checks)
  BY DEF Settled
<1>1. CASE Copy("worker") BY <1>1, SettledWorkerCopies
<1>2. CASE StartLoop \/ WatchDirectory
  <2>1. /\ fs' = fs /\ data' = data /\ file' = file /\ queue' = queue /\ todo' = todo /\ pc' = pc
        /\ toRemove' = toRemove
    BY <1>2 DEF StartLoop, WatchDirectory, WorkerOnly, supervisor
  <2>2. Settled' BY <1>0, <2>1, SettledStays
  <2> QED BY <2>1, <2>2 DEF SettledInv
<1>3. queue # <<>> => /\ Head(queue) \in EmptyEvents /\ Tail(queue) \in Seq(EmptyEvents)
                      /\ Head(queue).kind = "changed" /\ ~Head(queue).isdir /\ Empty(Head(queue).path)
                      /\ Head(queue).path \in Paths
  <2>1. queue # <<>> => Head(queue) \in EmptyEvents /\ Tail(queue) \in Seq(EmptyEvents) BY <1>0, TailIn
  <2> QED BY <2>1 DEF EmptyEvents, Events
<1>4. ~HandleSelf /\ ~HandleDelete BY <1>3 DEF HandleSelf, HandleDelete, Handling
<1>5. CASE HandleChange
  <2> DEFINE p == Head(queue).path
             task == Task("copy", p)
  <2>1. queue # <<>> BY <1>5 DEF HandleChange, Handling
  <2>2. p \in Paths /\ Empty(p) /\ Tail(queue) \in Seq(EmptyEvents) /\ ~Head(queue).isdir BY <1>3, <2>1
  <2>3. /\ fs' = [fs EXCEPT !["dst"] = WithParents(fs["dst"], p)] /\ todo' = [todo EXCEPT !["worker"] = <<task>>]
        /\ queue' = Tail(queue) /\ data' = data /\ file' = file /\ pc' = pc /\ toRemove' = toRemove
    BY <1>5, <2>2 DEF HandleChange, WorkerOnly, supervisor
  <2>4. task \in EmptyCopies BY <2>2, TaskType DEF EmptyCopies
  <2> HIDE DEF task, p
  <2>5. todo'["worker"] \in Seq(EmptyCopies) /\ todo'["restore"] = todo["restore"]
    <3>1. <<task>> \in Seq(EmptyCopies) BY <2>4
    <3> QED BY <2>3, <3>1 DEF Basic, TypeOK, Copiers
  <2>6. fs["dst"] \in Trees /\ fs \in [Names -> Trees] BY TreesOf DEF Basic, Names
  <2>7. IsFile(fs["dst"][p]) BY <2>2, SameMeans DEF Settled, Empty
  <2>8. \A q \in Paths : IsStrictPrefix(q, p) => fs["dst"][q] # Absent
    BY <2>2, <2>6, <2>7, DirsAbove, NodeKinds
  <2>9. WithParents(fs["dst"], p) = fs["dst"] BY <2>2, <2>6, <2>8, Parents
  <2>10. fs' = fs BY <2>3, <2>6, <2>9 DEF Names
  <2>11. Settled' BY <1>0, <2>2, <2>3, <2>5, <2>10, SettledStays
  <2> QED BY <2>3, <2>10, <2>11 DEF SettledInv
<1> QED BY <1>1, <1>2, <1>4, <1>5 DEF Worker

\* There is nothing to remove.
LEMMA SettledRemoval ==
  ASSUME Basic, Settled, Restored \/ CheckBoth \/ CheckMissing \/ RemoveDirectory \/ Finished
  PROVE  SettledInv' /\ fs' = fs /\ data' = data
<1>0. /\ queue \in Seq(EmptyEvents) /\ todo["worker"] \in Seq(EmptyCopies)
      /\ todo["restore"] \in Seq(Present)
      /\ \A d \in Copiers : file[d] # NoFile =>
            /\ Empty(file[d].path)
            /\ data[file[d].from] = 0 /\ data[file[d].to] = 0 /\ file[d].buffer = 0
      /\ pc = "removing" => toRemove \in Seq(Checks)
  BY DEF Settled
<1>1. data' = data /\ todo' = todo /\ file' = file
  BY DEF Restored, CheckBoth, CheckMissing, RemoveDirectory, Finished, RestoreOnly
<1>2. ASSUME fs' = fs, queue' = queue, toRemove' \in Seq(Checks) PROVE Settled'
  BY <1>0, <1>1, <1>2, SettledStays
<1> DEFINE p == Head(toRemove).path
<1>3. ASSUME pc = "removing", toRemove # <<>>
      PROVE  /\ Head(toRemove).do = "check" /\ p \in Paths /\ Same(p)
             /\ Tail(toRemove) \in Seq(Checks)
  <2>1. Head(toRemove) \in Checks /\ Tail(toRemove) \in Seq(Checks) BY <1>0, <1>3, TailIn
  <2> QED BY <2>1 DEF Checks, Settled
<1>4. \A tasks \in Listings("check", Children(fs["src"], p)) : tasks \in Seq(Checks)
  <2> DEFINE S == Children(fs["src"], p)
             T == [do : {"check"}, path : S]
  <2>1. S \in SUBSET Paths /\ IsFiniteSet(S)
    <3>1. S \in SUBSET Paths BY DEF Children
    <3> QED BY <3>1, Numbers, FS_Subset
  <2>2. T \subseteq Checks BY <2>1 DEF Checks
  <2> SUFFICES ASSUME NEW tasks \in Listings("check", S) PROVE tasks \in Seq(Checks) OBVIOUS
  <2> HIDE DEF S
  <2>3. tasks \in Seq(T) BY <2>1, ListingMeans
  <2> HIDE DEF T
  <2> QED BY <2>2, <2>3, SeqMonotonic
<1>5. CASE Restored
  <2> DEFINE task == [do |-> "check", path |-> Root]
  <2>1. task \in Checks BY RootPrefix DEF Checks
  <2>2. toRemove' = <<task>> /\ fs' = fs /\ queue' = queue BY <1>5 DEF Restored
  <2> HIDE DEF task
  <2>3. toRemove' \in Seq(Checks) BY <2>1, <2>2
  <2> QED BY <1>1, <1>2, <2>2, <2>3 DEF SettledInv
<1>6. CASE CheckBoth
  <2>1. pc = "removing" /\ toRemove # <<>> /\ fs' = fs /\ queue' = queue BY <1>6 DEF CheckBoth, Checking
  <2>2. Tail(toRemove) \in Seq(Checks) BY <1>3, <2>1
  <2>3. toRemove' \in Seq(Checks)
    <3>1. CASE toRemove' = Tail(toRemove) BY <2>2, <3>1
    <3>2. CASE \E tasks \in Listings("check", Children(fs["src"], p)) : toRemove' = tasks \o Tail(toRemove)
      <4>1. PICK tasks \in Listings("check", Children(fs["src"], p)) : toRemove' = tasks \o Tail(toRemove)
        BY <3>2
      <4>2. tasks \in Seq(Checks) BY <1>4
      <4> QED BY <2>2, <4>1, <4>2, TwoIn
    <3>3. CASE toRemove' \in Aborted(Tail(toRemove))
      <4> DEFINE s == Tail(toRemove)
      <4>1. PICK k \in 1 .. Len(s) + 1 : toRemove' = SubSeq(s, k, Len(s)) BY <3>3 DEF Aborted
      <4> HIDE DEF s
      <4>2. Len(s) \in Nat /\ \A i \in 1 .. Len(s) : s[i] \in Checks
        BY <2>2, LenProperties, ElementOfSeq DEF s
      <4>3. \A i \in k .. Len(s) : s[i] \in Checks BY <4>2
      <4> QED BY <4>1, <4>2, <4>3, SubSeqProperties
    <3> QED BY <1>6, <3>1, <3>2, <3>3 DEF CheckBoth
  <2> QED BY <1>1, <1>2, <2>1, <2>3 DEF SettledInv
<1>7. CASE CheckMissing
  <2>1. pc = "removing" /\ toRemove # <<>> /\ fs["dst"][p] = Absent BY <1>7 DEF CheckMissing, Checking
  <2>2. fs["src"][p] = Absent /\ Tail(toRemove) \in Seq(Checks) BY <1>3, <2>1, SameMeans
  <2>3. fs' = fs /\ queue' = queue /\ toRemove' = Tail(toRemove)
    BY <1>7, <2>2, NodeKinds DEF CheckMissing
  <2> QED BY <1>1, <1>2, <2>2, <2>3 DEF SettledInv
<1>8. ~RemoveDirectory BY <1>3 DEF RemoveDirectory
<1>9. CASE Finished BY <1>1, <1>9 DEF Finished, SettledInv
<1> QED BY <1>5, <1>6, <1>7, <1>8, <1>9

\* Beside a worker at rest nothing changes in the trees.
LEMMA SettledStep ==
  ASSUME Basic, SettledInv, [Next]_vars
  PROVE  SettledInv' /\ (pc # "idle" /\ mode = "settled" /\ mode' = "settled" => fs' = fs /\ data' = data)
<1>1. CASE User BY <1>1 DEF User, Write, Unlink, MkDir, RmDir, UserDid, SettledInv
<1>2. CASE End \/ StartAgain
  BY <1>2 DEF End, StartAgain, MayCommand, SettledInv
<1>3. CASE Restore
  <2>1. pc = "idle" BY <1>3 DEF Restore, MayCommand
  <2>2. ASSUME mode' = "settled" PROVE Settled'
    <3>1. /\ queue = <<>> /\ todo["worker"] = <<>> /\ file["worker"] = NoFile /\ \A p \in Paths : Same(p)
          /\ todo' = [todo EXCEPT !["restore"] = <<Task("copy", Root)>>]
          /\ fs' = fs /\ data' = data /\ file' = file /\ queue' = queue /\ pc' = "restoring"
      BY <1>3, <2>2 DEF Restore, Quiet, Idle, trees
    <3>2. file["restore"] = NoFile BY <2>1 DEF Basic, RestoreInv, Idle
    <3>3. Task("copy", Root) \in Present'
      BY TaskType, RootPrefix DEF Present
    <3>4. todo'["worker"] = <<>> /\ todo'["restore"] = <<Task("copy", Root)>>
      BY <3>1 DEF Basic, TypeOK, Copiers
    <3>5. <<Task("copy", Root)>> \in Seq(Present') BY <3>3
    <3>6. <<>> \in Seq(EmptyEvents') /\ <<>> \in Seq(EmptyCopies') OBVIOUS
    <3>7. \A p \in Paths : Same(p)' BY <3>1 DEF Same, View
    <3>8. \A c \in Copiers : file'[c] = NoFile BY <3>1, <3>2, CopierNames
    <3> QED BY <3>1, <3>4, <3>5, <3>6, <3>7, <3>8 DEF Settled
  <2> QED BY <2>1, <2>2 DEF SettledInv
<1>4. CASE Worker \/ Supervisor
  <2>1. mode' = mode
    <3>1. \A c \in Copiers : Copy(c) => mode' = mode
      BY DEF Copy, EntryGone, EnterDirectory, MakeDirectory, MakeFails, ListDirectory, ListFails,
             SkipFile, OpenFile, OpenFails, ReadFile, WriteFile, Fails, CopierOnly
    <3> QED BY <1>4, <3>1, CopierNames
         DEF Worker, Supervisor, StartLoop, WatchDirectory, HandleSelf, HandleDelete, HandleChange, WorkerOnly,
             Restored, CheckBoth, CheckMissing, RemoveDirectory, Finished, RestoreOnly
  <2>2. CASE pc = "idle"
    <3>1. CASE Worker
      <4>1. pc' = pc
        BY <3>1 DEF Worker, StartLoop, WatchDirectory, HandleSelf, HandleDelete, HandleChange, WorkerOnly,
             supervisor, Copy, EntryGone, EnterDirectory, MakeDirectory, MakeFails, ListDirectory, ListFails,
             SkipFile, OpenFile, OpenFails, ReadFile, WriteFile, Fails, SameWorker
      <4> QED BY <2>2, <4>1 DEF SettledInv
    <3>2. ~Supervisor
      <4>1. ~Copy("restore")
        BY <2>2 DEF Basic, RestoreInv, Idle, Copy, EntryGone, EnterDirectory, MakeDirectory, MakeFails,
             ListDirectory, ListFails, SkipFile, OpenFile, OpenFails, ReadFile, WriteFile, Doing
      <4> QED BY <2>2, <4>1 DEF Supervisor, Restored, CheckBoth, CheckMissing, Checking, RemoveDirectory, Finished
    <3> QED BY <1>4, <2>2, <3>1, <3>2
  <2>3. CASE mode # "settled" BY <2>1, <2>3 DEF SettledInv
  <2>4. CASE pc # "idle" /\ mode = "settled"
    <3>1. Settled /\ mode' = "settled" BY <2>1, <2>4 DEF SettledInv
    <3> QED BY <1>4, <3>1, SettledWorker, SettledRestoreCopies, SettledRemoval DEF Supervisor
  <2> QED BY <2>2, <2>3, <2>4
<1>5. CASE UNCHANGED vars
  <2>1. fs' = fs /\ data' = data /\ queue' = queue /\ todo' = todo /\ file' = file /\ pc' = pc
        /\ toRemove' = toRemove /\ mode' = mode
    BY <1>5 DEF vars, trees, supervisor
  <2>2. Settled => Settled'
    <3> SUFFICES ASSUME Settled PROVE Settled' OBVIOUS
    <3> QED BY <2>1, SettledStays DEF Settled
  <2> QED BY <2>1, <2>2 DEF SettledInv
<1> QED BY <1>1, <1>2, <1>3, <1>4, <1>5 DEF Next

\* Every state is well formed, no inode has two names, and what runs beside a worker at
\* rest is as SettledInv has it.
LEMMA SettledInvariance == Spec => [](Basic /\ SettledInv)
<1>1. Init => Basic /\ SettledInv
  <2>1. Init => pc = "idle" BY DEF Init
  <2> QED BY <2>1, InitBasic DEF SettledInv
<1>2. Basic /\ SettledInv /\ [Next]_vars => (Basic /\ SettledInv)' BY NextKeepsBasic, SettledStep
<1> QED BY <1>1, <1>2, PTL DEF Spec

\* The files, the calls to make, the queue and the lists have their types, and nothing is
\* below what is no directory.
THEOREM TypeCorrectness == Spec => []TypeOK
<1>1. Basic /\ SettledInv => TypeOK BY DEF Basic
<1> QED BY <1>1, SettledInvariance, PTL

\* handle_restore beside a worker at rest that has mirrored everything changes nothing in
\* the source.
THEOREM SettledRestoreKeeps == Spec => MirroredIsKept
<1>1. Basic /\ SettledInv /\ [Next]_vars =>
        [pc # "idle" /\ mode = "settled" /\ mode' = "settled" =>
           \A p \in Paths : View("src", p)' = View("src", p)]_vars
  <2> SUFFICES ASSUME Basic, SettledInv, [Next]_vars, pc # "idle", mode = "settled", mode' = "settled"
               PROVE  \A p \in Paths : View("src", p)' = View("src", p)
    OBVIOUS
  <2>1. fs' = fs /\ data' = data BY SettledStep
  <2> QED BY <2>1 DEF View
<1> QED BY <1>1, SettledInvariance, PTL DEF Spec, MirroredIsKept

\* What a view tells.
LEMMA ViewMeans ==
  ASSUME Basic, NEW t \in Names, NEW p \in Paths
  PROVE  /\ View(t, p).kind = "absent" <=> fs[t][p] = Absent
         /\ View(t, p).kind = "dir" <=> fs[t][p] = Dir
         /\ View(t, p).kind = "file" <=> IsFile(fs[t][p])
         /\ View(t, p).content = IF IsFile(fs[t][p]) THEN data[fs[t][p]] ELSE 0
         /\ fs[t][p] = Absent => View(t, p) = [kind |-> "absent", content |-> 0]
         /\ fs[t][p] = Dir => View(t, p) = [kind |-> "dir", content |-> 0]
         /\ IsFile(fs[t][p]) => View(t, p) = [kind |-> "file", content |-> data[fs[t][p]]]
<1>1. /\ fs[t][p] = Absent \/ fs[t][p] = Dir \/ IsFile(fs[t][p])
      /\ Absent # Dir /\ ~IsFile(Absent) /\ ~IsFile(Dir)
  BY TreesOf, NodeKinds DEF Basic, IsFile
<1> QED BY <1>1 DEF View

\* What reading finds stays when the name and the content it holds stay.
LEMMA ViewKept ==
  ASSUME NEW t \in Names, NEW p \in Paths, fs'[t][p] = fs[t][p],
         IsFile(fs[t][p]) => data'[fs[t][p]] = data[fs[t][p]]
  PROVE  View(t, p)' = View(t, p)
BY DEF View

\* The backup is what the target holds.
LEMMA GoalMeans ==
  ASSUME Basic, Alone, NEW p \in Paths
  PROVE  /\ goal[p].kind = "absent" <=> fs["dst"][p] = Absent
         /\ goal[p].kind = "dir" <=> fs["dst"][p] = Dir
         /\ goal[p].kind = "file" <=> IsFile(fs["dst"][p])
         /\ goal[p] = View("dst", p)
         /\ Recovered(p) => View("src", p).kind = goal[p].kind
BY ViewMeans DEF Alone, Names, Recovered

\* A node of the source is changed, and the content of an inode that no other name holds.
LEMMA OnlyAt ==
  ASSUME Basic, NEW q \in Paths, NEW i \in Inodes, goal' = goal,
         fs'["dst"] = fs["dst"], \A r \in Paths : r # q => fs'["src"][r] = fs["src"][r],
         \A j \in Inodes : j # i => data'[j] = data[j],
         data' = data \/ i = fs["src"][q] \/ \A u \in Names, r \in Paths : fs[u][r] # i
  PROVE  /\ \A r \in Paths : View("dst", r)' = View("dst", r)
         /\ \A r \in Paths : r # q => View("src", r)' = View("src", r) /\ (Recovered(r)' <=> Recovered(r))
<1>1. ASSUME NEW u \in Names, NEW r \in Paths, u = "dst" \/ r # q, IsFile(fs[u][r])
      PROVE  data'[fs[u][r]] = data[fs[u][r]]
  <2>1. fs[u][r] \in Inodes BY <1>1 DEF IsFile
  <2>2. CASE data' = data BY <2>2
  <2>3. CASE i = fs["src"][q] /\ fs[u][r] # i BY <1>1, <2>1, <2>3
  <2>4. CASE i = fs["src"][q] /\ fs[u][r] = i
    <3>1. u = "src" /\ r = q BY <1>1, <2>4 DEF Basic, InodesApart, Names
    <3> QED BY <1>1, <3>1
  <2>5. CASE \A v \in Names, s \in Paths : fs[v][s] # i BY <1>1, <2>1, <2>5
  <2> QED BY <2>2, <2>3, <2>4, <2>5
<1>2. \A r \in Paths : View("dst", r)' = View("dst", r) BY <1>1, ViewKept DEF Names
<1>3. \A r \in Paths : r # q => View("src", r)' = View("src", r) BY <1>1, ViewKept DEF Names
<1>4. ASSUME NEW r \in Paths, r # q PROVE Recovered(r)' <=> Recovered(r)
  BY <1>3, <1>4 DEF Recovered
<1> QED BY <1>2, <1>3, <1>4

\* When the trees and the backup stay, so does all that is said of them.
LEMMA TreesSame ==
  ASSUME fs' = fs, data' = data, goal' = goal
  PROVE  /\ \A t \in Names, r \in Paths : View(t, r)' = View(t, r)
         /\ \A r \in Paths : Recovered(r)' <=> Recovered(r)
         /\ Hidden' <=> Hidden
<1>1. \A t \in Names, r \in Paths : View(t, r)' = View(t, r) BY DEF View
<1>2. \A r \in Paths : Recovered(r)' <=> Recovered(r) BY <1>1 DEF Recovered, Names
<1> QED BY <1>1, <1>2 DEF Hidden

\* A step of the copying that goes on.
LEMMA AloneCopies ==
  ASSUME Basic, Alone, pc = "restoring", pc' = pc, stage' = stage, goal' = goal,
         \A r \in Paths : View("dst", r)' = View("dst", r), Hidden => Hidden',
         todo'["restore"] \in Seq(DirTasks),
         file'["restore"] # NoFile =>
           /\ file'["restore"].from = fs'["dst"][file'["restore"].path]
           /\ file'["restore"].to = fs'["src"][file'["restore"].path]
           /\ data'[file'["restore"].to] = 0
           /\ file'["restore"].read => file'["restore"].buffer = data'[file'["restore"].from],
         \A p \in Paths : goal[p].kind # "absent" /\ ~Hidden /\ Recovered(p) => Recovered(p)' \/ ToCopy(p)',
         \A p \in Paths : goal[p].kind # "absent" /\ ~Hidden /\ ToCopy(p) => Recovered(p)' \/ ToCopy(p)' \/ Hidden'
  PROVE  Alone'
<1>1. ASSUME NEW p \in Paths, goal'[p].kind # "absent"
      PROVE  Hidden' \/ Recovered(p)' \/ (pc' = "restoring" /\ ToCopy(p)')
  BY <1>1 DEF Alone, CopyInv
<1>2. DirTasks' = DirTasks BY DEF DirTasks
<1>3. CopyInv' BY <1>1, <1>2 DEF CopyInv
<1>4. \A p \in Paths : View("dst", p)' = goal'[p] BY DEF Alone
<1> QED BY <1>3, <1>4 DEF Alone

\* What is covered by a call that is made is covered by the calls that take its place, or
\* was covered by another one.
LEMMA CoveredStill ==
  ASSUME Basic, todo["restore"] # <<>>, NEW tasks \in Seq(Tasks),
         todo'["restore"] = tasks \o Tail(todo["restore"]), file["restore"] = NoFile,
         NEW p \in Paths
  PROVE  /\ ToCopy(p) => Covers(Head(todo["restore"]), p) \/ ToCopy(p)'
         /\ (\E i \in DOMAIN tasks : Covers(tasks[i], p)) => ToCopy(p)'
<1> DEFINE s == todo["restore"]
           rest == Tail(s)
           u == tasks \o rest
           n == Len(tasks)
           m == Len(s)
<1>1. /\ s \in Seq(Tasks) /\ rest \in Seq(Tasks) /\ m \in Nat /\ m >= 1 /\ Head(s) = s[1]
      /\ Len(rest) = m - 1 /\ \A i \in 1 .. m - 1 : rest[i] = s[i + 1]
  BY HeadTask, CopierNames DEF Basic
<1>2. /\ u \in Seq(Tasks) /\ Len(u) = n + (m - 1) /\ n \in Nat
      /\ \A i \in 1 .. n + (m - 1) : u[i] = IF i <= n THEN tasks[i] ELSE rest[i - n]
  <2>1. u \in Seq(Tasks) /\ Len(u) = Len(tasks) + Len(rest)
        /\ \A i \in 1 .. Len(tasks) + Len(rest) : u[i] = IF i <= Len(tasks) THEN tasks[i] ELSE rest[i - Len(tasks)]
    BY <1>1, ConcatProperties
  <2>2. n \in Nat BY LenProperties
  <2> QED BY <1>1, <2>1, <2>2
<1>3. DOMAIN s = 1 .. m /\ DOMAIN u = 1 .. n + (m - 1) /\ DOMAIN tasks = 1 .. n
  BY <1>1, <1>2, LenProperties
<1>4. todo'["restore"] = u OBVIOUS
<1> HIDE DEF s, rest, u, n, m
<1>5. ASSUME ToCopy(p) PROVE Covers(Head(s), p) \/ ToCopy(p)'
  <2>1. PICK i \in 1 .. m : Covers(s[i], p) BY <1>3, <1>5 DEF ToCopy, s
  <2>2. CASE i = 1 BY <1>1, <2>1, <2>2
  <2>3. CASE i # 1
    <3>1. i - 1 \in 1 .. m - 1 /\ n + (i - 1) \in 1 .. n + (m - 1) /\ ~(n + (i - 1) <= n)
          /\ (n + (i - 1)) - n = i - 1 /\ (i - 1) + 1 = i
      BY <1>1, <1>2, <2>3
    <3>2. u[n + (i - 1)] = rest[i - 1] /\ rest[i - 1] = s[i] BY <1>1, <1>2, <3>1
    <3>3. n + (i - 1) \in DOMAIN u /\ Covers(u[n + (i - 1)], p) BY <1>3, <2>1, <3>1, <3>2
    <3> QED BY <1>4, <3>3 DEF ToCopy
  <2> QED BY <2>2, <2>3
<1>6. ASSUME NEW i \in DOMAIN tasks, Covers(tasks[i], p) PROVE ToCopy(p)'
  <2>1. i \in 1 .. n + (m - 1) /\ i <= n BY <1>1, <1>2, <1>3
  <2>2. i \in DOMAIN u /\ Covers(u[i], p) BY <1>2, <1>3, <1>6, <2>1
  <2> QED BY <1>4, <2>2 DEF ToCopy
<1> QED BY <1>5, <1>6 DEF s

\* Fails of restore ends the command.
LEMMA AloneFails == ASSUME Fails("restore") PROVE pc' = "idle"
BY DEF Fails

\* A call is taken up, and others take its place, without any change in the trees.
LEMMA AloneTask ==
  ASSUME Basic, Alone, pc = "restoring", NEW do, Doing("restore", do),
         NEW tasks \in Seq(DirTasks), Then("restore", tasks),
         pc' = pc, stage' = stage, goal' = goal, file' = file, fs' = fs, data' = data,
         \A p \in Paths : goal[p].kind # "absent" /\ ~Hidden /\ Covers(Head(todo["restore"]), p) =>
            Recovered(p) \/ \E i \in DOMAIN tasks : Covers(tasks[i], p)
  PROVE  Alone'
<1>1. /\ \A t \in Names, r \in Paths : View(t, r)' = View(t, r)
      /\ \A r \in Paths : Recovered(r)' <=> Recovered(r)
      /\ Hidden' <=> Hidden
  BY TreesSame
<1>2. /\ todo["restore"] # <<>> /\ file["restore"] = NoFile BY DEF Doing
<1>3. todo'["restore"] = tasks \o Tail(todo["restore"]) BY ThenIn, CopierNames
<1>4. Tail(todo["restore"]) \in Seq(DirTasks) BY <1>2, TailIn DEF Alone, CopyInv
<1>5. todo'["restore"] \in Seq(DirTasks) BY <1>3, <1>4, TwoIn
<1>6. tasks \in Seq(Tasks)
  <2>1. DirTasks \subseteq Tasks BY DEF DirTasks
  <2> QED BY <2>1, SeqMonotonic
<1>7. \A p \in Paths : goal[p].kind # "absent" /\ ~Hidden /\ ToCopy(p) => Recovered(p)' \/ ToCopy(p)'
  BY <1>1, <1>2, <1>3, <1>6, CoveredStill
<1>8. file'["restore"] = NoFile BY <1>2
<1>9. \A r \in Paths : View("dst", r)' = View("dst", r) BY <1>1 DEF Names
<1> QED BY <1>1, <1>5, <1>7, <1>8, <1>9, AloneCopies

\* The first of the calls restore has to make.
LEMMA AloneHead ==
  ASSUME Basic, Alone, NEW do, Doing("restore", do)
  PROVE  /\ At("restore") \in Paths /\ Head(todo["restore"]) \in DirTasks
         /\ Head(todo["restore"]).path = At("restore") /\ Head(todo["restore"]).do = do
         /\ todo["restore"] # <<>> /\ file["restore"] = NoFile
         /\ Tail(todo["restore"]) \in Seq(DirTasks) /\ (do # "copy" => goal[At("restore")].kind = "dir")
         /\ Source("restore") = fs["dst"] /\ Dest("restore") = fs["src"]
         /\ From["restore"] = "dst" /\ To["restore"] = "src"
<1>1. todo["restore"] # <<>> /\ file["restore"] = NoFile /\ Head(todo["restore"]).do = do BY DEF Doing
<1>2. Head(todo["restore"]) \in DirTasks /\ Tail(todo["restore"]) \in Seq(DirTasks)
  BY <1>1, TailIn DEF Alone, CopyInv
<1>3. At("restore") \in Paths BY <1>1, HeadTask, CopierNames DEF Basic
<1> QED BY <1>1, <1>2, <1>3, CopierNames DEF DirTasks, At, Source, Dest

\* What the backup has below a path that is a file there is the path itself.
LEMMA BelowFile ==
  ASSUME Basic, Alone, NEW q \in Paths, IsFile(fs["dst"][q]), NEW p \in Paths, IsPrefix(q, p),
         goal[p].kind # "absent"
  PROVE  p = q
<1> SUFFICES ASSUME p # q PROVE FALSE OBVIOUS
<1>1. IsStrictPrefix(q, p) BY DEF IsStrictPrefix
<1>2. fs["dst"][p] # Absent BY GoalMeans
<1>3. fs["dst"] \in Trees BY TreesOf DEF Basic, Names
<1>4. fs["dst"][q] = Dir BY <1>1, <1>2, <1>3, TreeMeans
<1> QED BY <1>4, NodeKinds

\* copy_entry of a directory becomes copy_directory.
LEMMA AloneEnters ==
  ASSUME Basic, Alone, pc = "restoring", EnterDirectory("restore") PROVE Alone'
<1> DEFINE q == At("restore")
           task == Task("make", q)
           tasks == <<task>>
<1>1. /\ Doing("restore", "copy") /\ Then("restore", tasks) /\ Source("restore")[q] = Dir
      /\ pc' = pc /\ stage' = stage /\ goal' = goal /\ file' = file /\ fs' = fs /\ data' = data
  BY DEF EnterDirectory, CopierOnly, SameWorker, trees
<1>2. /\ q \in Paths /\ Head(todo["restore"]).path = q /\ Source("restore") = fs["dst"]
  BY <1>1, AloneHead
<1>3. goal[q].kind = "dir" BY <1>1, <1>2, GoalMeans
<1>4. task \in DirTasks /\ task.path = q /\ task.do = "make" BY <1>2, <1>3, TaskType DEF DirTasks
<1> HIDE DEF q, task
<1>5. tasks \in Seq(DirTasks) /\ DOMAIN tasks = 1 .. 1 /\ tasks[1] = task BY <1>4
<1>6. ASSUME NEW p \in Paths, Covers(Head(todo["restore"]), p)
      PROVE  \E i \in DOMAIN tasks : Covers(tasks[i], p)
  <2>1. Covers(task, p) BY <1>2, <1>4, <1>6 DEF Covers
  <2> QED BY <1>5, <2>1
<1> HIDE DEF tasks
<1> QED BY <1>1, <1>5, <1>6, AloneTask

\* The directory is read: what the backup has below it is in its children.
LEMMA AloneLists ==
  ASSUME Basic, Alone, pc = "restoring", ListDirectory("restore") PROVE Alone'
<1> DEFINE q == At("restore")
           S == Children(fs["dst"], q)
<1>1. /\ Doing("restore", "list") /\ Source("restore")[q] = Dir
      /\ pc' = pc /\ stage' = stage /\ goal' = goal /\ file' = file /\ fs' = fs /\ data' = data
  BY DEF ListDirectory, CopierOnly, trees
<1>2. /\ q \in Paths /\ Head(todo["restore"]).path = q /\ Source("restore") = fs["dst"]
      /\ Head(todo["restore"]).do = "list"
  BY <1>1, AloneHead
<1>3. PICK tasks \in Listings("copy", S) : Then("restore", tasks) BY <1>2 DEF ListDirectory
<1>4. S \in SUBSET Paths /\ IsFiniteSet(S)
  <2>1. S \in SUBSET Paths BY DEF Children
  <2> QED BY <2>1, Numbers, FS_Subset
<1>5. /\ tasks \in Seq([do : {"copy"}, path : S])
      /\ \A r \in S : \E i \in DOMAIN tasks : tasks[i] = Task("copy", r)
  <2> HIDE DEF S
  <2> QED BY <1>3, <1>4, ListingMeans
<1>6. tasks \in Seq(DirTasks)
  <2> DEFINE T == [do : {"copy"}, path : S]
  <2>1. T \subseteq DirTasks
    <3> HIDE DEF S
    <3> QED BY <1>4 DEF DirTasks, Tasks
  <2> HIDE DEF T
  <2> QED BY <1>5, <2>1, SeqMonotonic DEF T
<1>7. ASSUME NEW p \in Paths, goal[p].kind # "absent", Covers(Head(todo["restore"]), p)
      PROVE  \E i \in DOMAIN tasks : Covers(tasks[i], p)
  <2>1. IsStrictPrefix(q, p) BY <1>2, <1>7 DEF Covers, IsStrictPrefix
  <2>2. PICK r \in Paths \ {Root} : Parent(r) = q /\ IsPrefix(r, p) BY <1>2, <2>1, ChildOnTheWay
  <2>3. fs["dst"][r] # Absent
    <3>1. fs["dst"][p] # Absent BY <1>7, GoalMeans
    <3>2. fs["dst"] \in Trees BY TreesOf DEF Basic, Names
    <3>3. CASE r = p BY <3>1, <3>3
    <3>4. CASE r # p
      <4>1. IsStrictPrefix(r, p) BY <2>2, <3>4 DEF IsStrictPrefix
      <4> QED BY <3>1, <3>2, <4>1, TreeMeans, NodeKinds
    <3> QED BY <3>3, <3>4
  <2>4. r \in S BY <2>2, <2>3 DEF Children
  <2>5. PICK i \in DOMAIN tasks : tasks[i] = Task("copy", r) BY <1>5, <2>4
  <2>6. Covers(tasks[i], p) BY <2>2, <2>5, TaskType DEF Covers
  <2> QED BY <2>6
<1> HIDE DEF S
<1> QED BY <1>1, <1>3, <1>6, <1>7, AloneTask

\* A file that hashes like its backup is recovered.
LEMMA AloneSkips ==
  ASSUME Basic, Alone, pc = "restoring", SkipFile("restore") PROVE Alone'
<1> DEFINE q == At("restore")
           tasks == <<>>
<1>1. /\ Doing("restore", "copy") /\ Then("restore", tasks) /\ IsFile(Source("restore")[q])
      /\ Unchanged("restore")
      /\ pc' = pc /\ stage' = stage /\ goal' = goal /\ file' = file /\ fs' = fs /\ data' = data
  BY DEF SkipFile, CopierOnly, SameWorker, trees
<1>2. /\ q \in Paths /\ Head(todo["restore"]).path = q
      /\ Source("restore") = fs["dst"] /\ Dest("restore") = fs["src"]
  BY <1>1, AloneHead
<1>3. IsFile(fs["src"][q]) /\ Hashes(fs["dst"][q], fs["src"][q]) BY <1>1, <1>2 DEF Unchanged
<1>4. /\ View("src", q) = [kind |-> "file", content |-> data[fs["src"][q]]]
      /\ goal[q] = [kind |-> "file", content |-> data[fs["dst"][q]]]
  BY <1>1, <1>2, <1>3, ViewMeans, GoalMeans DEF Names
<1>5. Recovered(q)
  <2>1. CASE data[fs["dst"][q]] = data[fs["src"][q]] BY <1>4, <2>1 DEF Recovered
  <2>2. CASE \E a \in Alike : data[fs["dst"][q]] \in a /\ data[fs["src"][q]] \in a
    <3>1. PICK a \in Alike : data[fs["dst"][q]] \in a /\ data[fs["src"][q]] \in a BY <2>2
    <3>2. {View("src", q).content, goal[q].content} \subseteq a BY <1>4, <3>1
    <3> QED BY <1>4, <3>2 DEF Recovered
  <2> QED BY <1>3, <2>1, <2>2 DEF Hashes
<1>6. tasks \in Seq(DirTasks) OBVIOUS
<1>7. ASSUME NEW p \in Paths, goal[p].kind # "absent", Covers(Head(todo["restore"]), p)
      PROVE  Recovered(p)
  <2>1. IsPrefix(q, p) BY <1>2, <1>7 DEF Covers
  <2>2. p = q BY <1>1, <1>2, <1>7, <2>1, BelowFile
  <2> QED BY <1>5, <2>2
<1> HIDE DEF tasks
<1> QED BY <1>1, <1>6, <1>7, AloneTask

\* mkdir recovers the directory, unless a file is in its place.
LEMMA AloneMakes ==
  ASSUME Basic, Alone, pc = "restoring", MakeDirectory("restore") PROVE Alone'
<1> DEFINE q == At("restore")
           task == Task("list", q)
           tasks == <<task>>
<1>1. /\ Doing("restore", "make") /\ Then("restore", tasks)
      /\ pc' = pc /\ stage' = stage /\ goal' = goal /\ file' = file /\ data' = data
      /\ \/ Dest("restore")[q] # Absent /\ fs' = fs
         \/ Dest("restore")[q] = Absent /\ fs' = [fs EXCEPT ![To["restore"]][q] = Dir]
  BY DEF MakeDirectory, CopierOnly
<1>2. /\ q \in Paths /\ Head(todo["restore"]).path = q /\ Head(todo["restore"]).do = "make"
      /\ Dest("restore") = fs["src"] /\ To["restore"] = "src" /\ goal[q].kind = "dir"
      /\ todo["restore"] # <<>> /\ file["restore"] = NoFile
      /\ Tail(todo["restore"]) \in Seq(DirTasks)
  BY <1>1, AloneHead
<1>3. task \in DirTasks /\ task.path = q /\ task.do = "list" BY <1>2, TaskType DEF DirTasks
<1> HIDE DEF q, task
<1>4. tasks \in Seq(DirTasks) /\ DOMAIN tasks = 1 .. 1 /\ tasks[1] = task BY <1>3
<1>5. ASSUME NEW p \in Paths, p # q, Covers(Head(todo["restore"]), p)
      PROVE  \E i \in DOMAIN tasks : Covers(tasks[i], p)
  <2>1. Covers(task, p) BY <1>2, <1>3, <1>5 DEF Covers
  <2> QED BY <1>4, <2>1
<1> HIDE DEF tasks
<1>6. goal[q] = [kind |-> "dir", content |-> 0] BY <1>2, GoalMeans, ViewMeans DEF Names
<1>7. CASE fs["src"][q] # Absent /\ fs' = fs
  <2>1. ~Hidden => Recovered(q)
    <3>1. ~Hidden => fs["src"][q] = Dir BY <1>2, <1>7, TreesOf DEF Hidden, Basic, Names, IsFile
    <3> QED BY <1>2, <1>6, <3>1, ViewMeans DEF Recovered, Names
  <2> QED BY <1>1, <1>4, <1>5, <1>7, <2>1, AloneTask
<1>8. CASE fs["src"][q] = Absent /\ fs' = [fs EXCEPT !["src"][q] = Dir]
  <2>1. /\ fs'["src"][q] = Dir /\ fs'["dst"] = fs["dst"]
        /\ \A r \in Paths : r # q => fs'["src"][r] = fs["src"][r]
    BY <1>2, <1>8, TreesOf DEF Basic, Names
  <2>2. /\ \A r \in Paths : View("dst", r)' = View("dst", r)
        /\ \A r \in Paths : r # q => View("src", r)' = View("src", r) /\ (Recovered(r)' <=> Recovered(r))
    <3>1. \E i \in Inodes : TRUE BY Numbers
    <3> QED BY <1>1, <1>2, <2>1, <3>1, OnlyAt
  <2>3. ASSUME NEW p \in Paths, p = q PROVE Recovered(p)'
    <3>1. fs'["src"][p] = Dir /\ Dir # Absent /\ ~IsFile(Dir) BY <2>1, <2>3, NodeKinds
    <3>2. View("src", p)' = [kind |-> "dir", content |-> 0] BY <3>1 DEF View
    <3>3. goal'[p] = [kind |-> "dir", content |-> 0] BY <1>1, <1>6, <2>3
    <3> QED BY <3>2, <3>3 DEF Recovered
  <2>4. Hidden => Hidden'
    <3> SUFFICES ASSUME NEW r \in Paths, goal[r].kind = "dir", IsFile(fs["src"][r]) PROVE Hidden'
      BY DEF Hidden
    <3>1. r # q BY <1>8, NodeKinds
    <3> QED BY <1>1, <2>1, <3>1 DEF Hidden
  <2>5. todo'["restore"] = tasks \o Tail(todo["restore"]) BY <1>1, ThenIn, CopierNames
  <2>6. todo'["restore"] \in Seq(DirTasks) BY <1>2, <1>4, <2>5, TwoIn
  <2>7. tasks \in Seq(Tasks)
    <3>1. DirTasks \subseteq Tasks BY DEF DirTasks
    <3> QED BY <1>4, <3>1, SeqMonotonic
  <2>8. \A p \in Paths : ToCopy(p) => Recovered(p)' \/ ToCopy(p)'
    BY <1>2, <1>5, <2>3, <2>5, <2>7, CoveredStill
  <2>9. \A p \in Paths : Recovered(p) => Recovered(p)' BY <2>2, <2>3
  <2>10. file'["restore"] = NoFile BY <1>1, <1>2
  <2> QED BY <1>1, <2>2, <2>4, <2>6, <2>8, <2>9, <2>10, AloneCopies
<1> QED BY <1>1, <1>2, <1>7, <1>8 DEF q

\* The file to copy is open, and empty.
LEMMA AloneOpens ==
  ASSUME Basic, Alone, pc = "restoring", OpenFile("restore") PROVE Alone'
<1> DEFINE q == At("restore")
           i == IF IsFile(fs["src"][q]) THEN fs["src"][q] ELSE Fresh
           tasks == <<>>
<1>1. Doing("restore", "copy") /\ IsFile(Source("restore")[q]) BY DEF OpenFile
<1>2. /\ q \in Paths /\ Head(todo["restore"]).path = q /\ Head(todo["restore"]).do = "copy"
      /\ Source("restore") = fs["dst"] /\ Dest("restore") = fs["src"] /\ To["restore"] = "src"
      /\ todo["restore"] # <<>> /\ file["restore"] = NoFile
      /\ Tail(todo["restore"]) \in Seq(DirTasks)
  BY <1>1, AloneHead
<1>3. /\ fs' = [fs EXCEPT !["src"][q] = i] /\ data' = [data EXCEPT ![i] = 0]
      /\ file' = [file EXCEPT !["restore"] = [path |-> q, from |-> fs["dst"][q], to |-> i, buffer |-> 0,
                                              read |-> FALSE]]
      /\ Then("restore", tasks) /\ pc' = pc /\ stage' = stage /\ goal' = goal
  BY <1>2 DEF OpenFile, CopierOnly
<1>4. q \in Files BY <1>1, <1>2 DEF Basic, InodesApart
<1>5. i \in Inodes /\ (i = fs["src"][q] \/ \A u \in Names, r \in Paths : fs[u][r] # i)
  <2>1. CASE IsFile(fs["src"][q]) BY <2>1 DEF IsFile
  <2>2. CASE ~IsFile(fs["src"][q]) BY <1>4, <2>2, FreshIsNew DEF Basic, Names
  <2> QED BY <2>1, <2>2
<1> HIDE DEF q, i
<1>6. /\ fs'["src"][q] = i /\ fs'["dst"] = fs["dst"]
      /\ \A r \in Paths : r # q => fs'["src"][r] = fs["src"][r]
  BY <1>2, <1>3, TreesOf DEF Basic, Names
<1>7. data'[i] = 0 /\ \A j \in Inodes : j # i => data'[j] = data[j]
  BY <1>3, <1>5 DEF Basic, TypeOK
<1>8. /\ file'["restore"].path = q /\ file'["restore"].from = fs["dst"][q] /\ file'["restore"].to = i
      /\ ~file'["restore"].read
  BY <1>3, CopierNames DEF Basic, TypeOK
<1>9. file'["restore"] # NoFile
  <2>1. DOMAIN file'["restore"] = {"path", "from", "to", "buffer", "read"} BY <1>3, CopierNames DEF Basic, TypeOK
  <2>2. DOMAIN NoFile = {} BY DEF NoFile
  <2> QED BY <2>1, <2>2
<1>10. /\ \A r \in Paths : View("dst", r)' = View("dst", r)
       /\ \A r \in Paths : r # q => View("src", r)' = View("src", r) /\ (Recovered(r)' <=> Recovered(r))
  BY <1>2, <1>3, <1>5, <1>6, <1>7, OnlyAt
<1>11. Hidden => Hidden'
  <2> SUFFICES ASSUME NEW r \in Paths, goal[r].kind = "dir", IsFile(fs["src"][r]) PROVE Hidden'
    BY DEF Hidden
  <2>1. goal[q].kind = "file" BY <1>1, <1>2, GoalMeans DEF q
  <2>2. r # q BY <2>1
  <2> QED BY <1>3, <1>6, <2>2 DEF Hidden
<1>12. \A p \in Paths : p = q => ToCopy(p)' BY <1>8, <1>9 DEF ToCopy
<1>13. todo'["restore"] = tasks \o Tail(todo["restore"]) BY <1>3, ThenIn, CopierNames
<1>14. tasks \in Seq(DirTasks) /\ tasks \in Seq(Tasks) OBVIOUS
<1> HIDE DEF tasks
<1>15. todo'["restore"] \in Seq(DirTasks) BY <1>2, <1>13, <1>14, TwoIn
<1>16. ASSUME NEW p \in Paths, goal[p].kind # "absent", ToCopy(p) PROVE ToCopy(p)'
  <2>1. Covers(Head(todo["restore"]), p) \/ ToCopy(p)' BY <1>2, <1>13, <1>14, <1>16, CoveredStill
  <2>2. CASE Covers(Head(todo["restore"]), p)
    <3>1. IsPrefix(q, p) BY <1>2, <2>2 DEF Covers
    <3>2. p = q BY <1>1, <1>2, <1>16, <3>1, BelowFile DEF q
    <3> QED BY <1>12, <3>2
  <2> QED BY <2>1, <2>2
<1>17. \A p \in Paths : Recovered(p) => Recovered(p)' \/ ToCopy(p)' BY <1>10, <1>12
<1>18. /\ file'["restore"].from = fs'["dst"][file'["restore"].path]
       /\ file'["restore"].to = fs'["src"][file'["restore"].path]
       /\ data'[file'["restore"].to] = 0
  BY <1>6, <1>7, <1>8
<1> QED BY <1>3, <1>8, <1>10, <1>11, <1>15, <1>16, <1>17, <1>18, AloneCopies

\* What is read is what the backup holds.
LEMMA AloneReads ==
  ASSUME Basic, Alone, pc = "restoring", ReadFile("restore") PROVE Alone'
<1> DEFINE f == file["restore"]
           g == file'["restore"]
<1>1. /\ f # NoFile /\ file' = [file EXCEPT !["restore"].read = TRUE, !["restore"].buffer = data[f.from]]
      /\ fs' = fs /\ data' = data /\ todo' = todo /\ pc' = pc /\ stage' = stage /\ goal' = goal
  BY DEF ReadFile, CopierOnly, SameWorker, trees
<1>2. f \in OpenFiles BY <1>1, CopierNames DEF Basic, TypeOK
<1>3. g = [f EXCEPT !.read = TRUE, !.buffer = data[f.from]]
  BY <1>1, CopierNames DEF Basic, TypeOK
<1>4. g.path = f.path /\ g.from = f.from /\ g.to = f.to /\ g.buffer = data[f.from]
  BY <1>2, <1>3 DEF OpenFiles
<1>5. g # NoFile
  <2>1. DOMAIN g = {"path", "from", "to", "buffer", "read"} BY <1>2, <1>3 DEF OpenFiles
  <2>2. DOMAIN NoFile = {} BY DEF NoFile
  <2> QED BY <2>1, <2>2
<1>6. f.from = fs["dst"][f.path] /\ f.to = fs["src"][f.path] /\ data[f.to] = 0
      /\ todo["restore"] \in Seq(DirTasks)
  BY <1>1 DEF Alone, CopyInv
<1>7. /\ \A t \in Names, r \in Paths : View(t, r)' = View(t, r)
      /\ \A r \in Paths : Recovered(r)' <=> Recovered(r)
      /\ Hidden' <=> Hidden
  BY <1>1, TreesSame
<1>8. \A p \in Paths : ToCopy(p) => ToCopy(p)' BY <1>1, <1>4, <1>5 DEF ToCopy
<1> HIDE DEF f
<1>9. /\ g.from = fs'["dst"][g.path] /\ g.to = fs'["src"][g.path] /\ data'[g.to] = 0
      /\ g.buffer = data'[g.from]
  BY <1>1, <1>4, <1>6
<1>10. \A r \in Paths : View("dst", r)' = View("dst", r) BY <1>7 DEF Names
<1>11. todo'["restore"] \in Seq(DirTasks) BY <1>1, <1>6
<1> QED BY <1>1, <1>7, <1>8, <1>9, <1>10, <1>11, AloneCopies

\* What is written recovers the file.
LEMMA AloneWrites ==
  ASSUME Basic, Alone, pc = "restoring", WriteFile("restore") PROVE Alone'
<1> DEFINE f == file["restore"]
           q == f.path
           i == f.to
<1>1. /\ f # NoFile /\ f.read /\ file' = [file EXCEPT !["restore"] = NoFile]
      /\ data' = (IF f.buffer = 0 THEN data ELSE [data EXCEPT ![i] = f.buffer])
      /\ fs' = fs /\ todo' = todo /\ pc' = pc /\ stage' = stage /\ goal' = goal
  BY DEF WriteFile, CopierOnly
<1>2. f \in OpenFiles /\ q \in Paths /\ i \in Inodes /\ f.from \in Inodes
  <2>1. f \in OpenFiles BY <1>1, CopierNames DEF Basic, TypeOK
  <2> QED BY <2>1 DEF OpenFiles
<1>3. f.from = fs["dst"][q] /\ i = fs["src"][q] /\ data[i] = 0 /\ f.buffer = data[f.from]
      /\ todo["restore"] \in Seq(DirTasks)
  BY <1>1 DEF Alone, CopyInv
<1>4. file'["restore"] = NoFile BY <1>1, CopierNames DEF Basic, TypeOK
<1>5. \A p \in Paths : ToCopy(p) => ToCopy(p)' \/ p = q BY <1>1 DEF ToCopy
<1> HIDE DEF f, q, i
<1>6. data'[i] = data[f.from] /\ \A j \in Inodes : j # i => data'[j] = data[j]
  BY <1>1, <1>2, <1>3 DEF Basic, TypeOK
<1>7. /\ \A r \in Paths : View("dst", r)' = View("dst", r)
      /\ \A r \in Paths : r # q => View("src", r)' = View("src", r) /\ (Recovered(r)' <=> Recovered(r))
  BY <1>1, <1>2, <1>3, <1>6, OnlyAt
<1>8. ASSUME NEW p \in Paths, p = q PROVE Recovered(p)'
  <2>1. IsFile(fs["src"][p]) /\ IsFile(fs["dst"][p]) BY <1>2, <1>3, <1>8 DEF IsFile
  <2>2. i # Absent /\ i # Dir /\ IsFile(i) BY <1>2, Numbers DEF IsFile
  <2>3. fs'["src"][p] = i /\ data'[i] = data[fs["dst"][p]] BY <1>1, <1>3, <1>6, <1>8
  <2>4. View("src", p)' = [kind |-> "file", content |-> data[fs["dst"][p]]] BY <2>2, <2>3 DEF View
  <2>5. goal'[p] = [kind |-> "file", content |-> data[fs["dst"][p]]]
    BY <1>1, <2>1, GoalMeans, ViewMeans DEF Names
  <2> QED BY <2>4, <2>5 DEF Recovered
<1>9. \A p \in Paths : Recovered(p) => Recovered(p)' BY <1>7, <1>8
<1>10. Hidden => Hidden' BY <1>1 DEF Hidden
<1>11. todo'["restore"] \in Seq(DirTasks) BY <1>1, <1>3
<1> QED BY <1>1, <1>4, <1>5, <1>7, <1>8, <1>9, <1>10, <1>11, AloneCopies

\* So every step of the copying keeps what restore has done and has to do.
LEMMA AloneCopy ==
  ASSUME Basic, AloneInv, pc # "idle", mode = "alone", Copy("restore") PROVE AloneInv'
<1>1. Alone BY DEF AloneInv
<1>2. pc = "restoring"
  BY DEF Basic, RestoreInv, Idle, Copy, EntryGone, EnterDirectory, MakeDirectory, MakeFails,
         ListDirectory, ListFails, SkipFile, OpenFile, OpenFails, ReadFile, WriteFile, Doing
<1>3. CASE EntryGone("restore") \/ MakeFails("restore") \/ ListFails("restore") \/ OpenFails("restore")
  BY <1>3, AloneFails DEF EntryGone, MakeFails, ListFails, OpenFails, AloneInv
<1>4. CASE Alone' BY <1>4 DEF AloneInv
<1> QED BY <1>1, <1>2, <1>3, <1>4, AloneEnters, AloneMakes, AloneLists, AloneSkips, AloneOpens, AloneReads,
           AloneWrites DEF Copy

\* What is to be removed by a call that is made is removed by the calls that take its
\* place, or was to be removed by another one.
LEMMA RemovedStill ==
  ASSUME Basic, toRemove # <<>>, NEW tasks \in Seq(Removals), toRemove' = tasks \o Tail(toRemove),
         NEW p \in Paths
  PROVE  /\ ToRemove(p) /\ (\A j \in DOMAIN tasks : ~Blocks(tasks[j], p)) =>
              Removes(Head(toRemove), p) \/ ToRemove(p)'
         /\ \A j \in DOMAIN tasks :
              Removes(tasks[j], p) /\ (\A k \in DOMAIN tasks : k <= j => ~Blocks(tasks[k], p)) => ToRemove(p)'
         /\ ToRemove(p) => ~Blocks(Head(toRemove), p)
<1> DEFINE s == toRemove
           rest == Tail(s)
           u == tasks \o rest
           n == Len(tasks)
           m == Len(s)
<1>1. /\ s \in Seq(Removals) /\ rest \in Seq(Removals) /\ m \in Nat /\ m >= 1 /\ Head(s) = s[1]
      /\ Len(rest) = m - 1 /\ \A i \in 1 .. m - 1 : rest[i] = s[i + 1]
  BY HeadRemoval DEF Basic
<1>2. /\ u \in Seq(Removals) /\ Len(u) = n + (m - 1) /\ n \in Nat
      /\ \A i \in 1 .. n + (m - 1) : u[i] = IF i <= n THEN tasks[i] ELSE rest[i - n]
  <2>1. u \in Seq(Removals) /\ Len(u) = Len(tasks) + Len(rest)
        /\ \A i \in 1 .. Len(tasks) + Len(rest) : u[i] = IF i <= Len(tasks) THEN tasks[i] ELSE rest[i - Len(tasks)]
    BY <1>1, ConcatProperties
  <2>2. n \in Nat BY LenProperties
  <2> QED BY <1>1, <2>1, <2>2
<1>3. DOMAIN s = 1 .. m /\ DOMAIN u = 1 .. n + (m - 1) /\ DOMAIN tasks = 1 .. n
  BY <1>1, <1>2, LenProperties
<1>4. toRemove' = u OBVIOUS
<1> HIDE DEF s, rest, u, n, m
<1>5. \A j \in 1 .. n : j \in 1 .. n + (m - 1) /\ u[j] = tasks[j] BY <1>1, <1>2
<1>6. \A i \in 2 .. m : n + (i - 1) \in 1 .. n + (m - 1) /\ u[n + (i - 1)] = s[i]
  <2> SUFFICES ASSUME NEW i \in 2 .. m PROVE n + (i - 1) \in 1 .. n + (m - 1) /\ u[n + (i - 1)] = s[i]
    OBVIOUS
  <2>1. i - 1 \in 1 .. m - 1 /\ n + (i - 1) \in 1 .. n + (m - 1) /\ ~(n + (i - 1) <= n)
        /\ (n + (i - 1)) - n = i - 1 /\ (i - 1) + 1 = i
    BY <1>1, <1>2
  <2> QED BY <1>1, <1>2, <2>1
<1>7. ASSUME ToRemove(p) PROVE ~Blocks(Head(s), p)
  <2>1. PICK i \in 1 .. m : \A k \in 1 .. i : ~Blocks(s[k], p) BY <1>3, <1>7 DEF ToRemove, s
  <2>2. 1 \in 1 .. i BY <1>1
  <2> QED BY <1>1, <2>1, <2>2
<1>8. ASSUME ToRemove(p), \A j \in DOMAIN tasks : ~Blocks(tasks[j], p)
      PROVE  Removes(Head(s), p) \/ ToRemove(p)'
  <2>1. PICK i \in 1 .. m : Removes(s[i], p) /\ \A k \in 1 .. i : ~Blocks(s[k], p)
    BY <1>3, <1>8 DEF ToRemove, s
  <2>2. CASE i = 1 BY <1>1, <2>1, <2>2
  <2>3. CASE i # 1
    <3>1. i \in 2 .. m BY <1>1, <2>3
    <3>2. n + (i - 1) \in DOMAIN u /\ Removes(u[n + (i - 1)], p) BY <1>3, <1>6, <2>1, <3>1
    <3>3. ASSUME NEW k \in 1 .. n + (i - 1) PROVE ~Blocks(u[k], p)
      <4>1. CASE k <= n
        <5>1. k \in 1 .. n BY <1>2, <4>1
        <5> QED BY <1>3, <1>5, <1>8, <5>1
      <4>2. CASE ~(k <= n)
        <5>1. k - n + 1 \in 2 .. m /\ k - n + 1 \in 1 .. i /\ n + ((k - n + 1) - 1) = k
          BY <1>1, <1>2, <3>1, <4>2
        <5>2. u[k] = s[k - n + 1] BY <1>6, <5>1
        <5> QED BY <2>1, <5>1, <5>2
      <4> QED BY <4>1, <4>2
    <3> QED BY <1>4, <3>2, <3>3 DEF ToRemove
  <2> QED BY <2>2, <2>3
<1>9. ASSUME NEW j \in DOMAIN tasks, Removes(tasks[j], p),
             \A k \in DOMAIN tasks : k <= j => ~Blocks(tasks[k], p)
      PROVE  ToRemove(p)'
  <2>1. j \in 1 .. n BY <1>3
  <2>2. j \in DOMAIN u /\ Removes(u[j], p) BY <1>3, <1>5, <1>9, <2>1
  <2>3. ASSUME NEW k \in 1 .. j PROVE ~Blocks(u[k], p)
    <3>1. k \in 1 .. n /\ k <= j BY <1>2, <2>1
    <3> QED BY <1>3, <1>5, <1>9, <3>1
  <2> QED BY <1>4, <2>2, <2>3 DEF ToRemove
<1> QED BY <1>7, <1>8, <1>9 DEF s

\* A step of the removal that goes on.
LEMMA AloneRemoves ==
  ASSUME Basic, Alone, pc = "removing", pc' = pc, stage' = stage, goal' = goal, todo' = todo, file' = file,
         data' = data, NEW q \in Paths, fs' = fs \/ goal[q].kind = "absent",
         fs'["dst"] = fs["dst"], \A r \in Paths : r # q => fs'["src"][r] = fs["src"][r],
         fs'["src"][q] = fs["src"][q] \/ fs'["src"][q] = Absent,
         toRemove' \in Seq(Superfluous),
         \A p \in Paths : goal[p].kind = "absent" /\ ~Hidden /\ fs["src"][p] # Absent /\ ToRemove(p) =>
           fs'["src"][p] = Absent \/ ToRemove(p)'
  PROVE  Alone'
<1>1. /\ \A r \in Paths : View("dst", r)' = View("dst", r)
      /\ \A r \in Paths : r # q => (Recovered(r)' <=> Recovered(r))
  <2>1. PICK i \in Inodes : TRUE BY Numbers
  <2> QED BY <2>1, OnlyAt
<1>2. fs' = fs => \A r \in Paths : Recovered(r)' <=> Recovered(r) BY TreesSame
<1>3. \A r \in Paths : goal[r].kind # "absent" => (Recovered(r)' <=> Recovered(r)) BY <1>1, <1>2
<1>4. Hidden => Hidden'
  <2> SUFFICES ASSUME NEW r \in Paths, goal[r].kind = "dir", IsFile(fs["src"][r]) PROVE Hidden'
    BY DEF Hidden
  <2>1. fs'["src"][r] = fs["src"][r]
    <3>1. CASE fs' = fs BY <3>1
    <3>2. CASE goal[q].kind = "absent"
      <4>1. r # q BY <3>2
      <4> QED BY <4>1
    <3> QED BY <3>1, <3>2
  <2> QED BY <2>1 DEF Hidden
<1>5. Idle("restore") BY DEF Basic, RestoreInv
<1>6. CopyInv'
  <2>1. ASSUME NEW p \in Paths, goal'[p].kind # "absent" PROVE Hidden' \/ Recovered(p)'
    <3>1. Hidden \/ Recovered(p) BY <2>1 DEF Alone, CopyInv
    <3> QED BY <1>3, <1>4, <2>1, <3>1
  <2>2. todo'["restore"] \in Seq(DirTasks') /\ file'["restore"] = NoFile BY <1>5 DEF Idle
  <2> QED BY <2>1, <2>2 DEF CopyInv
<1>7. RemoveInv'
  <2>1. ASSUME NEW p \in Paths, goal'[p].kind = "absent"
        PROVE  Hidden' \/ fs'["src"][p] = Absent \/ ToRemove(p)'
    <3>1. Hidden \/ fs["src"][p] = Absent \/ ToRemove(p) BY <2>1 DEF Alone, RemoveInv
    <3>2. fs["src"][p] = Absent => fs'["src"][p] = Absent
      <4>1. CASE p = q BY <4>1
      <4>2. CASE p # q BY <4>2
      <4> QED BY <4>1, <4>2
    <3> QED BY <1>4, <2>1, <3>1, <3>2
  <2>2. Superfluous \subseteq Superfluous'
    <3> SUFFICES ASSUME NEW r \in Superfluous PROVE r \in Superfluous' OBVIOUS
    <3>1. r \in Removals /\ r.path \in Paths BY DEF Superfluous, Removals
    <3>2. ~IsFile(fs["src"][r.path]) => ~IsFile(fs'["src"][r.path])
      <4>1. CASE r.path = q BY <4>1, NodeKinds
      <4>2. CASE r.path # q BY <3>1, <4>2
      <4> QED BY <4>1, <4>2
    <3> QED BY <3>1, <3>2 DEF Superfluous
  <2>3. toRemove' \in Seq(Superfluous') BY <2>2, SeqMonotonic
  <2> QED BY <2>1, <2>3 DEF RemoveInv
<1>8. \A p \in Paths : View("dst", p)' = goal'[p] BY <1>1 DEF Alone
<1> QED BY <1>6, <1>7, <1>8 DEF Alone

\* The removal begins at the root once everything is copied.
LEMMA AloneRestored ==
  ASSUME Basic, Alone, Restored PROVE Alone'
<1> DEFINE r == [do |-> "check", path |-> Root]
<1>1. /\ pc = "restoring" /\ todo["restore"] = <<>> /\ file["restore"] = NoFile
      /\ pc' = "removing" /\ toRemove' = <<r>>
      /\ fs' = fs /\ data' = data /\ goal' = goal /\ todo' = todo /\ file' = file /\ stage' = stage
  BY DEF Restored, RestoreOnly, Idle, worker
<1>2. /\ \A t \in Names, p \in Paths : View(t, p)' = View(t, p)
      /\ \A p \in Paths : Recovered(p)' <=> Recovered(p)
      /\ Hidden' <=> Hidden
  BY <1>1, TreesSame
<1>3. r \in Removals /\ r.do = "check" /\ r.path = Root BY RootPrefix DEF Removals
<1> HIDE DEF r
<1>4. DOMAIN toRemove' = 1 .. 1 /\ toRemove'[1] = r BY <1>1
<1>5. ASSUME NEW p \in Paths PROVE ToRemove(p)'
  <2>1. Removes(r, p) /\ ~Blocks(r, p) BY <1>3, RootPrefix DEF Removes, Blocks
  <2> QED BY <1>4, <2>1 DEF ToRemove
<1>6. CopyInv'
  <2>1. ASSUME NEW p \in Paths, goal'[p].kind # "absent" PROVE Hidden' \/ Recovered(p)'
    <3>1. ~ToCopy(p) BY <1>1 DEF ToCopy
    <3>2. Hidden \/ Recovered(p) BY <1>1, <2>1, <3>1 DEF Alone, CopyInv
    <3> QED BY <1>2, <3>2
  <2>2. todo'["restore"] = <<>> /\ file'["restore"] = NoFile BY <1>1
  <2>3. todo'["restore"] \in Seq(DirTasks') BY <2>2
  <2> QED BY <2>1, <2>2, <2>3 DEF CopyInv
<1>7. RemoveInv'
  <2>1. r \in Superfluous' BY <1>3 DEF Superfluous
  <2>2. toRemove' \in Seq(Superfluous') BY <1>1, <2>1
  <2> QED BY <1>5, <2>2 DEF RemoveInv
<1>8. \A p \in Paths : View("dst", p)' = goal'[p] BY <1>1, <1>2 DEF Alone, Names
<1> QED BY <1>1, <1>6, <1>7, <1>8 DEF Alone

\* The first of the calls to remove while restore is alone.
LEMMA AloneRemoval ==
  ASSUME Basic, Alone, pc = "removing", toRemove # <<>>
  PROVE  /\ Head(toRemove).path \in Paths /\ Head(toRemove) \in Superfluous /\ Tail(toRemove) \in Seq(Superfluous)
         /\ Tail(toRemove) \in Seq(Removals) /\ Superfluous \subseteq Removals
         /\ fs["src"] \in Trees /\ fs["dst"] \in Trees
BY TailIn, HeadRemoval, TreesOf DEF Alone, RemoveInv, Superfluous, Basic, Names

\* The checks of a set of paths.
LEMMA CheckEach ==
  ASSUME NEW S \in SUBSET Paths, NEW tasks \in Listings("check", S)
  PROVE  \A x \in S : \E j \in DOMAIN tasks : tasks[j] = Task("check", x)
<1>1. IsFiniteSet(S) BY Numbers, FS_Subset
<1> QED BY <1>1, ListingMeans

\* What is left in the source below a path that has been checked and is none of its
\* children's.
LEMMA LeftBelow ==
  ASSUME Basic, NEW q \in Paths, NEW p \in Paths, IsStrictPrefix(q, p), fs["src"][p] # Absent,
         NEW tasks \in Listings("check", Children(fs["src"], q))
  PROVE  \E j \in DOMAIN tasks : Removes(tasks[j], p)
<1>1. PICK r \in Paths \ {Root} : Parent(r) = q /\ IsPrefix(r, p) BY ChildOnTheWay
<1>2. fs["src"][r] # Absent
  <2>1. fs["src"] \in Trees BY TreesOf DEF Basic, Names
  <2>2. CASE r = p BY <2>2
  <2>3. CASE r # p
    <3>1. IsStrictPrefix(r, p) BY <1>1, <2>3 DEF IsStrictPrefix
    <3> QED BY <2>1, <3>1, TreeMeans, NodeKinds
  <2> QED BY <2>2, <2>3
<1>3. r \in Children(fs["src"], q) /\ Children(fs["src"], q) \in SUBSET Paths BY <1>1, <1>2 DEF Children
<1>4. PICK j \in DOMAIN tasks : tasks[j] = Task("check", r)
  <2>1. \A x \in Children(fs["src"], q) : \E j \in DOMAIN tasks : tasks[j] = Task("check", x)
    BY <1>3, CheckEach
  <2> QED BY <1>3, <2>1
<1>5. Removes(tasks[j], p) BY <1>1, <1>4 DEF Removes, Task
<1> QED BY <1>5

\* The calls of a listing are checks of paths.
LEMMA ChecksOf ==
  ASSUME NEW q, NEW tasks \in Listings("check", Children(fs["src"], q))
  PROVE  /\ tasks \in Seq(Superfluous) /\ tasks \in Seq(Removals)
         /\ \A j \in DOMAIN tasks : tasks[j].do = "check"
         /\ \A j \in DOMAIN tasks, p \in Paths : ~Blocks(tasks[j], p)
<1> DEFINE S == Children(fs["src"], q)
           T == [do : {"check"}, path : S]
<1>1. S \in SUBSET Paths /\ IsFiniteSet(S)
  <2>1. S \in SUBSET Paths BY DEF Children
  <2> QED BY <2>1, Numbers, FS_Subset
<1>2. tasks \in Listings("check", S) OBVIOUS
<1> HIDE DEF S
<1>3. tasks \in Seq(T) /\ \A j \in DOMAIN tasks : tasks[j].do = "check" BY <1>1, <1>2, ListingMeans
<1>4. T \subseteq Superfluous /\ T \subseteq Removals BY <1>1 DEF Superfluous, Removals
<1> HIDE DEF T
<1>5. tasks \in Seq(Superfluous) /\ tasks \in Seq(Removals) BY <1>3, <1>4, SeqMonotonic
<1> QED BY <1>3, <1>5 DEF Blocks

\* A path of both trees: a directory's children are checked, below a file there is nothing.
LEMMA AloneChecks ==
  ASSUME Basic, Alone, CheckBoth PROVE Alone'
<1> DEFINE q == Head(toRemove).path
           rest == Tail(toRemove)
<1>1. /\ pc = "removing" /\ toRemove # <<>> /\ Head(toRemove).do = "check" /\ fs["dst"][q] # Absent
      /\ pc' = pc /\ stage' = stage /\ goal' = goal /\ todo' = todo /\ file' = file /\ data' = data /\ fs' = fs
  BY DEF CheckBoth, Checking, RestoreOnly, worker
<1>2. q \in Paths /\ rest \in Seq(Superfluous) /\ rest \in Seq(Removals) /\ fs["src"] \in Trees
  BY <1>1, AloneRemoval
<1>3. goal[q].kind # "absent" BY <1>1, <1>2, GoalMeans
<1>4. Hidden \/ Recovered(q) BY <1>1, <1>2, <1>3 DEF Alone, CopyInv
<1>5. \A p \in Paths : Removes(Head(toRemove), p) /\ goal[p].kind = "absent" => IsStrictPrefix(q, p)
  BY <1>1, <1>3 DEF Removes, IsStrictPrefix
<1>6. ASSUME NEW tasks \in Seq(Superfluous), toRemove' = tasks \o rest,
             \A j \in DOMAIN tasks, p \in Paths : ~Blocks(tasks[j], p),
             \A p \in Paths : IsStrictPrefix(q, p) /\ ~Hidden /\ fs["src"][p] # Absent =>
               \E j \in DOMAIN tasks : Removes(tasks[j], p)
      PROVE  Alone'
  <2>1. tasks \in Seq(Removals)
    <3>1. Superfluous \subseteq Removals BY DEF Superfluous
    <3> QED BY <1>6, <3>1, SeqMonotonic
  <2> HIDE DEF q
  <2>2. ASSUME NEW p \in Paths, goal[p].kind = "absent", ~Hidden, fs["src"][p] # Absent, ToRemove(p)
        PROVE  ToRemove(p)'
    <3>1. Removes(Head(toRemove), p) \/ ToRemove(p)' BY <1>1, <1>6, <2>1, <2>2, RemovedStill
    <3>2. CASE Removes(Head(toRemove), p)
      <4>1. PICK j \in DOMAIN tasks : Removes(tasks[j], p) BY <1>5, <1>6, <2>2, <3>2
      <4> QED BY <1>1, <1>6, <2>1, <4>1, RemovedStill
    <3> QED BY <3>1, <3>2
  <2>3. toRemove' \in Seq(Superfluous) BY <1>2, <1>6, TwoIn
  <2> QED BY <1>1, <1>2, <2>2, <2>3, AloneRemoves
<1>7. CASE fs["dst"][q] # Dir /\ toRemove' = rest
  <2>1. <<>> \in Seq(Superfluous) /\ toRemove' = <<>> \o rest BY <1>2, <1>7
  <2>2. ~Hidden => IsFile(fs["src"][q])
    <3> SUFFICES ASSUME ~Hidden PROVE IsFile(fs["src"][q]) OBVIOUS
    <3> HIDE DEF q
    <3>1. goal[q].kind # "dir" /\ goal[q].kind \in {"absent", "dir", "file"}
      <4>1. goal[q].kind # "dir" BY <1>2, <1>7, GoalMeans
      <4>2. goal[q] = View("dst", q) BY <1>2, GoalMeans
      <4> QED BY <4>1, <4>2 DEF View
    <3>2. View("src", q).kind = "file" BY <1>2, <1>3, <1>4, <3>1, GoalMeans
    <3> QED BY <1>2, <3>2, ViewMeans DEF Names
  <2>3. ASSUME NEW p \in Paths, IsStrictPrefix(q, p), ~Hidden PROVE fs["src"][p] = Absent
    <3> HIDE DEF q
    <3>1. fs["src"][q] # Dir BY <2>2, <2>3, NodeKinds
    <3> QED BY <1>2, <2>3, <3>1, TreeMeans
  <2>4. DOMAIN <<>> = {} OBVIOUS
  <2> DEFINE none == <<>>
  <2>5. /\ none \in Seq(Superfluous) /\ toRemove' = none \o rest
        /\ \A j \in DOMAIN none, p \in Paths : ~Blocks(none[j], p)
    BY <2>1, <2>4
  <2> HIDE DEF q, rest, none
  <2> QED BY <1>6, <2>3, <2>5
<1>8. CASE /\ fs["dst"][q] = Dir /\ fs["src"][q] = Dir
           /\ \E tasks \in Listings("check", Children(fs["src"], q)) : toRemove' = tasks \o rest
  <2>1. PICK tasks \in Listings("check", Children(fs["src"], q)) : toRemove' = tasks \o rest BY <1>8
  <2> HIDE DEF q, rest
  <2>2. /\ tasks \in Seq(Superfluous)
        /\ \A j \in DOMAIN tasks, p \in Paths : ~Blocks(tasks[j], p)
    BY ChecksOf
  <2>3. \A p \in Paths : IsStrictPrefix(q, p) /\ fs["src"][p] # Absent => \E j \in DOMAIN tasks : Removes(tasks[j], p)
    BY <1>2, LeftBelow
  <2> QED BY <1>6, <2>1, <2>2, <2>3
<1>9. CASE fs["dst"][q] = Dir /\ fs["src"][q] # Dir /\ toRemove' \in Aborted(rest)
  <2>1. Hidden
    <3> SUFFICES ASSUME Recovered(q) PROVE FALSE BY <1>4
    <3> HIDE DEF q
    <3>1. goal[q].kind = "dir" BY <1>2, <1>9, GoalMeans
    <3>2. View("src", q).kind = "dir" BY <1>2, <3>1, GoalMeans
    <3> QED BY <1>2, <1>9, <3>2, ViewMeans DEF Names
  <2>2. toRemove' \in Seq(Superfluous)
    <3>1. PICK k \in 1 .. Len(rest) + 1 : toRemove' = SubSeq(rest, k, Len(rest)) BY <1>9 DEF Aborted
    <3> HIDE DEF rest
    <3>2. Len(rest) \in Nat /\ \A i \in 1 .. Len(rest) : rest[i] \in Superfluous
      BY <1>2, LenProperties, ElementOfSeq
    <3>3. \A i \in k .. Len(rest) : rest[i] \in Superfluous BY <3>2
    <3> QED BY <3>1, <3>2, <3>3, SubSeqProperties
  <2> HIDE DEF q, rest
  <2> QED BY <1>1, <1>2, <2>1, <2>2, AloneRemoves
<1> QED BY <1>7, <1>8, <1>9 DEF CheckBoth

\* Removing what the backup lacks.
LEMMA EntryRemoved ==
  ASSUME Basic, NEW q \in Paths, RemoveEntry(q)
  PROVE  /\ fs'["src"][q] = Absent /\ fs'["dst"] = fs["dst"]
         /\ \A r \in Paths : r # q => fs'["src"][r] = fs["src"][r]
BY TreesOf DEF RemoveEntry, Basic, Names

\* What the backup lacks goes: a file at once, a directory after what is below it.
LEMMA AloneMissing ==
  ASSUME Basic, Alone, CheckMissing PROVE Alone'
<1> DEFINE q == Head(toRemove).path
           rest == Tail(toRemove)
           last == [do |-> "rmdir", path |-> q]
<1>1. /\ pc = "removing" /\ toRemove # <<>> /\ Head(toRemove).do = "check" /\ fs["dst"][q] = Absent
      /\ pc' = pc /\ stage' = stage /\ goal' = goal /\ todo' = todo /\ file' = file /\ data' = data
  BY DEF CheckMissing, Checking, RestoreOnly, worker
<1>2. q \in Paths /\ rest \in Seq(Superfluous) /\ rest \in Seq(Removals) /\ fs["src"] \in Trees
  BY <1>1, AloneRemoval
<1>3. goal[q].kind = "absent" BY <1>1, <1>2, GoalMeans
<1>4. \A p \in Paths : Removes(Head(toRemove), p) => p = q \/ IsStrictPrefix(q, p)
  BY <1>1 DEF Removes, IsStrictPrefix
<1>5. CASE fs["src"][q] # Dir /\ toRemove' = rest /\ ((fs' = fs /\ fs["src"][q] = Absent) \/ RemoveEntry(q))
  <2> DEFINE none == <<>>
  <2>1. none \in Seq(Removals) /\ toRemove' = none \o rest /\ DOMAIN none = {} BY <1>2, <1>5
  <2> HIDE DEF q, rest, none
  <2>2. /\ fs'["src"][q] = Absent /\ fs'["dst"] = fs["dst"]
        /\ \A r \in Paths : r # q => fs'["src"][r] = fs["src"][r]
    BY <1>2, <1>5, EntryRemoved
  <2>3. ASSUME NEW p \in Paths, fs["src"][p] # Absent, ToRemove(p)
        PROVE  fs'["src"][p] = Absent \/ ToRemove(p)'
    <3>1. Removes(Head(toRemove), p) \/ ToRemove(p)' BY <1>1, <2>1, <2>3, RemovedStill DEF rest
    <3>2. CASE p = q BY <2>2, <3>2
    <3>3. ~IsStrictPrefix(q, p) BY <1>2, <1>5, <2>3, TreeMeans
    <3> QED BY <1>4, <3>1, <3>2, <3>3
  <2>4. toRemove' \in Seq(Superfluous) BY <1>2, <1>5
  <2> QED BY <1>1, <1>2, <1>3, <2>2, <2>3, <2>4, AloneRemoves
<1>6. CASE /\ fs["src"][q] = Dir /\ fs' = fs
           /\ \E tasks \in Listings("check", Children(fs["src"], q)) : toRemove' = tasks \o <<last>> \o rest
  <2>1. PICK tasks \in Listings("check", Children(fs["src"], q)) : toRemove' = tasks \o <<last>> \o rest
    BY <1>6
  <2>2. last \in Superfluous /\ last \in Removals /\ last.do = "rmdir" /\ last.path = q
    BY <1>2, <1>3, <1>6, NodeKinds DEF Superfluous, Removals
  <2> HIDE DEF q, rest, last
  <2>3. /\ tasks \in Seq(Superfluous) /\ tasks \in Seq(Removals)
        /\ \A j \in DOMAIN tasks, p \in Paths : ~Blocks(tasks[j], p)
    BY ChecksOf
  <2> DEFINE more == tasks \o <<last>>
             n == Len(tasks)
  <2>4. <<last>> \in Seq(Superfluous) /\ <<last>> \in Seq(Removals) BY <2>2
  <2>5. more \in Seq(Superfluous) /\ more \in Seq(Removals) BY <2>3, <2>4, TwoIn
  <2>6. /\ n \in Nat /\ DOMAIN tasks = 1 .. n /\ DOMAIN more = 1 .. n + 1 /\ more[n + 1] = last
        /\ \A j \in 1 .. n : more[j] = tasks[j]
    BY <2>3, <2>4, ConcatProperties, LenProperties
  <2>7. toRemove' = more \o rest BY <2>1
  <2> HIDE DEF more, n
  <2>8. \A j \in 1 .. n, p \in Paths : ~Blocks(more[j], p) BY <2>3, <2>6
  <2>9. ASSUME NEW p \in Paths, fs["src"][p] # Absent, ToRemove(p) PROVE ToRemove(p)'
    <3>1. CASE IsStrictPrefix(q, p)
      <4>1. PICK j \in DOMAIN tasks : Removes(tasks[j], p) BY <1>2, <2>9, <3>1, LeftBelow
      <4>2. j \in 1 .. n /\ j \in DOMAIN more /\ Removes(more[j], p) BY <2>6, <4>1
      <4>3. \A k \in DOMAIN more : k <= j => ~Blocks(more[k], p)
        <5>1. \A k \in DOMAIN more : k <= j => k \in 1 .. n BY <2>6, <4>2
        <5> QED BY <2>8, <5>1
      <4> QED BY <1>1, <2>5, <2>7, <4>2, <4>3, RemovedStill DEF rest
    <3>2. CASE ~IsStrictPrefix(q, p)
      <4>1. ~Blocks(last, p) BY <2>2, <3>2 DEF Blocks
      <4>2. \A j \in DOMAIN more : ~Blocks(more[j], p)
        <5>1. \A j \in DOMAIN more : j \in 1 .. n \/ j = n + 1 BY <2>6
        <5> QED BY <2>6, <2>8, <4>1, <5>1
      <4>3. Removes(Head(toRemove), p) \/ ToRemove(p)'
        BY <1>1, <2>5, <2>7, <2>9, <4>2, RemovedStill DEF rest
      <4>4. CASE p = q
        <5>1. n + 1 \in DOMAIN more BY <2>6
        <5>2. Removes(more[n + 1], p) BY <2>2, <2>6, <4>4 DEF Removes
        <5> QED BY <1>1, <2>5, <2>7, <4>2, <5>1, <5>2, RemovedStill DEF rest
      <4> QED BY <1>4, <3>2, <4>3, <4>4
    <3> QED BY <3>1, <3>2
  <2>10. toRemove' \in Seq(Superfluous) BY <1>2, <2>5, <2>7, TwoIn
  <2> QED BY <1>1, <1>2, <1>6, <2>9, <2>10, AloneRemoves
<1>7. \/ fs["src"][q] # Dir /\ toRemove' = rest /\ ((fs' = fs /\ fs["src"][q] = Absent) \/ RemoveEntry(q))
      \/ /\ fs["src"][q] = Dir /\ fs' = fs
         /\ \E tasks \in Listings("check", Children(fs["src"], q)) : toRemove' = tasks \o <<last>> \o rest
  BY NodeKinds DEF CheckMissing
<1> QED BY <1>5, <1>6, <1>7

\* rmdir finds the directory empty: what it held was to be removed before it.
LEMMA AloneRmdir ==
  ASSUME Basic, Alone, RemoveDirectory PROVE Alone'
<1> DEFINE q == Head(toRemove).path
           rest == Tail(toRemove)
           none == <<>>
<1>1. /\ pc = "removing" /\ toRemove # <<>> /\ Head(toRemove).do = "rmdir" /\ toRemove' = rest
      /\ pc' = pc /\ stage' = stage /\ goal' = goal /\ todo' = todo /\ file' = file /\ data' = data
      /\ IF fs["src"][q] = Dir /\ Children(fs["src"], q) = {} THEN RemoveEntry(q) ELSE fs' = fs
  BY DEF RemoveDirectory, RestoreOnly, worker
<1>2. /\ q \in Paths /\ rest \in Seq(Superfluous) /\ rest \in Seq(Removals) /\ fs["src"] \in Trees
      /\ fs["dst"] \in Trees /\ Head(toRemove) \in Superfluous
  BY <1>1, AloneRemoval
<1>3. goal[q].kind = "absent" /\ ~IsFile(fs["src"][q]) BY <1>1, <1>2 DEF Superfluous
<1>4. none \in Seq(Removals) /\ toRemove' = none \o rest /\ DOMAIN none = {} BY <1>1, <1>2
<1> HIDE DEF q, rest, none
<1>5. /\ fs'["dst"] = fs["dst"] /\ \A r \in Paths : r # q => fs'["src"][r] = fs["src"][r]
      /\ fs'["src"][q] = fs["src"][q] \/ fs'["src"][q] = Absent
  BY <1>1, <1>2, EntryRemoved
<1>6. ASSUME ~Hidden, fs["src"][q] # Absent PROVE fs'["src"][q] = Absent
  <2>1. fs["src"][q] = Dir BY <1>2, <1>3, <1>6, TreeMeans, NodeKinds
  <2>2. CASE Children(fs["src"], q) = {} BY <1>1, <1>2, <2>1, <2>2, EntryRemoved
  <2>3. CASE Children(fs["src"], q) # {}
    <3>1. PICK c \in Paths \ {Root} : Parent(c) = q /\ fs["src"][c] # Absent BY <2>3 DEF Children
    <3>2. IsStrictPrefix(q, c) BY <3>1, ParentPrefix
    <3>3. fs["dst"][q] = Absent BY <1>2, <1>3, GoalMeans
    <3>4. fs["dst"][c] = Absent BY <1>2, <3>2, <3>3, TreeMeans, NodeKinds
    <3>5. goal[c].kind = "absent" BY <3>4, GoalMeans
    <3>6. ToRemove(c) BY <1>1, <1>6, <3>1, <3>5 DEF Alone, RemoveInv
    <3>7. Blocks(Head(toRemove), c) BY <1>1, <3>2 DEF Blocks, q
    <3> QED BY <1>1, <1>4, <3>6, <3>7, RemovedStill DEF rest
  <2> QED BY <2>2, <2>3
<1>7. ASSUME NEW p \in Paths, ~Hidden, fs["src"][p] # Absent, ToRemove(p)
      PROVE  fs'["src"][p] = Absent \/ ToRemove(p)'
  <2>1. Removes(Head(toRemove), p) \/ ToRemove(p)' BY <1>1, <1>4, <1>7, RemovedStill DEF rest
  <2>2. CASE Removes(Head(toRemove), p)
    <3>1. p = q BY <1>1, <2>2 DEF Removes, q
    <3> QED BY <1>6, <1>7, <3>1
  <2> QED BY <2>1, <2>2
<1>8. toRemove' \in Seq(Superfluous) BY <1>1, <1>2
<1> QED BY <1>1, <1>2, <1>3, <1>5, <1>7, <1>8, AloneRemoves

\* The restore of a pair without a worker begins with everything still to be copied.
LEMMA AloneBegins ==
  ASSUME Basic, Restore, mode' = "alone" PROVE Alone'
<1> DEFINE task == Task("copy", Root)
<1>1. /\ pc = "idle" /\ pc' = "restoring" /\ stage = "dead" /\ stage' = stage
      /\ todo' = [todo EXCEPT !["restore"] = <<task>>]
      /\ goal' = [p \in Paths |-> View("dst", p)]
      /\ fs' = fs /\ data' = data /\ file' = file
  BY DEF Restore, MayCommand, trees, worker
<1>2. file'["restore"] = NoFile BY <1>1 DEF Basic, RestoreInv, Idle
<1>3. task \in Tasks /\ task.path = Root /\ task.do = "copy" BY TaskType, RootPrefix
<1> HIDE DEF task
<1>4. todo'["restore"] = <<task>> BY <1>1, CopierNames DEF Basic, TypeOK
<1>5. ASSUME NEW p \in Paths PROVE ToCopy(p)'
  <2>1. Covers(task, p) BY <1>3, RootPrefix DEF Covers
  <2>2. DOMAIN <<task>> = 1 .. 1 /\ <<task>>[1] = task OBVIOUS
  <2> QED BY <1>4, <2>1, <2>2 DEF ToCopy
<1>6. task \in DirTasks' BY <1>3 DEF DirTasks
<1>7. todo'["restore"] \in Seq(DirTasks') BY <1>4, <1>6
<1>8. CopyInv' BY <1>1, <1>2, <1>5, <1>7 DEF CopyInv
<1>9. \A p \in Paths : View("dst", p)' = goal'[p] BY <1>1 DEF View
<1> QED BY <1>1, <1>8, <1>9 DEF Alone

\* What a restore that is alone has done and still has to do.
LEMMA AloneStep ==
  ASSUME Basic, AloneInv, [Next]_vars PROVE AloneInv'
<1>1. CASE User BY <1>1 DEF User, Write, Unlink, MkDir, RmDir, UserDid, AloneInv
<1>2. CASE End \/ StartAgain BY <1>2 DEF End, StartAgain, MayCommand, AloneInv
<1>3. CASE Restore BY <1>3, AloneBegins DEF AloneInv
<1>4. CASE Worker
  <2>1. mode' = mode /\ pc' = pc
    BY <1>4 DEF Worker, StartLoop, WatchDirectory, HandleSelf, HandleDelete, HandleChange, WorkerOnly,
           supervisor, Copy, EntryGone, EnterDirectory, MakeDirectory, MakeFails, ListDirectory, ListFails,
           SkipFile, OpenFile, OpenFails, ReadFile, WriteFile, Fails, SameWorker, CopierOnly
  <2>2. stage # "dead"
    BY <1>4 DEF Worker, StartLoop, WatchDirectory, HandleSelf, HandleDelete, HandleChange, Handling, Waiting
  <2> QED BY <2>1, <2>2 DEF AloneInv, Alone
<1>5. CASE Supervisor
  <2>1. mode' = mode
    BY <1>5 DEF Supervisor, Copy, EntryGone, EnterDirectory, MakeDirectory, MakeFails, ListDirectory, ListFails,
           SkipFile, OpenFile, OpenFails, ReadFile, WriteFile, Fails, CopierOnly,
           Restored, CheckBoth, CheckMissing, RemoveDirectory, Finished, RestoreOnly
  <2>2. pc # "idle"
    BY <1>5 DEF Basic, RestoreInv, Idle, Supervisor, Copy, EntryGone, EnterDirectory, MakeDirectory, MakeFails,
           ListDirectory, ListFails, SkipFile, OpenFile, OpenFails, ReadFile, WriteFile, Doing, Restored,
           CheckBoth, CheckMissing, Checking, RemoveDirectory, Finished
  <2>3. CASE mode # "alone" BY <2>1, <2>3 DEF AloneInv
  <2>4. CASE mode = "alone"
    <3>1. Alone BY <2>2, <2>4 DEF AloneInv
    <3>2. CASE Copy("restore") BY <2>2, <2>4, <3>2, AloneCopy
    <3>3. CASE Restored \/ CheckBoth \/ CheckMissing \/ RemoveDirectory
      BY <3>1, <3>3, AloneRestored, AloneChecks, AloneMissing, AloneRmdir DEF AloneInv
    <3>4. CASE Finished BY <3>4 DEF Finished, AloneInv
    <3> QED BY <1>5, <3>2, <3>3, <3>4 DEF Supervisor
  <2> QED BY <2>3, <2>4
<1>6. CASE UNCHANGED vars
  <2>1. fs' = fs /\ data' = data /\ todo' = todo /\ file' = file /\ pc' = pc /\ goal' = goal /\ stage' = stage
        /\ toRemove' = toRemove /\ mode' = mode
    BY <1>6 DEF vars, trees, supervisor, worker
  <2>2. AloneInv' <=> AloneInv
    <3>1. \A p \in Paths : Recovered(p)' <=> Recovered(p) BY <2>1, TreesSame
    <3>2. Hidden' <=> Hidden BY <2>1, TreesSame
    <3>3. \A p \in Paths : View("dst", p)' = View("dst", p) BY <2>1, TreesSame DEF Names
    <3>4. \A p \in Paths : (ToCopy(p)' <=> ToCopy(p)) /\ (ToRemove(p)' <=> ToRemove(p))
      BY <2>1 DEF ToCopy, ToRemove
    <3>5. DirTasks' = DirTasks /\ Superfluous' = Superfluous BY <2>1 DEF DirTasks, Superfluous
    <3>6. CopyInv' <=> CopyInv BY <2>1, <3>1, <3>2, <3>4, <3>5 DEF CopyInv
    <3>7. RemoveInv' <=> RemoveInv BY <2>1, <3>2, <3>4, <3>5 DEF RemoveInv
    <3> QED BY <2>1, <3>3, <3>6, <3>7 DEF AloneInv, Alone
  <2> QED BY <2>2
<1> QED BY <1>1, <1>2, <1>3, <1>4, <1>5, <1>6 DEF Next

-----------------------------------------------------------------------------
\* The elements of a sequence that is appended to, joined, or has lost its head.
LEMMA Elements ==
  ASSUME NEW S, NEW s \in Seq(S)
  PROVE  /\ ToSet(s) \subseteq S
         /\ \A x : x \in ToSet(s) <=> \E i \in DOMAIN s : s[i] = x
         /\ \A e \in S : ToSet(Append(s, e)) = ToSet(s) \cup {e}
         /\ \A t \in Seq(S) : ToSet(t \o s) = ToSet(t) \cup ToSet(s)
         /\ s # <<>> => ToSet(s) = {Head(s)} \cup ToSet(Tail(s))
<1>0. DOMAIN s = 1 .. Len(s) /\ Len(s) \in Nat BY LenProperties
<1>1. ToSet(s) \subseteq S BY <1>0 DEF ToSet
<1>2. \A x : x \in ToSet(s) <=> \E i \in DOMAIN s : s[i] = x BY DEF ToSet
<1>3. ASSUME NEW e \in S PROVE ToSet(Append(s, e)) = ToSet(s) \cup {e}
  <2>1. /\ DOMAIN Append(s, e) = 1 .. Len(s) + 1
        /\ \A i \in 1 .. Len(s) : Append(s, e)[i] = s[i]
        /\ Append(s, e)[Len(s) + 1] = e
    BY AppendProperties, LenProperties
  <2>2. \A x : x \in ToSet(Append(s, e)) <=> \E i \in 1 .. Len(s) + 1 : Append(s, e)[i] = x
    BY <2>1 DEF ToSet
  <2> QED BY <1>0, <1>2, <2>1, <2>2
<1>4. ASSUME NEW t \in Seq(S) PROVE ToSet(t \o s) = ToSet(t) \cup ToSet(s)
  <2>1. /\ Len(t \o s) = Len(t) + Len(s) /\ t \o s \in Seq(S)
        /\ \A i \in 1 .. Len(t) : (t \o s)[i] = t[i]
        /\ \A i \in 1 .. Len(s) : (t \o s)[Len(t) + i] = s[i]
    BY ConcatProperties
  <2>2. DOMAIN (t \o s) = 1 .. Len(t) + Len(s) /\ DOMAIN t = 1 .. Len(t) /\ Len(t) \in Nat
    BY <2>1, LenProperties
  <2>3. \A x : x \in ToSet(t \o s) <=> \E i \in 1 .. Len(t) + Len(s) : (t \o s)[i] = x BY <2>2 DEF ToSet
  <2>4. \A x : x \in ToSet(t) <=> \E i \in 1 .. Len(t) : t[i] = x BY <2>2 DEF ToSet
  <2>5. \A x : x \in ToSet(s) <=> \E i \in 1 .. Len(s) : s[i] = x BY <1>0 DEF ToSet
  <2>6. ASSUME NEW x, x \in ToSet(t \o s) PROVE x \in ToSet(t) \cup ToSet(s)
    <3>1. PICK i \in 1 .. Len(t) + Len(s) : (t \o s)[i] = x BY <2>3, <2>6
    <3>2. CASE i <= Len(t)
      <4>1. i \in 1 .. Len(t) BY <1>0, <2>2, <3>2
      <4> QED BY <2>1, <2>4, <3>1, <4>1
    <3>3. CASE i > Len(t)
      <4>1. i - Len(t) \in 1 .. Len(s) /\ Len(t) + (i - Len(t)) = i BY <1>0, <2>2, <3>3
      <4> QED BY <2>1, <2>5, <3>1, <4>1
    <3> QED BY <1>0, <2>2, <3>2, <3>3
  <2>7. ASSUME NEW x, x \in ToSet(t) PROVE x \in ToSet(t \o s)
    <3>1. PICK i \in 1 .. Len(t) : t[i] = x BY <2>4, <2>7
    <3>2. i \in 1 .. Len(t) + Len(s) BY <1>0, <2>2
    <3> QED BY <2>1, <2>3, <3>1, <3>2
  <2>8. ASSUME NEW x, x \in ToSet(s) PROVE x \in ToSet(t \o s)
    <3>1. PICK i \in 1 .. Len(s) : s[i] = x BY <2>5, <2>8
    <3>2. Len(t) + i \in 1 .. Len(t) + Len(s) BY <1>0, <2>2
    <3> QED BY <2>1, <2>3, <3>1, <3>2
  <2> QED BY <2>6, <2>7, <2>8
<1>5. ASSUME s # <<>> PROVE ToSet(s) = {Head(s)} \cup ToSet(Tail(s))
  <2>1. /\ Head(s) = s[1] /\ Tail(s) \in Seq(S) /\ Len(Tail(s)) = Len(s) - 1
        /\ \A i \in 1 .. Len(Tail(s)) : Tail(s)[i] = s[i + 1]
    BY <1>5, HeadTailProperties
  <2>2. Len(s) >= 1 BY <1>0, <1>5, EmptySeq
  <2>3. DOMAIN Tail(s) = 1 .. Len(s) - 1 BY <2>1, LenProperties
  <2>4. \A x : x \in ToSet(Tail(s)) <=> \E i \in 1 .. Len(s) - 1 : Tail(s)[i] = x BY <2>3 DEF ToSet
  <2>5. \A x : x \in ToSet(s) <=> \E i \in 1 .. Len(s) : s[i] = x BY <1>0 DEF ToSet
  <2>6. ASSUME NEW x, x \in ToSet(s), x # Head(s) PROVE x \in ToSet(Tail(s))
    <3>1. PICK i \in 1 .. Len(s) : s[i] = x BY <2>5, <2>6
    <3>2. i - 1 \in 1 .. Len(s) - 1 /\ (i - 1) + 1 = i BY <1>0, <2>1, <2>6, <3>1
    <3> QED BY <2>1, <2>4, <3>1, <3>2
  <2>7. ASSUME NEW x, x \in ToSet(Tail(s)) PROVE x \in ToSet(s)
    <3>1. PICK i \in 1 .. Len(s) - 1 : Tail(s)[i] = x BY <2>4, <2>7
    <3>2. i + 1 \in 1 .. Len(s) BY <1>0, <2>2
    <3> QED BY <2>1, <2>5, <3>1, <3>2
  <2>8. Head(s) \in ToSet(s)
    <3>1. 1 \in 1 .. Len(s) BY <1>0, <2>2
    <3> QED BY <2>1, <2>5, <3>1
  <2> QED BY <2>6, <2>7, <2>8
<1> QED BY <1>1, <1>2, <1>3, <1>4, <1>5

\* An event of a watched directory is the last one of the queue afterwards; others are lost.
LEMMA QueuedMeans ==
  ASSUME NEW q \in Seq(Events), NEW e \in Events, NEW about,
         about = IF e.kind = "self" THEN e.path ELSE Parent(e.path)
  PROVE  /\ about \notin watched => Queued(q, e) = q
         /\ Queued(q, e) \in Seq(Events)
         /\ DOMAIN q \subseteq DOMAIN Queued(q, e) /\ \A i \in DOMAIN q : Queued(q, e)[i] = q[i]
         /\ about \in watched =>
              /\ ToSet(Queued(q, e)) = ToSet(q) \cup {e}
              /\ \E n \in DOMAIN Queued(q, e) :
                   /\ Queued(q, e)[n] = e
                   /\ \A i \in DOMAIN Queued(q, e) :
                        i \in Nat /\ n \in Nat /\ i <= n /\ (i \notin DOMAIN q => Queued(q, e)[i] = e)
<1>0. DOMAIN q = 1 .. Len(q) /\ Len(q) \in Nat BY LenProperties
<1>1. CASE about \notin watched BY <1>1 DEF Queued
<1>2. CASE about \in watched /\ q # <<>> /\ Last(q) = e
  <2>1. Queued(q, e) = q BY <1>2 DEF Queued
  <2>2. Len(q) # 0 BY <1>2, EmptySeq
  <2>3. Len(q) \in DOMAIN q BY <1>0, <2>2
  <2>4. q[Len(q)] = e BY <1>2 DEF Last
  <2>5. e \in ToSet(q) BY <2>3, <2>4, Elements
  <2>6. \A i \in DOMAIN q : i \in Nat /\ i <= Len(q) BY <1>0
  <2>7. \E n \in DOMAIN q :
          /\ q[n] = e
          /\ \A i \in DOMAIN q : i \in Nat /\ n \in Nat /\ i <= n /\ (i \notin DOMAIN q => q[i] = e)
    BY <1>0, <2>3, <2>4, <2>6
  <2>8. ToSet(q) = ToSet(q) \cup {e} BY <2>5
  <2> QED BY <1>2, <2>1, <2>7, <2>8
<1>3. CASE about \in watched /\ ~(q # <<>> /\ Last(q) = e)
  <2>1. Queued(q, e) = Append(q, e) BY <1>3 DEF Queued
  <2>2. /\ Append(q, e) \in Seq(Events) /\ DOMAIN Append(q, e) = 1 .. Len(q) + 1
        /\ \A i \in 1 .. Len(q) : Append(q, e)[i] = q[i]
        /\ Append(q, e)[Len(q) + 1] = e
    BY AppendProperties, LenProperties
  <2>3. ToSet(Append(q, e)) = ToSet(q) \cup {e} BY Elements
  <2>4. Len(q) + 1 \in 1 .. Len(q) + 1 BY <1>0
  <2>5. \A i \in 1 .. Len(q) + 1 :
          i \in Nat /\ i <= Len(q) + 1 /\ (i \notin 1 .. Len(q) => Append(q, e)[i] = e)
    BY <1>0, <2>2
  <2>6. 1 .. Len(q) \subseteq 1 .. Len(q) + 1 BY <1>0
  <2> DEFINE r == Append(q, e)
  <2>7. \E n \in DOMAIN r :
          /\ r[n] = e
          /\ \A i \in DOMAIN r : i \in Nat /\ n \in Nat /\ i <= n /\ (i \notin DOMAIN q => r[i] = e)
    BY <1>0, <2>2, <2>4, <2>5
  <2>8. r \in Seq(Events) /\ DOMAIN q \subseteq DOMAIN r /\ \A i \in DOMAIN q : r[i] = q[i]
    BY <1>0, <2>2, <2>6
  <2> HIDE DEF r
  <2>9. Queued(q, e) = r BY <2>1 DEF r
  <2>10. ToSet(r) = ToSet(q) \cup {e} BY <2>3 DEF r
  <2> QED BY <1>3, <2>7, <2>8, <2>9, <2>10
<1> QED BY <1>1, <1>2, <1>3

\* What a change does to the queue.
LEMMA ChangedMeans ==
  ASSUME TypeOK, NEW p \in Paths, NEW b \in BOOLEAN, Changed(p, b)
  PROVE  LET e == Event("changed", p, b)
         IN  /\ queue' \in Seq(Events) /\ missed \subseteq missed' /\ missed' \subseteq missed \cup Below(p)
             /\ e.kind = "changed" /\ e.path = p /\ e.isdir = b
             /\ ToSet(queue) \subseteq ToSet(queue') /\ ToSet(queue') \subseteq ToSet(queue) \cup {e}
             /\ DOMAIN queue \subseteq DOMAIN queue' /\ \A i \in DOMAIN queue : queue'[i] = queue[i]
             /\ Parent(p) \notin watched => queue' = queue
             /\ Parent(p) \in watched =>
                  /\ e \in ToSet(queue')
                  /\ \E n \in DOMAIN queue' :
                       /\ queue'[n] = e
                       /\ \A i \in DOMAIN queue' :
                            i \in Nat /\ n \in Nat /\ i <= n /\ (i \notin DOMAIN queue => queue'[i] = e)
             /\ ~Waiting /\ stage # "dead" /\ Parent(p) \in listed \ watched => Below(p) \subseteq missed'
<1> DEFINE e == Event("changed", p, b)
<1>1. queue \in Seq(Events) /\ queue' = Queued(queue, e) BY DEF TypeOK, Changed
<1>2. e \in Events /\ e.kind = "changed" /\ e.path = p /\ e.isdir = b BY EventType
<1>3. Parent(p) = IF e.kind = "self" THEN e.path ELSE Parent(e.path) BY <1>2
<1>4. /\ missed \subseteq missed' /\ missed' \subseteq missed \cup Below(p)
      /\ ~Waiting /\ stage # "dead" /\ Parent(p) \in listed \ watched => Below(p) \subseteq missed'
  BY DEF Changed, Missed
<1> HIDE DEF e
<1>5. /\ Parent(p) \notin watched => queue' = queue
      /\ queue' \in Seq(Events)
      /\ DOMAIN queue \subseteq DOMAIN queue' /\ \A i \in DOMAIN queue : queue'[i] = queue[i]
      /\ Parent(p) \in watched =>
           /\ ToSet(queue') = ToSet(queue) \cup {e}
           /\ \E n \in DOMAIN queue' :
                /\ queue'[n] = e
                /\ \A i \in DOMAIN queue' :
                     i \in Nat /\ n \in Nat /\ i <= n /\ (i \notin DOMAIN queue => queue'[i] = e)
  BY <1>1, <1>2, <1>3, QueuedMeans
<1> QED BY <1>1, <1>2, <1>4, <1>5 DEF e
\* What a removal does to the queue, when the path itself has no watch.
LEMMA RemovedMeans ==
  ASSUME TypeOK, NEW p \in Paths, NEW b \in BOOLEAN, Removed(p, b), p \notin watched
  PROVE  LET e == Event("deleted", p, b)
         IN  /\ queue' \in Seq(Events) /\ missed \subseteq missed' /\ missed' \subseteq missed \cup Below(p)
             /\ e.kind = "deleted" /\ e.path = p
             /\ ToSet(queue) \subseteq ToSet(queue') /\ ToSet(queue') \subseteq ToSet(queue) \cup {e}
             /\ DOMAIN queue \subseteq DOMAIN queue' /\ \A i \in DOMAIN queue : queue'[i] = queue[i]
             /\ Parent(p) \notin watched => queue' = queue
             /\ Parent(p) \in watched =>
                  /\ e \in ToSet(queue')
                  /\ \E n \in DOMAIN queue' :
                       /\ queue'[n] = e
                       /\ \A i \in DOMAIN queue' :
                            i \in Nat /\ n \in Nat /\ i <= n /\ (i \notin DOMAIN queue => queue'[i] = e)
             /\ (~Waiting \/ fs["dst"][p] # Absent) /\ stage # "dead" /\ Parent(p) \in listed \ watched =>
                  Below(p) \subseteq missed'
<1> DEFINE e == Event("deleted", p, b)
           s == Event("self", p, b)
<1>1. e \in Events /\ e.kind = "deleted" /\ e.path = p BY EventType
<1>2. s \in Events /\ s.kind = "self" /\ s.path = p BY EventType
<1>3. queue \in Seq(Events) /\ queue' = Queued(Queued(queue, s), e) BY DEF TypeOK, Removed
<1>4. /\ missed \subseteq missed' /\ missed' \subseteq missed \cup Below(p)
      /\ (~Waiting \/ fs["dst"][p] # Absent) /\ stage # "dead" /\ Parent(p) \in listed \ watched =>
           Below(p) \subseteq missed'
  BY DEF Removed, Missed
<1> HIDE DEF e, s
<1>5. p = IF s.kind = "self" THEN s.path ELSE Parent(s.path) BY <1>2
<1>6. Queued(queue, s) = queue BY <1>2, <1>3, <1>5, QueuedMeans
<1>7. Parent(p) = IF e.kind = "self" THEN e.path ELSE Parent(e.path) BY <1>1
<1>8. queue' = Queued(queue, e) BY <1>3, <1>6
<1>9. /\ Parent(p) \notin watched => queue' = queue
      /\ queue' \in Seq(Events)
      /\ DOMAIN queue \subseteq DOMAIN queue' /\ \A i \in DOMAIN queue : queue'[i] = queue[i]
      /\ Parent(p) \in watched =>
           /\ ToSet(queue') = ToSet(queue) \cup {e}
           /\ \E n \in DOMAIN queue' :
                /\ queue'[n] = e
                /\ \A i \in DOMAIN queue' :
                     i \in Nat /\ n \in Nat /\ i <= n /\ (i \notin DOMAIN queue => queue'[i] = e)
  BY <1>1, <1>3, <1>7, <1>8, QueuedMeans
<1> QED BY <1>1, <1>4, <1>9 DEF e

\* A watched path that goes is announced to the worker as itself.
LEMMA SelfQueued ==
  ASSUME TypeOK, NEW p \in Paths, NEW b \in BOOLEAN, Removed(p, b), p \in watched
  PROVE  \E e \in ToSet(queue') : e.kind = "self"
<1> DEFINE e == Event("deleted", p, b)
           s == Event("self", p, b)
<1>1. e \in Events /\ e.kind = "deleted" /\ e.path = p BY EventType
<1>2. s \in Events /\ s.kind = "self" /\ s.path = p BY EventType
<1>3. queue \in Seq(Events) /\ queue' = Queued(Queued(queue, s), e) BY DEF TypeOK, Removed
<1> HIDE DEF e, s
<1>5. p = IF s.kind = "self" THEN s.path ELSE Parent(s.path) BY <1>2
<1> DEFINE q == Queued(queue, s)
<1>6. q \in Seq(Events) /\ s \in ToSet(q) BY <1>2, <1>3, <1>5, QueuedMeans
<1> HIDE DEF q
<1>7. queue' = Queued(q, e) BY <1>3 DEF q
<1>8. DOMAIN q \subseteq DOMAIN queue' /\ \A i \in DOMAIN q : queue'[i] = q[i]
  BY <1>1, <1>6, <1>7, QueuedMeans
<1>9. PICK i \in DOMAIN q : q[i] = s BY <1>6, Elements
<1>10. s \in ToSet(queue') BY <1>8, <1>9 DEF ToSet
<1> QED BY <1>2, <1>10

\* What is a prefix of the parent is a strict prefix of the path; the others are the path itself.
LEMMA AtOrAbove ==
  ASSUME NEW p \in Paths, p # Root
  PROVE  /\ Parent(p) \in Paths /\ Parent(p) # p /\ IsPrefix(Parent(p), p)
         /\ \A q \in Paths : IsPrefix(q, Parent(p)) => IsPrefix(q, p) /\ q # p
         /\ \A q \in Paths : IsPrefix(q, p) => q = p \/ IsPrefix(q, Parent(p))
<1>1. Parent(p) \in Paths /\ Parent(p) # p /\ IsPrefix(Parent(p), p) BY ParentPrefix DEF IsStrictPrefix
<1>2. ASSUME NEW q \in Paths, IsPrefix(q, Parent(p)) PROVE IsPrefix(q, p) /\ q # p
  BY <1>1, <1>2, PrefixOrder
<1>3. ASSUME NEW q \in Paths, IsPrefix(q, p) PROVE q = p \/ IsPrefix(q, Parent(p))
  BY <1>3, ParentPrefix DEF IsStrictPrefix
<1> QED BY <1>1, <1>2, <1>3

\* The kind of what is under a path.
LEMMA KindOf ==
  \A t, p : View(t, p).kind = IF fs[t][p] = Absent THEN "absent" ELSE IF fs[t][p] = Dir THEN "dir" ELSE "file"
BY DEF View

\* A state as every step finds it, whatever the worker has mirrored.
Well == Basic /\ RootsInv /\ OpenInv /\ StageInv /\ MissedInv

\* What the elements of the sequences are.
LEMMA Kinds ==
  ASSUME TypeOK
  PROVE  /\ \A e \in ToSet(queue) : e \in Events /\ e.path \in Paths /\ e.isdir \in BOOLEAN
         /\ \A t \in ToSet(todo["worker"]) : t \in Tasks /\ t.path \in Paths /\ t.do \in {"copy", "make", "list"}
         /\ \A q \in ToSet(toWatch) : q \in Paths
         /\ \A i \in DOMAIN queue : queue[i] \in ToSet(queue)
<1>1. /\ queue \in Seq(Events) /\ toWatch \in Seq(Paths) /\ todo["worker"] \in Seq(Tasks)
  BY CopierNames DEF TypeOK
<1>2. \A e \in ToSet(queue) : e \in Events /\ e.path \in Paths /\ e.isdir \in BOOLEAN
  <2>1. ToSet(queue) \subseteq Events BY <1>1, Elements
  <2> QED BY <2>1 DEF Events
<1>3. \A t \in ToSet(todo["worker"]) : t \in Tasks /\ t.path \in Paths /\ t.do \in {"copy", "make", "list"}
  <2>1. ToSet(todo["worker"]) \subseteq Tasks BY <1>1, Elements
  <2> QED BY <2>1 DEF Tasks
<1>4. \A q \in ToSet(toWatch) : q \in Paths BY <1>1, Elements
<1>5. \A i \in DOMAIN queue : queue[i] \in ToSet(queue) BY <1>1, Elements
<1> QED BY <1>2, <1>3, <1>4, <1>5

\* A change of the source at a path, where the worker finds out or it is missed.
SourceGains(p, b) ==
  /\ Changed(p, b) /\ fs["src"][Parent(p)] = Dir
  /\ fs' \in [Names -> Trees] /\ fs'["dst"] = fs["dst"]
  /\ \A q \in Paths : q # p => fs'["src"][q] = fs["src"][q]
  /\ fs["src"][p] # Absent => fs'["src"][p] = fs["src"][p]
  /\ b => fs'["src"][p] = Dir
  /\ fs'["src"][p] = Dir => b \/ fs["src"][p] = Dir
  /\ \A q \in Paths : IsFile(fs["dst"][q]) => data'[fs["dst"][q]] = data[fs["dst"][q]]
  /\ \A q \in Paths : q # p /\ IsFile(fs["src"][q]) => data'[fs["src"][q]] = data[fs["src"][q]]
WorkerWaits ==
  /\ todo'["worker"] = todo["worker"] /\ file'["worker"] = file["worker"]
  /\ UNCHANGED <<stage, toWatch, watched, listed, leftover>>

\* The worker learns of it, or will come across it.
LEMMA GainNoticed ==
  ASSUME Well, Alive, Mirroring, NEW p \in Paths \ {Root}, NEW b \in BOOLEAN,
         SourceGains(p, b), WorkerWaits
  PROVE  /\ p \in missed' \/ ToMirror(p)'
         /\ p \in missed' \/ ToBeListed(p)'
<1>0. TypeOK /\ Changed(p, b) /\ fs["src"][Parent(p)] = Dir /\ stage # "dead"
  BY DEF Well, Basic, SourceGains, Alive
<1>1. /\ Parent(p) \in Paths /\ IsPrefix(Parent(p), p) /\ p \in Below(p)
      /\ \A q \in Paths : IsPrefix(q, Parent(p)) => IsPrefix(q, p) /\ q # p
  BY AtOrAbove, PrefixOrder DEF Below
<1>2. missed \subseteq missed' /\ ToSet(queue) \subseteq ToSet(queue') /\ todo'["worker"] = todo["worker"]
  BY <1>0, ChangedMeans DEF WorkerWaits
<1>3. CASE Parent(p) \in watched
  <2>1. Event("changed", p, b) \in ToSet(queue') BY <1>0, <1>3, ChangedMeans
  <2>2. Event("changed", p, b).kind = "changed" /\ Event("changed", p, b).path = p BY EventType
  <2>3. Announced(p)' BY <2>1, <2>2, PrefixOrder DEF Announced, Announces
  <2> QED BY <2>3 DEF ToMirror, ToBeListed
<1>4. ASSUME Announced(Parent(p)) PROVE Announced(p)'
  BY <1>0, <1>1, <1>2, <1>4, Kinds DEF Announced, Announces
<1>5. CASE Parent(p) \notin watched /\ Parent(p) \notin listed
  <2>1. Parent(p) \in missed \/ ToBeListed(Parent(p)) BY <1>0, <1>1, <1>5 DEF Mirroring, ListInv
  <2>2. CASE Parent(p) \in missed
    <3>1. p \in missed BY <1>1, <2>2 DEF Well, MissedInv, Below
    <3> QED BY <1>2, <3>1
  <2>3. CASE Announced(Parent(p)) BY <1>4, <2>3 DEF ToMirror, ToBeListed
  <2>4. CASE \E t \in ToSet(todo["worker"]) : IsPrefix(t.path, Parent(p))
    <3>1. PICK t \in ToSet(todo["worker"]) : IsPrefix(t.path, Parent(p)) BY <2>4
    <3>2. t.path \in Paths /\ IsPrefix(t.path, p) /\ t.path # p BY <1>0, <1>1, <3>1, Kinds
    <3>3. Covers(t, p) BY <3>2 DEF Covers
    <3> QED BY <1>2, <3>2, <3>3 DEF ToMirror, ToBeListed
  <2> QED BY <2>1, <2>2, <2>3, <2>4 DEF ToBeListed
<1>6. CASE Parent(p) \notin watched /\ Parent(p) \in listed
  <2>1. CASE ~Waiting BY <1>0, <1>1, <1>6, <2>1, ChangedMeans
  <2>2. CASE Waiting
    <3>1. stage = "loop" /\ ToSet(toWatch) = {} BY <2>2 DEF Waiting, ToSet
    <3>2. Announced(Parent(p)) BY <1>0, <1>1, <1>6, <3>1 DEF Mirroring, WatchInv, ToBeWatched, Announced
    <3> QED BY <1>4, <3>2 DEF ToMirror, ToBeListed
  <2> QED BY <2>1, <2>2
<1> QED BY <1>3, <1>5, <1>6

\* The worker's picture of the source stays right.
LEMMA GainMirrored ==
  ASSUME Well, Alive, Mirroring, NEW p \in Paths \ {Root}, NEW b \in BOOLEAN,
         SourceGains(p, b), WorkerWaits
  PROVE  Mirroring'
<1> DEFINE e == Event("changed", p, b)
<1>0. /\ TypeOK /\ Changed(p, b) /\ fs["src"][Parent(p)] = Dir /\ fs'["dst"] = fs["dst"]
      /\ \A q \in Paths : q # p => fs'["src"][q] = fs["src"][q]
      /\ fs["src"][p] # Absent => fs'["src"][p] = fs["src"][p]
      /\ b => fs'["src"][p] = Dir
      /\ fs'["src"][p] = Dir => b \/ fs["src"][p] = Dir
  BY DEF Well, Basic, SourceGains
<1>1. /\ todo'["worker"] = todo["worker"] /\ file'["worker"] = file["worker"] /\ stage' = stage
      /\ toWatch' = toWatch /\ watched' = watched /\ listed' = listed /\ leftover' = leftover
  BY DEF WorkerWaits
<1>2. /\ missed \subseteq missed' /\ ToSet(queue) \subseteq ToSet(queue') /\ ToSet(queue') \subseteq ToSet(queue) \cup {e}
      /\ e.kind = "changed" /\ e.path = p /\ e.isdir = b
      /\ DOMAIN queue \subseteq DOMAIN queue' /\ \A i \in DOMAIN queue : queue'[i] = queue[i]
      /\ Parent(p) \notin watched => queue' = queue
      /\ Parent(p) \in watched =>
           /\ e \in ToSet(queue')
           /\ \E n \in DOMAIN queue' :
                /\ queue'[n] = e
                /\ \A i \in DOMAIN queue' :
                     i \in Nat /\ n \in Nat /\ i <= n /\ (i \notin DOMAIN queue => queue'[i] = e)
      /\ queue' \in Seq(Events)
  BY <1>0, ChangedMeans
<1> HIDE DEF e
<1>3. /\ Parent(p) \in Paths /\ Parent(p) # p /\ IsPrefix(Parent(p), p) /\ IsPrefix(p, p)
      /\ \A q \in Paths : IsPrefix(q, Parent(p)) => IsPrefix(q, p) /\ q # p
      /\ \A q \in Paths : IsPrefix(q, p) => q = p \/ IsPrefix(q, Parent(p))
  BY AtOrAbove, PrefixOrder
<1>4. /\ \A x \in ToSet(queue) : x \in Events /\ x.path \in Paths /\ x.isdir \in BOOLEAN
      /\ \A t \in ToSet(todo["worker"]) : t \in Tasks /\ t.path \in Paths /\ t.do \in {"copy", "make", "list"}
      /\ \A q \in ToSet(toWatch) : q \in Paths
      /\ \A i \in DOMAIN queue : queue[i] \in ToSet(queue)
  BY <1>0, Kinds
<1>5. \A q \in Paths : (fs["src"][q] # Absent => fs'["src"][q] # Absent) /\ (fs["src"][q] = Dir => fs'["src"][q] = Dir)
  <2> SUFFICES ASSUME NEW q \in Paths, fs["src"][q] # Absent PROVE fs'["src"][q] = fs["src"][q]
    BY NodeKinds
  <2> QED BY <1>0
<1>6. \A q \in Paths : (Announced(q) => Announced(q)') /\ (Deleted(q) => Deleted(q)')
  BY <1>2 DEF Announced, Deleted, Announces, Deletes
<1>7. WatchedInv'
  BY <1>1, <1>5 DEF Mirroring, WatchedInv, Well, Basic, TypeOK
<1>8. KnownInv'
  <2>1. ASSUME NEW x \in ToSet(queue')
        PROVE  Parent(x.path) \in watched' /\ fs'["src"][Parent(x.path)] = Dir
    <3>1. CASE x \in ToSet(queue)
      <4>1. Parent(x.path) \in watched /\ fs["src"][Parent(x.path)] = Dir
        BY <3>1 DEF Mirroring, KnownInv
      <4>2. Parent(x.path) \in Paths BY <1>4, <3>1, ParentType
      <4> QED BY <1>1, <1>5, <4>1, <4>2
    <3>2. CASE x \notin ToSet(queue)
      <4>1. x = e /\ Parent(p) \in watched BY <1>2, <3>2
      <4> QED BY <1>0, <1>1, <1>2, <1>3, <4>1
    <3> QED BY <3>1, <3>2
  <2>2. \A t \in ToSet(todo'["worker"]) : Known(t.path)' BY <1>1 DEF Mirroring, KnownInv, Known
  <2>3. \A q \in Paths : fs'["dst"][q] # Absent => q \in leftover' \/ Known(q)'
    BY <1>0, <1>1 DEF Mirroring, KnownInv, Known
  <2> QED BY <2>1, <2>2, <2>3 DEF KnownInv
<1>9. OrderInv'
  <2>1. ASSUME NEW i \in DOMAIN queue', NEW q \in Paths, Deletes(queue'[i], q), fs'["src"][q] # Absent
        PROVE  \E j \in DOMAIN queue' : i < j /\ Announces(queue'[j], q)
    <3>1. i \in DOMAIN queue
      <4> SUFFICES ASSUME i \notin DOMAIN queue PROVE FALSE OBVIOUS
      <4>1. queue'[i] = e BY <1>2
      <4> QED BY <1>2, <2>1, <4>1 DEF Deletes
    <3>2. Deletes(queue[i], q) BY <1>2, <2>1, <3>1
    <3>3. ASSUME NEW r \in Paths, IsPrefix(r, q), Deletes(queue[i], r), fs["src"][r] # Absent
          PROVE  \E j \in DOMAIN queue' : i < j /\ Announces(queue'[j], q)
      <4>1. PICK j \in DOMAIN queue : i < j /\ Announces(queue[j], r) BY <3>1, <3>3 DEF Mirroring, OrderInv
      <4>2. queue[j].path \in Paths BY <1>4
      <4>3. Announces(queue[j], q) BY <3>3, <4>1, <4>2, PrefixOrder DEF Announces
      <4> QED BY <1>2, <4>1, <4>3
    <3>4. CASE fs["src"][q] # Absent BY <3>2, <3>3, <3>4, PrefixOrder
    <3>5. CASE fs["src"][q] = Absent
      <4>1. q = p BY <1>0, <2>1, <3>5
      <4>2. CASE Parent(p) \in watched
        <5>1. PICK n \in DOMAIN queue' : queue'[n] = e /\ i \in Nat /\ n \in Nat /\ i <= n BY <1>2, <4>2
        <5>2. i # n BY <1>2, <2>1, <5>1 DEF Deletes
        <5>3. i < n BY <5>1, <5>2
        <5>4. Announces(queue'[n], q) BY <1>2, <1>3, <4>1, <5>1 DEF Announces
        <5> QED BY <5>3, <5>4
      <4>3. CASE Parent(p) \notin watched
        <5>1. queue[i].path \in Paths /\ Parent(queue[i].path) \in watched
          BY <1>4, <3>1 DEF Mirroring, KnownInv
        <5>2. IsPrefix(queue[i].path, Parent(p)) BY <1>3, <3>2, <4>1, <4>3, <5>1 DEF Deletes
        <5>3. Deletes(queue[i], Parent(p)) BY <3>2, <5>2 DEF Deletes
        <5>4. fs["src"][Parent(p)] # Absent BY <1>0, NodeKinds
        <5> QED BY <1>3, <3>3, <4>1, <5>3, <5>4
      <4> QED BY <4>2, <4>3
    <3> QED BY <3>4, <3>5
  <2>2. ASSUME NEW i \in DOMAIN queue', NEW q \in Paths,
               queue'[i].kind = "changed", queue'[i].isdir, queue'[i].path = q, fs'["src"][q] # Dir
        PROVE  \E j \in DOMAIN queue' : i < j /\ Deletes(queue'[j], q)
    <3>1. i \in DOMAIN queue
      <4> SUFFICES ASSUME i \notin DOMAIN queue PROVE FALSE OBVIOUS
      <4>1. queue'[i] = e BY <1>2
      <4> QED BY <1>0, <1>2, <2>2, <4>1
    <3>2. queue[i].kind = "changed" /\ queue[i].isdir /\ queue[i].path = q /\ fs["src"][q] # Dir
      BY <1>2, <1>5, <2>2, <3>1
    <3>3. PICK j \in DOMAIN queue : i < j /\ Deletes(queue[j], q) BY <3>1, <3>2 DEF Mirroring, OrderInv
    <3> QED BY <1>2, <3>3
  <2> QED BY <2>1, <2>2 DEF OrderInv
<1>10. WatchInv'
  <2> SUFFICES ASSUME stage = "loop", NEW q \in Paths, fs'["src"][q] = Dir
               PROVE  q \in watched \/ ToBeWatched(q)'
    BY <1>1 DEF WatchInv
  <2>1. \A r \in Paths : ToBeWatched(r) /\ IsPrefix(r, q) => ToBeWatched(q)'
    BY <1>1, <1>2, <1>4, PrefixOrder DEF ToBeWatched, Announces
  <2>2. CASE fs["src"][q] = Dir BY <2>1, <2>2, PrefixOrder DEF Mirroring, WatchInv
  <2>3. CASE fs["src"][q] # Dir
    <3>1. q = p /\ b BY <1>0, <2>3
    <3>2. CASE Parent(p) \in watched BY <1>2, <1>3, <3>1, <3>2 DEF ToBeWatched, Announces
    <3>3. CASE Parent(p) \notin watched
      <4>1. ToBeWatched(Parent(p)) BY <1>0, <1>3, <3>3 DEF Mirroring, WatchInv
      <4> QED BY <1>3, <2>1, <3>1, <4>1
    <3> QED BY <3>2, <3>3
  <2> QED BY <2>2, <2>3
<1>11. ListInv'
  <2> SUFFICES ASSUME NEW q \in Paths, fs'["src"][q] = Dir
               PROVE  q \in listed' \cup missed' \/ ToBeListed(q)'
    BY DEF ListInv
  <2>1. CASE fs["src"][q] = Dir
    BY <1>1, <1>2, <1>6, <2>1 DEF Mirroring, ListInv, ToBeListed
  <2>2. CASE fs["src"][q] # Dir
    <3>1. q = p BY <1>0, <2>2
    <3> QED BY <3>1, GainNoticed
  <2> QED BY <2>1, <2>2
<1>12. MakeInv'
  BY <1>1, <1>2, <1>4, <1>5, <1>6 DEF Mirroring, MakeInv
<1>13. KindInv'
  <2> SUFFICES ASSUME NEW q \in Paths, fs'["dst"][q] # Absent, View("src", q).kind' # View("dst", q).kind'
               PROVE  q \in missed' \cup leftover' \/ Deleted(q)'
    BY DEF KindInv
  <2>1. fs["dst"][q] # Absent BY <1>0
  <2>2. View("src", q).kind # View("dst", q).kind
    <3>1. CASE fs'["src"][q] = fs["src"][q] BY <1>0, <3>1 DEF View
    <3>2. CASE fs'["src"][q] # fs["src"][q]
      <4>1. fs["src"][q] = Absent BY <1>0, <3>2
      <4> QED BY <2>1, <4>1, KindOf
    <3> QED BY <3>1, <3>2
  <2> QED BY <1>1, <1>2, <1>6, <2>1, <2>2 DEF Mirroring, KindInv
<1>14. CopiedInv'
  <2> SUFFICES ASSUME NEW q \in Paths, Behind(q)', q # p PROVE q \in missed' \/ ToMirror(q)' \/ Copying(q)'
    BY GainNoticed DEF CopiedInv
  <2>1. /\ fs'["src"][q] = fs["src"][q]
        /\ IsFile(fs["src"][q]) => data'[fs["src"][q]] = data[fs["src"][q]]
        /\ IsFile(fs["dst"][q]) => data'[fs["dst"][q]] = data[fs["dst"][q]]
    BY <1>0 DEF SourceGains
  <2>2. Behind(q) BY <1>0, <1>1, <2>1 DEF Behind
  <2>3. q \in missed \/ ToMirror(q) \/ Copying(q) BY <2>2 DEF Mirroring, CopiedInv
  <2>4. CASE Copying(q)
    <3>1. file["worker"] \in OpenFiles BY <1>0, <2>4, CopierNames DEF TypeOK, Copying
    <3>2. IsFile(file["worker"].from) BY <3>1 DEF OpenFiles, IsFile
    <3> QED BY <1>1, <2>1, <2>4, <3>2 DEF Copying
  <2> QED BY <1>1, <1>2, <1>6, <2>3, <2>4 DEF ToMirror
<1> QED BY <1>7, <1>8, <1>9, <1>10, <1>11, <1>12, <1>13, <1>14 DEF Mirroring

\* A path of the source that has no watch goes, and nothing is below it.
SourceLoses(p, b) ==
  /\ Removed(p, b) /\ fs["src"][p] # Absent
  /\ fs' \in [Names -> Trees] /\ fs'["dst"] = fs["dst"] /\ data' = data
  /\ \A q \in Paths : q # p => fs'["src"][q] = fs["src"][q]
  /\ fs'["src"][p] = Absent

\* The worker's picture of the source stays right, unless it watches what has gone.
LEMMA LossMirrored ==
  ASSUME Well, Alive, Mirroring, NEW p \in Paths \ {Root}, NEW b \in BOOLEAN,
         SourceLoses(p, b), WorkerWaits, p \notin watched
  PROVE  Mirroring'
<1> DEFINE e == Event("deleted", p, b)
<1>0. /\ TypeOK /\ Removed(p, b) /\ fs["src"][p] # Absent /\ fs'["dst"] = fs["dst"] /\ data' = data
      /\ \A q \in Paths : q # p => fs'["src"][q] = fs["src"][q]
      /\ fs'["src"][p] = Absent /\ stage # "dead" /\ fs["src"] \in Trees /\ fs'["src"] \in Trees
  BY DEF Well, Basic, SourceLoses, Alive, TypeOK, Names
<1>1. /\ todo'["worker"] = todo["worker"] /\ file'["worker"] = file["worker"] /\ stage' = stage
      /\ toWatch' = toWatch /\ watched' = watched /\ listed' = listed /\ leftover' = leftover
  BY DEF WorkerWaits
<1>2. /\ missed \subseteq missed' /\ ToSet(queue) \subseteq ToSet(queue') /\ ToSet(queue') \subseteq ToSet(queue) \cup {e}
      /\ e.kind = "deleted" /\ e.path = p
      /\ DOMAIN queue \subseteq DOMAIN queue' /\ \A i \in DOMAIN queue : queue'[i] = queue[i]
      /\ Parent(p) \notin watched => queue' = queue
      /\ Parent(p) \in watched =>
           /\ e \in ToSet(queue')
           /\ \E n \in DOMAIN queue' :
                /\ queue'[n] = e
                /\ \A i \in DOMAIN queue' :
                     i \in Nat /\ n \in Nat /\ i <= n /\ (i \notin DOMAIN queue => queue'[i] = e)
      /\ (~Waiting \/ fs["dst"][p] # Absent) /\ Parent(p) \in listed \ watched => Below(p) \subseteq missed'
  BY <1>0, RemovedMeans
<1> HIDE DEF e
<1>3. /\ Parent(p) \in Paths /\ Parent(p) # p /\ IsPrefix(Parent(p), p) /\ IsPrefix(p, p) /\ p \in Below(p)
  BY AtOrAbove, PrefixOrder DEF Below
<1>4. /\ \A x \in ToSet(queue) : x \in Events /\ x.path \in Paths /\ x.isdir \in BOOLEAN
      /\ \A t \in ToSet(todo["worker"]) : t \in Tasks /\ t.path \in Paths /\ t.do \in {"copy", "make", "list"}
      /\ \A i \in DOMAIN queue : queue[i] \in ToSet(queue)
  BY <1>0, Kinds
<1>5. \A q \in Paths : fs'["src"][q] # Absent => q # p /\ fs["src"][q] = fs'["src"][q]
  BY <1>0
<1>6. \A q \in Paths : (Announced(q) => Announced(q)') /\ (Deleted(q) => Deleted(q)')
  BY <1>2 DEF Announced, Deleted, Announces, Deletes
<1>7. Parent(p) \in watched => Deleted(p)' BY <1>2, <1>3 DEF Deleted, Deletes
<1>8. fs["src"][Parent(p)] = Dir
  BY <1>0, <1>3, TreeMeans DEF IsStrictPrefix
<1>9. \A q \in Paths : IsPrefix(p, q) => fs'["src"][q] = Absent
  <2> SUFFICES ASSUME NEW q \in Paths, IsPrefix(p, q), q # p PROVE fs'["src"][q] = Absent
    BY <1>0
  <2>1. IsStrictPrefix(p, q) BY DEF IsStrictPrefix
  <2>2. fs'["src"][p] # Dir BY <1>0, NodeKinds
  <2> QED BY <1>0, <2>1, <2>2, NothingBelow
<1>10. WatchedInv'
  <2>1. \A q \in watched : q \in Paths /\ q # p BY <1>0 DEF TypeOK
  <2>2. \A q \in watched : fs["src"][q] # Absent /\ \A r \in Paths : IsPrefix(r, q) => r \in watched
    BY DEF Mirroring, WatchedInv
  <2>3. \A q \in ToSet(toWatch) : q = Root \/ Parent(q) \in watched BY DEF Mirroring, WatchedInv
  <2>4. \A q \in watched : fs'["src"][q] # Absent BY <1>0, <2>1, <2>2
  <2> QED BY <1>1, <2>2, <2>3, <2>4 DEF WatchedInv
<1>11. KnownInv'
  <2>1. ASSUME NEW x \in ToSet(queue')
        PROVE  Parent(x.path) \in watched' /\ fs'["src"][Parent(x.path)] = Dir
    <3>1. CASE x \in ToSet(queue)
      <4>1. Parent(x.path) \in watched /\ fs["src"][Parent(x.path)] = Dir
        BY <3>1 DEF Mirroring, KnownInv
      <4>2. Parent(x.path) \in Paths /\ Parent(x.path) # p BY <1>4, <3>1, <4>1, ParentType
      <4> QED BY <1>0, <1>1, <4>1, <4>2
    <3>2. CASE x \notin ToSet(queue)
      <4>1. x = e /\ Parent(p) \in watched BY <1>2, <3>2
      <4> QED BY <1>0, <1>1, <1>2, <1>3, <1>8, <4>1
    <3> QED BY <3>1, <3>2
  <2>2. \A t \in ToSet(todo'["worker"]) : Known(t.path)' BY <1>1 DEF Mirroring, KnownInv, Known
  <2>3. \A q \in Paths : fs'["dst"][q] # Absent => q \in leftover' \/ Known(q)'
    BY <1>0, <1>1 DEF Mirroring, KnownInv, Known
  <2> QED BY <2>1, <2>2, <2>3 DEF KnownInv
<1>12. OrderInv'
  <2>1. ASSUME NEW i \in DOMAIN queue', NEW q \in Paths, Deletes(queue'[i], q), fs'["src"][q] # Absent
        PROVE  \E j \in DOMAIN queue' : i < j /\ Announces(queue'[j], q)
    <3>1. i \in DOMAIN queue
      <4> SUFFICES ASSUME i \notin DOMAIN queue PROVE FALSE OBVIOUS
      <4>1. queue'[i] = e BY <1>2
      <4> QED BY <1>2, <1>9, <2>1, <4>1 DEF Deletes
    <3>2. Deletes(queue[i], q) /\ fs["src"][q] # Absent BY <1>2, <1>5, <2>1, <3>1
    <3>3. PICK j \in DOMAIN queue : i < j /\ Announces(queue[j], q) BY <3>1, <3>2 DEF Mirroring, OrderInv
    <3> QED BY <1>2, <3>3
  <2>2. ASSUME NEW i \in DOMAIN queue', NEW q \in Paths,
               queue'[i].kind = "changed", queue'[i].isdir, queue'[i].path = q, fs'["src"][q] # Dir
        PROVE  \E j \in DOMAIN queue' : i < j /\ Deletes(queue'[j], q)
    <3>1. i \in DOMAIN queue
      <4> SUFFICES ASSUME i \notin DOMAIN queue PROVE FALSE OBVIOUS
      <4>1. queue'[i] = e BY <1>2
      <4> QED BY <1>2, <2>2, <4>1
    <3>2. queue[i].kind = "changed" /\ queue[i].isdir /\ queue[i].path = q BY <1>2, <2>2, <3>1
    <3>3. CASE fs["src"][q] # Dir
      <4>1. PICK j \in DOMAIN queue : i < j /\ Deletes(queue[j], q) BY <3>1, <3>2, <3>3 DEF Mirroring, OrderInv
      <4> QED BY <1>2, <4>1
    <3>4. CASE fs["src"][q] = Dir
      <4>1. q = p BY <1>0, <2>2, <3>4
      <4>2. Parent(p) \in watched BY <1>4, <3>1, <3>2, <4>1 DEF Mirroring, KnownInv
      <4>3. PICK n \in DOMAIN queue' : queue'[n] = e /\ i \in Nat /\ n \in Nat /\ i <= n BY <1>2, <4>2
      <4>4. i # n BY <1>2, <2>2, <4>3
      <4>5. i < n BY <4>3, <4>4
      <4>6. Deletes(queue'[n], q) BY <1>2, <1>3, <4>1, <4>3 DEF Deletes
      <4> QED BY <4>5, <4>6
    <3> QED BY <3>3, <3>4
  <2> QED BY <2>1, <2>2 DEF OrderInv
<1>13. \A q \in Paths : fs'["src"][q] = Dir => fs["src"][q] = Dir BY <1>5, NodeKinds
<1>14. WatchInv'
  <2> SUFFICES ASSUME stage = "loop", NEW q \in Paths, fs'["src"][q] = Dir
               PROVE  q \in watched \/ ToBeWatched(q)'
    BY <1>1 DEF WatchInv
  <2> QED BY <1>1, <1>2, <1>13 DEF Mirroring, WatchInv, ToBeWatched
<1>15. ListInv' BY <1>1, <1>2, <1>6, <1>13 DEF Mirroring, ListInv, ToBeListed
<1>16. MakeInv'
  <2> SUFFICES ASSUME NEW t \in ToSet(todo["worker"]), t.do = "make", fs'["src"][t.path] # Dir
               PROVE  t.path \in missed' \/ Deleted(t.path)'
    BY <1>1 DEF MakeInv
  <2>0. t.path \in Paths BY <1>4
  <2>1. CASE fs["src"][t.path] # Dir BY <1>2, <1>6, <2>0, <2>1 DEF Mirroring, MakeInv
  <2>2. CASE fs["src"][t.path] = Dir
    <3>1. t.path = p BY <1>0, <2>0, <2>2
    <3>2. CASE Parent(p) \in watched BY <1>7, <3>1, <3>2
    <3>3. CASE Parent(p) \notin watched
      <4>1. Parent(p) \in listed BY <3>1, <3>3 DEF Mirroring, KnownInv, Known
      <4>2. todo["worker"] # <<>> BY Elements DEF ToSet
      <4>3. ~Waiting BY <4>2 DEF Waiting, Idle
      <4> QED BY <1>2, <1>3, <3>1, <3>3, <4>1, <4>3
    <3> QED BY <3>2, <3>3
  <2> QED BY <2>1, <2>2
<1>17. KindInv'
  <2> SUFFICES ASSUME NEW q \in Paths, fs'["dst"][q] # Absent, View("src", q).kind' # View("dst", q).kind'
               PROVE  q \in missed' \cup leftover' \/ Deleted(q)'
    BY DEF KindInv
  <2>1. fs["dst"][q] # Absent BY <1>0
  <2>2. CASE q # p
    <3>1. View("src", q).kind # View("dst", q).kind BY <1>0, <2>2 DEF View
    <3> QED BY <1>1, <1>2, <1>6, <2>1, <3>1 DEF Mirroring, KindInv
  <2>3. CASE q = p
    <3>1. p \in leftover \/ Parent(p) \in watched \cup listed BY <2>1, <2>3 DEF Mirroring, KnownInv, Known
    <3> QED BY <1>1, <1>2, <1>3, <1>7, <2>1, <2>3, <3>1
  <2> QED BY <2>2, <2>3
<1>18. CopiedInv'
  <2> SUFFICES ASSUME NEW q \in Paths, Behind(q)' PROVE q \in missed' \/ ToMirror(q)' \/ Copying(q)'
    BY DEF CopiedInv
  <2>1. q # p /\ fs'["src"][q] = fs["src"][q] BY <1>5 DEF Behind
  <2>2. Behind(q) BY <1>0, <1>1, <2>1 DEF Behind
  <2>3. q \in missed \/ ToMirror(q) \/ Copying(q) BY <2>2 DEF Mirroring, CopiedInv
  <2> QED BY <1>0, <1>1, <1>2, <1>6, <2>1, <2>3 DEF ToMirror, Copying
<1> QED BY <1>10, <1>11, <1>12, <1>14, <1>15, <1>16, <1>17, <1>18 DEF Mirroring

\* The same for the invariant, of whatever watch.
LEMMA SourceStep ==
  ASSUME Well, MirrorInv, NEW p \in Paths \ {Root}, NEW b \in BOOLEAN, WorkerWaits,
         SourceGains(p, b) \/ SourceLoses(p, b)
  PROVE  MirrorInv'
<1> SUFFICES ASSUME Alive' PROVE Mirroring' BY DEF MirrorInv
<1>1. TypeOK /\ (Changed(p, b) \/ Removed(p, b)) BY DEF Well, Basic, SourceGains, SourceLoses
<1>2. stage # "dead" BY DEF Alive, WorkerWaits
<1>3. CASE SourceGains(p, b)
  <2>1. ToSet(queue) \subseteq ToSet(queue') BY <1>3, <1>1, ChangedMeans DEF SourceGains
  <2>2. Alive BY <1>2, <2>1 DEF Alive
  <2> QED BY <1>3, <2>2, GainMirrored DEF MirrorInv
<1>4. CASE SourceLoses(p, b)
  <2>1. p \notin watched BY <1>1, <1>4, SelfQueued DEF SourceLoses, Alive
  <2>2. ToSet(queue) \subseteq ToSet(queue') BY <1>1, <1>4, <2>1, RemovedMeans DEF SourceLoses
  <2>3. Alive BY <1>2, <2>2 DEF Alive
  <2> QED BY <1>4, <2>1, <2>3, LossMirrored DEF MirrorInv
<1> QED BY <1>3, <1>4

\* A name gets no inode that is open under another one.
NewAtMost(p) ==
  fs'["src"][p] = fs["src"][p] \/ ~IsFile(fs'["src"][p]) \/ fs'["src"][p] \notin Opened

\* What writing an inode that the path has, or a new one, leaves alone.
LEMMA OnlyThisInode ==
  ASSUME Basic, NEW p \in Paths, NEW i \in Inodes, NEW x,
         i = fs["src"][p] \/ \A u \in Names, q \in Paths : fs[u][q] # i,
         data' = [data EXCEPT ![i] = x]
  PROVE  /\ \A q \in Paths : IsFile(fs["dst"][q]) => data'[fs["dst"][q]] = data[fs["dst"][q]]
         /\ \A q \in Paths : q # p /\ IsFile(fs["src"][q]) => data'[fs["src"][q]] = data[fs["src"][q]]
<1>0. data \in [Inodes -> Contents] BY DEF Basic, TypeOK
<1>1. ASSUME NEW u \in Names, NEW q \in Paths, IsFile(fs[u][q]), u = "dst" \/ q # p
      PROVE  data'[fs[u][q]] = data[fs[u][q]]
  <2>1. fs[u][q] # i BY <1>1 DEF Basic, InodesApart, IsFile, Names
  <2> QED BY <1>0, <1>1, <2>1 DEF IsFile
<1> QED BY <1>1 DEF Names

\* Every change by the user is a change of the source in this sense.
LEMMA UserChanges ==
  ASSUME Well, Basic', NEW p \in Paths \ {Root}, Write(p) \/ Unlink(p) \/ MkDir(p) \/ RmDir(p)
  PROVE  /\ \E b \in BOOLEAN : SourceGains(p, b) \/ SourceLoses(p, b)
         /\ WorkerWaits /\ NewAtMost(p) /\ file' = file /\ toRemove' = toRemove
<1>0. /\ Basic /\ TypeOK /\ InodesApart /\ fs \in [Names -> Trees] /\ fs' \in [Names -> Trees]
      /\ "src" \in Names /\ "dst" \in Names /\ data \in [Inodes -> Contents]
      /\ UserDid /\ \A t \in Trees : t \in [Paths -> Nodes]
  BY TreeMeans DEF Well, Basic, TypeOK, Names, Write, Unlink, MkDir, RmDir
<1>1. WorkerWaits /\ file' = file /\ toRemove' = toRemove
  BY <1>0 DEF UserDid, WorkerWaits, worker, supervisor
<1>2. ASSUME NEW x, fs' = [fs EXCEPT !["src"][p] = x]
      PROVE  /\ fs'["src"][p] = x /\ fs'["dst"] = fs["dst"]
             /\ \A q \in Paths : q # p => fs'["src"][q] = fs["src"][q]
  <2>1. fs["src"] \in [Paths -> Nodes] BY <1>0
  <2> QED BY <1>0, <1>2, <2>1
<1>3. CASE Write(p)
  <2> DEFINE i == IF IsFile(fs["src"][p]) THEN fs["src"][p] ELSE Fresh
  <2>1. /\ p \in Files /\ fs["src"][Parent(p)] = Dir /\ fs["src"][p] # Dir
        /\ fs' = [fs EXCEPT !["src"][p] = i] /\ data' = [data EXCEPT ![i] = ops + 2] /\ Changed(p, FALSE)
    BY <1>3 DEF Write
  <2>2. /\ i \in Inodes /\ (i = fs["src"][p] \/ \A u \in Names, q \in Paths : fs[u][q] # i)
        /\ (i = fs["src"][p] \/ i \notin Opened)
    <3>1. CASE IsFile(fs["src"][p]) BY <3>1 DEF IsFile
    <3>2. CASE ~IsFile(fs["src"][p]) BY <1>0, <2>1, <3>2, FreshIsNew DEF Names
    <3> QED BY <3>1, <3>2
  <2>3. fs["src"][p] # Absent => fs["src"][p] = i
    <3>1. fs["src"][p] \in Nodes BY <1>0
    <3> QED BY <2>1, <3>1, NodeKinds
  <2> HIDE DEF i
  <2>4. IsFile(i) /\ i # Dir BY <2>2, NodeKinds DEF IsFile
  <2>5. /\ fs'["src"][p] = i /\ fs'["dst"] = fs["dst"]
        /\ \A q \in Paths : q # p => fs'["src"][q] = fs["src"][q]
    BY <1>2, <2>1
  <2>6. SourceGains(p, FALSE)
    BY <1>0, <2>1, <2>2, <2>3, <2>4, <2>5, OnlyThisInode DEF SourceGains
  <2>7. NewAtMost(p) BY <2>2, <2>5 DEF NewAtMost
  <2> QED BY <1>1, <2>6, <2>7
<1>4. CASE MkDir(p)
  <2>1. /\ fs["src"][p] = Absent /\ fs["src"][Parent(p)] = Dir
        /\ fs' = [fs EXCEPT !["src"][p] = Dir] /\ data' = data /\ Changed(p, TRUE)
    BY <1>4 DEF MkDir
  <2>2. /\ fs'["src"][p] = Dir /\ fs'["dst"] = fs["dst"]
        /\ \A q \in Paths : q # p => fs'["src"][q] = fs["src"][q]
    BY <1>2, <2>1
  <2>3. SourceGains(p, TRUE) BY <1>0, <2>1, <2>2 DEF SourceGains
  <2>4. NewAtMost(p) BY <2>2, NodeKinds DEF NewAtMost
  <2> QED BY <1>1, <2>3, <2>4
<1>5. CASE Unlink(p) \/ RmDir(p)
  <2>1. PICK b \in BOOLEAN :
          /\ fs["src"][p] # Absent /\ fs' = [fs EXCEPT !["src"][p] = Absent] /\ data' = data /\ Removed(p, b)
    BY <1>5, NodeKinds DEF Unlink, RmDir
  <2>2. /\ fs'["src"][p] = Absent /\ fs'["dst"] = fs["dst"]
        /\ \A q \in Paths : q # p => fs'["src"][q] = fs["src"][q]
    BY <1>2, <2>1
  <2>3. SourceLoses(p, b) BY <1>0, <2>1, <2>2 DEF SourceLoses
  <2>4. NewAtMost(p) BY <2>2, NodeKinds DEF NewAtMost
  <2> QED BY <1>1, <2>3, <2>4
<1> QED BY <1>3, <1>4, <1>5

\* Restore's writes are such changes, or invisible.
NotSeen ==
  /\ fs' = fs /\ queue' = queue /\ missed' = missed
  /\ \A u \in Names, q \in Paths : IsFile(fs[u][q]) => data'[fs[u][q]] = data[fs[u][q]]

\* Restore adds one entry to the source, or shows nothing to the worker.
LEMMA RestoreChanges ==
  ASSUME Well, Basic', Copy("restore")
  PROVE  /\ NotSeen \/ \E p \in Paths \ {Root}, b \in BOOLEAN : SourceGains(p, b) /\ NewAtMost(p)
         /\ WorkerWaits /\ toRemove' = toRemove
<1> DEFINE c == "restore"
           p == At(c)
<1>0. /\ Basic /\ TypeOK /\ InodesApart /\ fs \in [Names -> Trees] /\ fs' \in [Names -> Trees]
      /\ "src" \in Names /\ "dst" \in Names /\ data \in [Inodes -> Contents]
      /\ \A t \in Trees : t \in [Paths -> Nodes]
      /\ c \in Copiers /\ "worker" \in Copiers /\ c # "worker" /\ From[c] = "dst" /\ To[c] = "src"
      /\ todo \in [Copiers -> Seq(Tasks)] /\ file \in [Copiers -> OpenFiles \cup {NoFile}]
      /\ fs["dst"][Root] = Dir /\ fs["src"][Root] = Dir
  BY TreeMeans, CopierNames DEF Well, Basic, TypeOK, Names, RootsInv
<1>1. ASSUME NEW q \in Paths, NEW x, fs' = [fs EXCEPT !["src"][q] = x]
      PROVE  /\ fs'["src"][q] = x /\ fs'["dst"] = fs["dst"]
             /\ \A r \in Paths : r # q => fs'["src"][r] = fs["src"][r]
  <2>1. fs["src"] \in [Paths -> Nodes] BY <1>0
  <2> QED BY <1>0, <1>1, <2>1
<1>2. ASSUME NEW tasks, Then(c, tasks) PROVE todo'["worker"] = todo["worker"]
  BY <1>0, <1>2 DEF Then
<1>3. CASE EntryGone(c) \/ MakeFails(c) \/ ListFails(c) \/ OpenFails(c)
  <2>1. Fails(c) BY <1>3 DEF EntryGone, MakeFails, ListFails, OpenFails
  <2>2. todo'["worker"] = todo["worker"] BY <1>0, <2>1 DEF Fails
  <2>3. NotSeen BY <2>1 DEF Fails, NotSeen, trees
  <2>4. WorkerWaits /\ toRemove' = toRemove BY <2>1, <2>2 DEF Fails, WorkerWaits
  <2> QED BY <2>3, <2>4
<1>4. CASE EnterDirectory(c) \/ SkipFile(c) \/ ListDirectory(c)
  <2>1. todo'["worker"] = todo["worker"]
    BY <1>2, <1>4 DEF EnterDirectory, SkipFile, ListDirectory
  <2>2. /\ CopierOnly /\ fs' = fs /\ data' = data /\ file' = file /\ queue' = queue /\ missed' = missed
        /\ listed' = listed
    BY <1>0, <1>4 DEF EnterDirectory, SkipFile, ListDirectory, SameWorker, trees
  <2>3. NotSeen BY <2>2 DEF NotSeen
  <2>4. WorkerWaits /\ toRemove' = toRemove BY <2>1, <2>2 DEF CopierOnly, WorkerWaits
  <2> QED BY <2>3, <2>4
<1>5. CASE MakeDirectory(c)
  <2>1. todo["restore"] # <<>> /\ p \in Paths BY <1>0, <1>5, HeadTask DEF MakeDirectory, Doing
  <2>2. WorkerWaits /\ toRemove' = toRemove
    <3>1. todo'["worker"] = todo["worker"] BY <1>2, <1>5 DEF MakeDirectory
    <3> QED BY <1>5, <3>1 DEF MakeDirectory, CopierOnly, WorkerWaits
  <2>3. CASE fs' = fs /\ queue' = queue /\ missed' = missed
    BY <1>5, <2>2, <2>3 DEF MakeDirectory, NotSeen
  <2>4. CASE ~(fs' = fs /\ queue' = queue /\ missed' = missed)
    <3>1. /\ fs["src"][p] = Absent /\ fs["src"][Parent(p)] = Dir
          /\ fs' = [fs EXCEPT !["src"][p] = Dir] /\ data' = data /\ Changed(p, TRUE)
      BY <1>0, <1>5, <2>4 DEF MakeDirectory, Dest
    <3>2. p # Root BY <1>0, <3>1, NodeKinds
    <3>3. /\ fs'["src"][p] = Dir /\ fs'["dst"] = fs["dst"]
          /\ \A q \in Paths : q # p => fs'["src"][q] = fs["src"][q]
      BY <1>1, <2>1, <3>1
    <3>4. SourceGains(p, TRUE) BY <1>0, <3>1, <3>3 DEF SourceGains
    <3>5. NewAtMost(p) BY <3>3, NodeKinds DEF NewAtMost
    <3> QED BY <2>1, <2>2, <3>2, <3>4, <3>5
  <2> QED BY <2>3, <2>4
<1>6. CASE OpenFile(c)
  <2> DEFINE i == IF IsFile(Dest(c)[p]) THEN Dest(c)[p] ELSE Fresh
  <2>1. todo["restore"] # <<>> /\ p \in Paths BY <1>0, <1>6, HeadTask DEF OpenFile, Doing
  <2>2. /\ IsFile(fs["dst"][p]) /\ fs["src"][p] # Dir /\ fs["src"][Parent(p)] = Dir
        /\ fs' = [fs EXCEPT !["src"][p] = i] /\ data' = [data EXCEPT ![i] = 0] /\ Changed(p, FALSE)
        /\ Dest(c) = fs["src"]
    BY <1>0, <1>6 DEF OpenFile, Source, Dest
  <2>3. p \in Files /\ p # Root BY <1>0, <2>1, <2>2 DEF InodesApart
  <2>4. /\ i \in Inodes /\ (i = fs["src"][p] \/ \A u \in Names, q \in Paths : fs[u][q] # i)
        /\ (i = fs["src"][p] \/ i \notin Opened)
    <3>1. CASE IsFile(fs["src"][p]) BY <2>2, <3>1 DEF IsFile
    <3>2. CASE ~IsFile(fs["src"][p]) BY <1>0, <2>2, <2>3, <3>2, FreshIsNew DEF Names
    <3> QED BY <3>1, <3>2
  <2>5. fs["src"][p] # Absent => fs["src"][p] = i
    <3>1. fs["src"][p] \in Nodes BY <1>0, <2>1
    <3> QED BY <2>2, <3>1, NodeKinds
  <2>6. WorkerWaits /\ toRemove' = toRemove
    <3>1. todo'["worker"] = todo["worker"] BY <1>2, <1>6 DEF OpenFile
    <3>2. file'["worker"] = file["worker"] BY <1>0, <1>6 DEF OpenFile
    <3> QED BY <1>6, <3>1, <3>2 DEF OpenFile, CopierOnly, WorkerWaits
  <2> HIDE DEF i
  <2>7. IsFile(i) /\ i # Dir BY <2>4, NodeKinds DEF IsFile
  <2>8. /\ fs'["src"][p] = i /\ fs'["dst"] = fs["dst"]
        /\ \A q \in Paths : q # p => fs'["src"][q] = fs["src"][q]
    BY <1>1, <2>1, <2>2
  <2>9. SourceGains(p, FALSE)
    BY <1>0, <2>1, <2>2, <2>4, <2>5, <2>7, <2>8, OnlyThisInode DEF SourceGains
  <2>10. NewAtMost(p) BY <2>4, <2>8 DEF NewAtMost
  <2> QED BY <2>1, <2>3, <2>6, <2>9, <2>10
<1>7. CASE ReadFile(c)
  <2>1. /\ CopierOnly /\ fs' = fs /\ data' = data /\ todo' = todo /\ queue' = queue /\ missed' = missed
        /\ listed' = listed /\ file'["worker"] = file["worker"]
    BY <1>0, <1>7 DEF ReadFile, SameWorker, trees
  <2>2. NotSeen BY <2>1 DEF NotSeen
  <2>3. WorkerWaits /\ toRemove' = toRemove BY <2>1 DEF CopierOnly, WorkerWaits
  <2> QED BY <2>2, <2>3
<1>8. CASE WriteFile(c)
  <2> DEFINE f == file["restore"]
  <2>1. /\ f # NoFile /\ file' = [file EXCEPT !["restore"] = NoFile] /\ fs' = fs /\ todo' = todo /\ listed' = listed
        /\ data' = IF f.buffer = 0 THEN data ELSE [data EXCEPT ![f.to] = f.buffer]
        /\ CopierOnly
    BY <1>0, <1>8 DEF WriteFile
  <2>2. f \in OpenFiles /\ f.path \in Paths /\ f.to \in Inodes BY <1>0, <2>1 DEF OpenFiles
  <2>3. f.path # Root BY <1>0, <2>1 DEF Well, RootsInv
  <2>4. file'["worker"] = file["worker"] BY <1>0, <2>1
  <2>5. WorkerWaits /\ toRemove' = toRemove BY <2>1, <2>4 DEF CopierOnly, WorkerWaits
  <2>6. \A q \in Paths : fs["dst"][q] # f.to /\ (fs["src"][q] = f.to => q = f.path)
    BY <2>1 DEF Well, OpenInv
  <2>7. ASSUME NEW u \in Names, NEW q \in Paths, IsFile(fs[u][q]), fs[u][q] # f.to
        PROVE  data'[fs[u][q]] = data[fs[u][q]]
    BY <1>0, <2>1, <2>2, <2>7 DEF IsFile
  <2>8. CASE fs["src"][Parent(f.path)] = Dir
    <3>1. Changed(f.path, FALSE) BY <1>0, <1>8, <2>8 DEF WriteFile
    <3>2. SourceGains(f.path, FALSE) BY <1>0, <2>1, <2>6, <2>7, <2>8, <3>1 DEF SourceGains, Names
    <3>3. NewAtMost(f.path) BY <2>1 DEF NewAtMost
    <3> QED BY <2>2, <2>3, <2>5, <3>2, <3>3
  <2>9. CASE fs["src"][Parent(f.path)] # Dir
    <3>1. queue' = queue /\ missed' = missed BY <1>0, <1>8, <2>9 DEF WriteFile
    <3>2. fs["src"] \in Trees /\ IsStrictPrefix(Parent(f.path), f.path) /\ Parent(f.path) \in Paths
      BY <1>0, <2>2, <2>3, ParentPrefix
    <3>3. fs["src"][f.path] = Absent BY <2>2, <2>9, <3>2, TreeMeans
    <3>4. f.to # Absent BY <2>2, Numbers
    <3>5. \A u \in Names, q \in Paths : fs[u][q] # f.to BY <2>6, <3>3, <3>4 DEF Names
    <3> QED BY <2>1, <2>5, <2>7, <3>1, <3>5 DEF NotSeen
  <2> QED BY <2>8, <2>9
<1> QED BY <1>3, <1>4, <1>5, <1>6, <1>7, <1>8 DEF Copy

-----------------------------------------------------------------------------
\* What the worker cannot see changes nothing for it.
LEMMA MirrorSame ==
  ASSUME Well, MirrorInv, NotSeen, WorkerWaits PROVE MirrorInv'
<1> SUFFICES ASSUME Alive' PROVE Mirroring' BY DEF MirrorInv
<1>1. /\ fs' = fs /\ queue' = queue /\ missed' = missed /\ todo'["worker"] = todo["worker"]
      /\ file'["worker"] = file["worker"] /\ stage' = stage /\ toWatch' = toWatch /\ watched' = watched
      /\ listed' = listed /\ leftover' = leftover
  BY DEF NotSeen, WorkerWaits
<1>2. Mirroring BY <1>1 DEF MirrorInv, Alive
<1>3. \A u \in Names, q \in Paths : IsFile(fs[u][q]) => data'[fs[u][q]] = data[fs[u][q]] BY DEF NotSeen
<1>4. WatchedInv' /\ KnownInv' BY <1>1, <1>2 DEF Mirroring, WatchedInv, KnownInv, Known
<1>5. \A p \in Paths : (Announced(p)' <=> Announced(p)) /\ (Deleted(p)' <=> Deleted(p))
  BY <1>1 DEF Announced, Deleted, Announces, Deletes
<1>6. OrderInv' BY <1>1, <1>2 DEF Mirroring, OrderInv, Announces, Deletes
<1>7. WatchInv' BY <1>1, <1>2 DEF Mirroring, WatchInv, ToBeWatched, Announces
<1>8. ListInv' BY <1>1, <1>2, <1>5 DEF Mirroring, ListInv, ToBeListed
<1>9. MakeInv'
  <2>1. \A t \in ToSet(todo["worker"]) : t.path \in Paths BY Kinds DEF Well, Basic
  <2> QED BY <1>1, <1>2, <1>5, <2>1 DEF Mirroring, MakeInv
<1>10. KindInv' BY <1>1, <1>2, <1>5 DEF Mirroring, KindInv, View
<1>11. CopiedInv'
  <2> SUFFICES ASSUME NEW p \in Paths, Behind(p)' PROVE p \in missed' \/ ToMirror(p)' \/ Copying(p)'
    BY DEF CopiedInv
  <2>1. Behind(p) BY <1>1, <1>3 DEF Behind, Names
  <2>2. p \in missed \/ ToMirror(p) \/ Copying(p) BY <1>2, <2>1 DEF Mirroring, CopiedInv
  <2>3. ToMirror(p) => ToMirror(p)' BY <1>1, <1>5 DEF ToMirror
  <2>4. Copying(p) => Copying(p)'
    <3> SUFFICES ASSUME Copying(p) PROVE Copying(p)' OBVIOUS
    <3>1. file["worker"] # NoFile /\ file["worker"].from = fs["src"][p] BY DEF Copying
    <3>2. file["worker"] \in OpenFiles BY <3>1, CopierNames DEF Well, Basic, TypeOK
    <3>3. IsFile(fs["src"][p]) BY <3>1, <3>2 DEF OpenFiles, IsFile
    <3> QED BY <1>1, <1>3, <3>1, <3>3 DEF Copying, Names
  <2> QED BY <1>1, <2>2, <2>3, <2>4
<1> QED BY <1>4, <1>6, <1>7, <1>8, <1>9, <1>10, <1>11 DEF Mirroring

\* Only directories that the target lacks are to be removed.
RmdirsBelow(tasks) == \A r \in ToSet(tasks) : r.do = "rmdir" => r.path # Root

\* Nothing that restore removes is invisible.
LEMMA RemovalChanges ==
  ASSUME Well, Basic', Restored \/ CheckBoth \/ CheckMissing \/ RemoveDirectory \/ Finished
  PROVE  /\ NotSeen \/ \E p \in Paths \ {Root}, b \in BOOLEAN : SourceLoses(p, b) /\ NewAtMost(p)
         /\ WorkerWaits /\ file' = file /\ RmdirsBelow(toRemove')
<1> DEFINE p == Head(toRemove).path
           rest == Tail(toRemove)
<1>0. /\ Basic /\ TypeOK /\ fs \in [Names -> Trees] /\ fs' \in [Names -> Trees]
      /\ fs["dst"][Root] = Dir /\ RmdirsBelow(toRemove) /\ toRemove \in Seq(Removals)
      /\ toRemove' \in Seq(Removals)
  BY DEF Well, Basic, TypeOK, Names, RootsInv, RmdirsBelow
<1>1. RestoreOnly BY DEF Restored, CheckBoth, CheckMissing, RemoveDirectory, Finished
<1>2. WorkerWaits /\ file' = file /\ data' = data BY <1>1 DEF RestoreOnly, WorkerWaits, worker
<1>3. toRemove # <<>> =>
        /\ p \in Paths /\ Head(toRemove) \in ToSet(toRemove) /\ rest \in Seq(Removals)
        /\ RmdirsBelow(rest)
  <2> SUFFICES ASSUME toRemove # <<>>
               PROVE  /\ p \in Paths /\ Head(toRemove) \in ToSet(toRemove) /\ rest \in Seq(Removals)
                      /\ RmdirsBelow(rest)
    OBVIOUS
  <2>1. ToSet(toRemove) = {Head(toRemove)} \cup ToSet(Tail(toRemove)) BY <1>0, Elements
  <2>2. RmdirsBelow(rest) BY <1>0, <2>1 DEF RmdirsBelow
  <2> QED BY <1>0, <2>1, <2>2, HeadRemoval
<1>4. ASSUME UNCHANGED <<fs, queue, missed>> PROVE NotSeen BY <1>2, <1>4 DEF NotSeen
<1>5. ASSUME p \in Paths, p # Root, RemoveEntry(p), fs["src"][p] # Absent
      PROVE  \E q \in Paths \ {Root}, b \in BOOLEAN : SourceLoses(q, b) /\ NewAtMost(q)
  <2> DEFINE b == fs["src"][p] = Dir
  <2>1. Removed(p, b) /\ b \in BOOLEAN BY <1>5 DEF RemoveEntry
  <2>2. /\ fs'["src"][p] = Absent /\ fs'["dst"] = fs["dst"]
        /\ \A r \in Paths : r # p => fs'["src"][r] = fs["src"][r]
    BY <1>0, <1>5, EntryRemoved
  <2> HIDE DEF b, p
  <2>3. SourceLoses(p, b) BY <1>0, <1>2, <1>5, <2>1, <2>2 DEF SourceLoses
  <2>4. NewAtMost(p) BY <2>2, NodeKinds DEF NewAtMost
  <2> QED BY <1>5, <2>1, <2>3, <2>4
<1>6. ASSUME NEW tasks \in Listings("check", Children(fs["src"], p))
      PROVE  tasks \in Seq(Removals) /\ RmdirsBelow(tasks)
  <2>1. tasks \in Seq(Removals) /\ \A j \in DOMAIN tasks : tasks[j].do = "check" BY <1>6, ChecksOf
  <2> QED BY <2>1, Elements DEF RmdirsBelow
<1>7. ASSUME NEW s \in Seq(Removals), NEW t \in Seq(Removals), RmdirsBelow(s), RmdirsBelow(t)
      PROVE  RmdirsBelow(s \o t) /\ s \o t \in Seq(Removals)
  BY <1>7, Elements, ConcatProperties DEF RmdirsBelow
<1>8. CASE Restored
  <2> DEFINE task == [do |-> "check", path |-> Root]
  <2>1. toRemove' = <<task>> /\ task.do = "check" BY <1>8 DEF Restored
  <2> HIDE DEF task
  <2>2. RmdirsBelow(toRemove') BY <2>1 DEF RmdirsBelow, ToSet
  <2> QED BY <1>2, <1>4, <1>8, <2>2 DEF Restored
<1>9. CASE CheckBoth
  <2>1. toRemove # <<>> /\ UNCHANGED <<fs, queue, missed>> BY <1>9 DEF CheckBoth, Checking
  <2>2. RmdirsBelow(toRemove')
    <3>1. CASE toRemove' = rest BY <1>3, <2>1, <3>1
    <3>2. CASE \E tasks \in Listings("check", Children(fs["src"], p)) : toRemove' = tasks \o rest
      BY <1>3, <1>6, <1>7, <2>1, <3>2
    <3>3. CASE toRemove' \in Aborted(rest)
      <4>1. PICK k \in 1 .. Len(rest) + 1 :
              Len(toRemove') = Len(rest) - k + 1 /\ \A i \in 1 .. Len(toRemove') : toRemove'[i] = rest[k + i - 1]
        BY <1>3, <2>1, <3>3, AbortedType
      <4>2. Len(rest) \in Nat /\ DOMAIN rest = 1 .. Len(rest) BY <1>3, <2>1, LenProperties
      <4>3. DOMAIN toRemove' = 1 .. Len(toRemove') /\ Len(toRemove') \in Nat BY <1>0, LenProperties
      <4>4. \A i \in DOMAIN rest : rest[i] \in ToSet(rest) BY DEF ToSet
      <4> HIDE DEF rest
      <4>5. ASSUME NEW i \in DOMAIN toRemove' PROVE toRemove'[i] \in ToSet(rest)
        <5>1. k + i - 1 \in 1 .. Len(rest) BY <4>1, <4>2, <4>3
        <5> QED BY <4>1, <4>2, <4>3, <4>4, <5>1
      <4> QED BY <1>3, <2>1, <4>5 DEF RmdirsBelow, ToSet
    <3> QED BY <1>9, <3>1, <3>2, <3>3 DEF CheckBoth
  <2> QED BY <1>2, <1>4, <2>1, <2>2
<1>10. CASE CheckMissing
  <2>1. toRemove # <<>> /\ fs["dst"][p] = Absent BY <1>10 DEF CheckMissing, Checking
  <2>2. p # Root BY <1>0, <2>1, NodeKinds
  <2>3. RmdirsBelow(toRemove')
    <3>1. CASE toRemove' = rest BY <1>3, <2>1, <3>1
    <3>2. CASE \E tasks \in Listings("check", Children(fs["src"], p)) :
                 toRemove' = tasks \o <<[do |-> "rmdir", path |-> p]>> \o rest
      <4> DEFINE task == [do |-> "rmdir", path |-> p]
      <4>1. PICK tasks \in Listings("check", Children(fs["src"], p)) : toRemove' = tasks \o <<task>> \o rest
        BY <3>2
      <4>2. task \in Removals /\ task.path # Root BY <1>3, <2>1, <2>2 DEF Removals
      <4> HIDE DEF task
      <4>3. <<task>> \in Seq(Removals) /\ ToSet(<<task>>) = {task} BY <4>2 DEF ToSet
      <4>4. RmdirsBelow(<<task>>) BY <4>2, <4>3 DEF RmdirsBelow
      <4>5. tasks \in Seq(Removals) /\ RmdirsBelow(tasks) BY <1>6
      <4> HIDE DEF rest, p
      <4>6. tasks \o <<task>> \in Seq(Removals) /\ RmdirsBelow(tasks \o <<task>>) BY <1>7, <4>3, <4>4, <4>5
      <4> QED BY <1>3, <1>7, <2>1, <4>1, <4>6
    <3> QED BY <1>10, <3>1, <3>2 DEF CheckMissing
  <2>4. UNCHANGED <<fs, queue, missed>> \/ (IsFile(fs["src"][p]) /\ RemoveEntry(p)) BY <1>10 DEF CheckMissing
  <2> QED BY <1>2, <1>3, <1>4, <1>5, <2>1, <2>2, <2>3, <2>4, NodeKinds
<1>11. CASE RemoveDirectory
  <2>1. toRemove # <<>> /\ Head(toRemove).do = "rmdir" /\ toRemove' = rest BY <1>11 DEF RemoveDirectory
  <2>2. p # Root BY <1>0, <1>3, <2>1 DEF RmdirsBelow
  <2>3. UNCHANGED <<fs, queue, missed>> \/ (fs["src"][p] = Dir /\ RemoveEntry(p)) BY <1>11 DEF RemoveDirectory
  <2> QED BY <1>2, <1>3, <1>4, <1>5, <2>1, <2>2, <2>3, NodeKinds
<1>12. CASE Finished
  <2>1. toRemove' = toRemove BY <1>12 DEF Finished
  <2> QED BY <1>0, <1>2, <1>4, <1>12, <2>1 DEF Finished
<1> QED BY <1>8, <1>9, <1>10, <1>11, <1>12

-----------------------------------------------------------------------------
\* The two halves of what is said of open files.
WorkerOpens ==
  LET f == file["worker"]
  IN  f # NoFile => f.path # Root /\ fs["dst"][f.path] = f.to /\ data[f.to] = 0
RestoreOpens ==
  LET f == file["restore"]
  IN  f # NoFile =>
        f.path # Root /\ \A p \in Paths : fs["dst"][p] # f.to /\ (fs["src"][p] = f.to => p = f.path)

\* Together they are OpenInv.
LEMMA OpenHalves ==
  /\ RootsInv /\ OpenInv => WorkerOpens /\ RestoreOpens
  /\ WorkerOpens /\ RestoreOpens =>
       OpenInv /\ \A c \in Copiers : file[c] # NoFile => file[c].path # Root
BY CopierNames DEF RootsInv, OpenInv, WorkerOpens, RestoreOpens

\* A change adds events about its path only, and none to a worker without watches.
LEMMA QueueGrows ==
  ASSUME TypeOK, NEW p \in Paths, NEW b \in BOOLEAN, Changed(p, b) \/ Removed(p, b)
  PROVE  /\ \A e \in ToSet(queue') : e \in ToSet(queue) \/ e.path = p
         /\ watched = {} => queue' = queue
         /\ missed' = missed \/ missed' = missed \cup Below(p)
<1>0. queue \in Seq(Events) BY DEF TypeOK
<1>1. missed' = missed \/ missed' = missed \cup Below(p) BY DEF Changed, Removed, Missed
<1>2. ASSUME NEW q \in Seq(Events), NEW e \in Events
      PROVE  /\ \A x \in ToSet(Queued(q, e)) : x \in ToSet(q) \/ x = e
             /\ watched = {} => Queued(q, e) = q
             /\ Queued(q, e) \in Seq(Events)
  <2> DEFINE about == IF e.kind = "self" THEN e.path ELSE Parent(e.path)
  <2>1. Queued(q, e) \in Seq(Events) BY QueuedType
  <2>2. about \notin watched => Queued(q, e) = q BY DEF Queued
  <2>3. about \in watched => ToSet(Queued(q, e)) = ToSet(q) \cup {e}
    <3> DEFINE a == about
    <3>1. a = IF e.kind = "self" THEN e.path ELSE Parent(e.path) OBVIOUS
    <3> HIDE DEF a
    <3>2. a \in watched => ToSet(Queued(q, e)) = ToSet(q) \cup {e} BY <3>1, QueuedMeans
    <3> QED BY <3>2 DEF a
  <2> HIDE DEF about
  <2> QED BY <2>1, <2>2, <2>3
<1> DEFINE s == Event("self", p, b)
           c == Event("changed", p, b)
           d == Event("deleted", p, b)
<1>3. /\ s \in Events /\ c \in Events /\ d \in Events /\ s.path = p /\ c.path = p /\ d.path = p
  BY EventType
<1>4. queue' = Queued(queue, c) \/ queue' = Queued(Queued(queue, s), d) BY DEF Changed, Removed
<1> HIDE DEF s, c, d
<1>5. CASE queue' = Queued(queue, c) BY <1>0, <1>1, <1>2, <1>3, <1>5
<1>6. CASE queue' = Queued(Queued(queue, s), d)
  <2> DEFINE q == Queued(queue, s)
  <2>1. q \in Seq(Events) /\ (\A x \in ToSet(q) : x \in ToSet(queue) \/ x = s) /\ (watched = {} => q = queue)
    BY <1>0, <1>2, <1>3
  <2> HIDE DEF q
  <2>2. queue' = Queued(q, d) BY <1>6 DEF q
  <2>3. (\A x \in ToSet(queue') : x \in ToSet(q) \/ x = d) /\ (watched = {} => queue' = q)
    BY <1>2, <1>3, <2>1, <2>2
  <2> QED BY <1>1, <1>3, <2>1, <2>3
<1> QED BY <1>4, <1>5, <1>6

\* What is below a path takes what is below it along.
LEMMA BelowClosed == \A p \in Paths : \A q \in Below(p) : q \in Paths /\ Below(q) \subseteq Below(p)
BY PrefixOrder DEF Below

\* What the user and restore do to the source.
LEMMA WellSource ==
  ASSUME Well, Basic', WorkerWaits, active' = active, RmdirsBelow(toRemove'), RestoreOpens',
         NotSeen \/ \E p \in Paths \ {Root}, b \in BOOLEAN : SourceGains(p, b) \/ SourceLoses(p, b)
  PROVE  Well'
<1>0. /\ Basic /\ TypeOK /\ RootsInv /\ OpenInv /\ StageInv /\ MissedInv /\ WorkerOpens
      /\ "src" \in Names /\ "dst" \in Names
  BY OpenHalves DEF Well, Basic, Names
<1>1. /\ fs'["src"][Root] = Dir /\ fs'["dst"] = fs["dst"]
      /\ \A q \in Paths : IsFile(fs["dst"][q]) => data'[fs["dst"][q]] = data[fs["dst"][q]]
  BY <1>0, RootPrefix DEF NotSeen, SourceGains, SourceLoses, RootsInv
<1>2. /\ \A e \in ToSet(queue') : e.path # Root
      /\ watched = {} => queue' = queue
      /\ missed' = missed \/ \E p \in Paths : missed' = missed \cup Below(p)
  <2>1. CASE NotSeen BY <1>0, <2>1 DEF NotSeen, RootsInv
  <2>2. CASE \E p \in Paths \ {Root}, b \in BOOLEAN : SourceGains(p, b) \/ SourceLoses(p, b)
    <3>1. PICK p \in Paths \ {Root}, b \in BOOLEAN : Changed(p, b) \/ Removed(p, b)
      BY <2>2 DEF SourceGains, SourceLoses
    <3>2. /\ \A e \in ToSet(queue') : e \in ToSet(queue) \/ e.path = p
          /\ watched = {} => queue' = queue
          /\ missed' = missed \/ missed' = missed \cup Below(p)
      BY <1>0, <3>1, QueueGrows
    <3> QED BY <1>0, <3>2 DEF RootsInv
  <2> QED BY <2>1, <2>2
<1>3. WorkerOpens'
  <2> SUFFICES ASSUME file["worker"] # NoFile
               PROVE  /\ file["worker"].path # Root /\ fs["dst"][file["worker"].path] = file["worker"].to
                      /\ data'[file["worker"].to] = 0
    BY <1>1 DEF WorkerOpens, WorkerWaits
  <2>1. file["worker"] \in OpenFiles BY <1>0, CopierNames DEF TypeOK
  <2>2. file["worker"].path \in Paths /\ IsFile(file["worker"].to) BY <2>1 DEF OpenFiles, IsFile
  <2> QED BY <1>0, <1>1, <2>2 DEF WorkerOpens
<1>4. RootsInv' /\ OpenInv'
  <2>1. \A t \in {"src", "dst"} : fs'[t][Root] = Dir BY <1>0, <1>1 DEF RootsInv
  <2>2. OpenInv' /\ \A c \in Copiers : file'[c] # NoFile => file'[c].path # Root
    BY <1>3, CopierNames DEF OpenInv, WorkerOpens, RestoreOpens
  <2> QED BY <1>2, <2>1, <2>2 DEF RootsInv, RmdirsBelow
<1>5. StageInv' BY <1>0, <1>2 DEF StageInv, WorkerWaits, Idle
<1>6. MissedInv'
  <2>1. \A q \in missed : Below(q) \subseteq missed BY <1>0 DEF MissedInv
  <2> QED BY <1>2, <2>1, BelowClosed DEF MissedInv
<1> QED BY <1>4, <1>5, <1>6 DEF Well

\* The file that restore has open keeps to its name when nobody gets an open inode.
LEMMA RestoreOpensStill ==
  ASSUME Well, Basic', file' = file,
         NotSeen \/ \E p \in Paths \ {Root}, b \in BOOLEAN :
                      (SourceGains(p, b) \/ SourceLoses(p, b)) /\ NewAtMost(p)
  PROVE  RestoreOpens'
<1>0. RestoreOpens BY OpenHalves DEF Well
<1> SUFFICES ASSUME file["restore"] # NoFile
             PROVE  LET f == file["restore"]
                    IN  f.path # Root /\ \A p \in Paths : fs'["dst"][p] # f.to /\ (fs'["src"][p] = f.to => p = f.path)
  BY DEF RestoreOpens
<1> DEFINE f == file["restore"]
<1>1. f \in OpenFiles BY CopierNames DEF Well, Basic, TypeOK
<1>2. f.to \in Inodes /\ f.to \in Opened
  <2>1. f.to \in Inodes BY <1>1 DEF OpenFiles
  <2>2. "restore" \in {d \in Copiers : file[d] # NoFile} BY CopierNames
  <2> QED BY <2>1, <2>2 DEF Opened
<1>3. f.path # Root /\ \A p \in Paths : fs["dst"][p] # f.to /\ (fs["src"][p] = f.to => p = f.path)
  BY <1>0 DEF RestoreOpens
<1> HIDE DEF f
<1>4. CASE NotSeen BY <1>3, <1>4 DEF NotSeen, f
<1>5. CASE \E p \in Paths \ {Root}, b \in BOOLEAN : (SourceGains(p, b) \/ SourceLoses(p, b)) /\ NewAtMost(p)
  <2>1. PICK p \in Paths \ {Root} :
          /\ fs'["dst"] = fs["dst"] /\ \A q \in Paths : q # p => fs'["src"][q] = fs["src"][q]
          /\ NewAtMost(p)
    BY <1>5 DEF SourceGains, SourceLoses
  <2>2. fs'["src"][p] = f.to => p = f.path BY <1>2, <1>3, <2>1 DEF NewAtMost, IsFile
  <2> QED BY <1>3, <2>1, <2>2 DEF f
<1> QED BY <1>4, <1>5

\* A restore opens what no other name has.
LEMMA RestoreOpensOwn ==
  ASSUME Well, Basic', Copy("restore") PROVE RestoreOpens'
<1> DEFINE c == "restore"
<1>0. /\ c \in Copiers /\ From[c] = "dst" /\ To[c] = "src" /\ Basic /\ TypeOK /\ RestoreOpens
      /\ file \in [Copiers -> OpenFiles \cup {NoFile}]
  BY CopierNames, OpenHalves DEF Well, Basic, TypeOK
<1>1. NotSeen \/ \E p \in Paths \ {Root}, b \in BOOLEAN : SourceGains(p, b) /\ NewAtMost(p)
  BY RestoreChanges
<1>2. CASE file' = file BY <1>1, <1>2, RestoreOpensStill
<1>3. CASE OpenFile(c)
  <2> DEFINE p == At(c)
             i == IF IsFile(Dest(c)[p]) THEN Dest(c)[p] ELSE Fresh
  <2>1. todo[c] # <<>> /\ p \in Paths BY <1>0, <1>3, HeadTask DEF OpenFile, Doing
  <2>2. /\ IsFile(fs["dst"][p]) /\ fs["src"][p] # Dir /\ fs' = [fs EXCEPT !["src"][p] = i]
        /\ file'[c].path = p /\ file'[c].to = i
        /\ Dest(c) = fs["src"]
    BY <1>0, <1>3 DEF OpenFile, Source, Dest
  <2>3. p \in Files /\ p # Root
    <3>1. p \in Files BY <1>0, <2>1, <2>2 DEF Basic, InodesApart
    <3> QED BY <3>1, MirrorAssumption DEF Root
  <2>4. i \in Inodes
    <3>1. CASE IsFile(fs["src"][p]) BY <2>2, <3>1 DEF IsFile
    <3>2. CASE ~IsFile(fs["src"][p]) BY <1>0, <2>2, <2>3, <3>2, FreshIsNew DEF Basic
    <3> QED BY <3>1, <3>2
  <2> HIDE DEF i
  <2>5. fs'["src"][p] = i /\ IsFile(i)
    <3>1. fs \in [Names -> Trees] /\ fs["src"] \in [Paths -> Nodes] BY <1>0, TreesOf DEF Names
    <3> QED BY <2>1, <2>2, <2>4, <3>1 DEF Names, IsFile
  <2>6. \A q \in Paths : fs'["dst"][q] # i /\ (fs'["src"][q] = i => q = p)
    BY <2>1, <2>5 DEF Basic, InodesApart
  <2> QED BY <2>2, <2>3, <2>6 DEF RestoreOpens
<1>4. CASE ReadFile(c)
  <2>1. fs' = fs /\ file[c] # NoFile /\ file[c] \in OpenFiles
        /\ file' = [file EXCEPT ![c].read = TRUE, ![c].buffer = data[file[c].from]]
    BY <1>0, <1>4 DEF ReadFile, trees
  <2>2. file'[c].path = file[c].path /\ file'[c].to = file[c].to BY <1>0, <2>1 DEF OpenFiles
  <2> QED BY <1>0, <2>1, <2>2 DEF RestoreOpens
<1>5. CASE WriteFile(c)
  <2>1. file'[c] = NoFile BY <1>0, <1>5 DEF WriteFile
  <2> QED BY <2>1 DEF RestoreOpens
<1>6. CASE EntryGone(c) \/ MakeFails(c) \/ ListFails(c) \/ OpenFails(c)
  <2>1. Fails(c) BY <1>6 DEF EntryGone, MakeFails, ListFails, OpenFails
  <2> QED BY <1>2, <2>1 DEF Fails
<1>7. CASE EnterDirectory(c) \/ MakeDirectory(c) \/ ListDirectory(c) \/ SkipFile(c)
  BY <1>2, <1>7 DEF EnterDirectory, MakeDirectory, ListDirectory, SkipFile
<1> QED BY <1>3, <1>4, <1>5, <1>6, <1>7 DEF Copy

\* The steps of the user and of restore, of which the worker learns.
LEMMA OthersKeep ==
  ASSUME Well, MirrorInv, Basic', User \/ Supervisor PROVE Well' /\ MirrorInv'
<1>0. RmdirsBelow(toRemove) BY DEF Well, RootsInv, RmdirsBelow
<1>1. CASE User
  <2>1. PICK p \in Paths \ {Root} : Write(p) \/ Unlink(p) \/ MkDir(p) \/ RmDir(p) BY <1>1 DEF User
  <2>2. /\ \E b \in BOOLEAN : SourceGains(p, b) \/ SourceLoses(p, b)
        /\ WorkerWaits /\ NewAtMost(p) /\ file' = file /\ toRemove' = toRemove
    BY <2>1, UserChanges
  <2>3. active' = active BY <2>1 DEF Write, Unlink, MkDir, RmDir, UserDid, supervisor
  <2>4. RestoreOpens' BY <2>2, RestoreOpensStill
  <2>5. Well' BY <1>0, <2>2, <2>3, <2>4, WellSource
  <2> QED BY <2>2, <2>5, SourceStep
<1>2. CASE Copy("restore")
  <2>1. /\ NotSeen \/ \E p \in Paths \ {Root}, b \in BOOLEAN : SourceGains(p, b) /\ NewAtMost(p)
        /\ WorkerWaits /\ toRemove' = toRemove
    BY <1>2, RestoreChanges
  <2>2. RestoreOpens' BY <1>2, RestoreOpensOwn
  <2>3. active' = active
    BY <1>2 DEF Copy, EntryGone, MakeFails, ListFails, OpenFails, Fails, EnterDirectory, MakeDirectory,
                ListDirectory, SkipFile, OpenFile, ReadFile, WriteFile, CopierOnly
  <2>4. Well' BY <1>0, <2>1, <2>2, <2>3, WellSource
  <2> QED BY <2>1, <2>4, SourceStep, MirrorSame
<1>3. CASE Restored \/ CheckBoth \/ CheckMissing \/ RemoveDirectory \/ Finished
  <2>1. /\ NotSeen \/ \E p \in Paths \ {Root}, b \in BOOLEAN : SourceLoses(p, b) /\ NewAtMost(p)
        /\ WorkerWaits /\ file' = file /\ RmdirsBelow(toRemove')
    BY <1>3, RemovalChanges
  <2>2. RestoreOpens' BY <2>1, RestoreOpensStill
  <2>3. active' = active
    BY <1>3 DEF Restored, CheckBoth, CheckMissing, RemoveDirectory, Finished, RestoreOnly
  <2>4. Well' BY <2>1, <2>2, <2>3, WellSource
  <2> QED BY <2>1, <2>4, SourceStep, MirrorSame
<1> QED BY <1>1, <1>2, <1>3 DEF Supervisor

-----------------------------------------------------------------------------
\* What the worker does to the target, and handles.
LEMMA WellWorker ==
  ASSUME Well, Basic', fs'["src"] = fs["src"], fs'["dst"][Root] = Dir,
         \A q \in Paths : fs'["dst"][q] \in {fs["dst"][q], Absent, Dir} \/ fs'["dst"][q] \notin Opened,
         toRemove' = toRemove, file'["restore"] = file["restore"],
         ToSet(queue') \subseteq ToSet(queue), WorkerOpens', StageInv', MissedInv'
  PROVE  Well'
<1>0. /\ Basic /\ TypeOK /\ RootsInv /\ RestoreOpens BY OpenHalves DEF Well, Basic
<1>1. RestoreOpens'
  <2> SUFFICES ASSUME file["restore"] # NoFile
               PROVE  LET f == file["restore"]
                      IN  f.path # Root /\ \A p \in Paths : fs'["dst"][p] # f.to /\ (fs'["src"][p] = f.to => p = f.path)
    BY DEF RestoreOpens
  <2> DEFINE f == file["restore"]
  <2>1. f \in OpenFiles BY <1>0, CopierNames DEF TypeOK
  <2>2. f.to \in Inodes /\ f.to \in Opened
    <3>1. f.to \in Inodes BY <2>1 DEF OpenFiles
    <3>2. "restore" \in {d \in Copiers : file[d] # NoFile} BY CopierNames
    <3> QED BY <3>1, <3>2 DEF Opened
  <2>3. f.to # Absent /\ f.to # Dir BY <2>2, Numbers
  <2>4. f.path # Root /\ \A p \in Paths : fs["dst"][p] # f.to /\ (fs["src"][p] = f.to => p = f.path)
    BY <1>0 DEF RestoreOpens
  <2> HIDE DEF f
  <2> QED BY <2>2, <2>3, <2>4 DEF f
<1>2. OpenInv' /\ \A c \in Copiers : file'[c] # NoFile => file'[c].path # Root
  BY <1>1, CopierNames DEF OpenInv, WorkerOpens, RestoreOpens
<1>3. RootsInv' BY <1>0, <1>2 DEF RootsInv
<1> QED BY <1>2, <1>3 DEF Well

\* The worker's copying.
LEMMA WorkerCopiesWell ==
  ASSUME Well, Basic', stage # "dead", Copy("worker") PROVE Well'
<1> DEFINE c == "worker"
           p == At(c)
<1>0. /\ c \in Copiers /\ "restore" \in Copiers /\ c # "restore" /\ From[c] = "src" /\ To[c] = "dst"
      /\ Basic /\ TypeOK /\ RootsInv /\ WorkerOpens /\ StageInv /\ MissedInv
      /\ file \in [Copiers -> OpenFiles \cup {NoFile}] /\ todo \in [Copiers -> Seq(Tasks)]
      /\ fs \in [Names -> Trees] /\ "src" \in Names /\ "dst" \in Names
      /\ fs["dst"] \in [Paths -> Nodes]
      /\ fs["dst"][Root] = Dir /\ data \in [Inodes -> Contents]
  BY CopierNames, OpenHalves, TreesOf DEF Well, Basic, TypeOK, Names, RootsInv
<1>1. CASE EntryGone(c) \/ MakeFails(c) \/ ListFails(c) \/ OpenFails(c)
  <2>1. Fails(c) /\ file[c] = NoFile /\ p \in Paths /\ todo[c] # <<>>
    <3>1. Fails(c) /\ file[c] = NoFile /\ todo[c] # <<>>
      BY <1>1 DEF EntryGone, MakeFails, ListFails, OpenFails, Doing
    <3> QED BY <1>0, <3>1, HeadTask
  <2>2. /\ fs' = fs /\ file' = file /\ toRemove' = toRemove /\ queue' = queue /\ todo'[c] = <<>>
        /\ watched' = watched /\ toWatch' = toWatch /\ active' = active
        /\ stage' = (IF stage = "sync" THEN "dead" ELSE stage)
        /\ missed' = missed \cup GivenUp(c)
    BY <1>0, <2>1 DEF Fails, trees
  <2>3. WorkerOpens' BY <2>1, <2>2 DEF WorkerOpens
  <2>4. StageInv' BY <1>0, <2>1, <2>2 DEF StageInv, Idle
  <2>5. MissedInv'
    <3>1. \A t \in ToSet(Tail(todo[c])) : t.path \in Paths
      <4>1. Tail(todo[c]) \in Seq(Tasks) BY <1>0, <2>1, HeadTask
      <4>2. ToSet(Tail(todo[c])) \subseteq Tasks BY <4>1, Elements
      <4> QED BY <4>2 DEF Tasks
    <3>2. \A q \in GivenUp(c) : Below(q) \subseteq GivenUp(c)
      <4> SUFFICES ASSUME NEW q \in GivenUp(c) PROVE Below(q) \subseteq GivenUp(c) OBVIOUS
      <4>1. CASE \E t \in ToSet(Tail(todo[c])) : q \in Below(t.path)
        <5>1. PICK t \in ToSet(Tail(todo[c])) : q \in Below(t.path) BY <4>1
        <5>2. Below(q) \subseteq Below(t.path) BY <3>1, <5>1, BelowClosed
        <5> QED BY <5>1, <5>2 DEF GivenUp
      <4>2. CASE Source(c)[At(c)] # Absent /\ q \in Below(At(c))
        <5>1. Below(q) \subseteq Below(At(c)) BY <2>1, <4>2, BelowClosed
        <5> QED BY <4>2, <5>1 DEF GivenUp
      <4> QED BY <4>1, <4>2 DEF GivenUp
    <3> QED BY <1>0, <2>2, <3>2 DEF MissedInv
  <2> QED BY <1>0, <2>2, <2>3, <2>4, <2>5, WellWorker
<1>2. ASSUME CopierOnly, fs'["src"] = fs["src"], fs'["dst"][Root] = Dir,
             \A q \in Paths : fs'["dst"][q] \in {fs["dst"][q], Absent, Dir} \/ fs'["dst"][q] \notin Opened,
             file'["restore"] = file["restore"], queue' = queue, missed' = missed, WorkerOpens'
      PROVE  Well'
  <2>1. StageInv' BY <1>0, <1>2 DEF StageInv, CopierOnly
  <2>2. MissedInv' BY <1>0, <1>2 DEF MissedInv
  <2>3. toRemove' = toRemove /\ ToSet(queue') \subseteq ToSet(queue) BY <1>2 DEF CopierOnly
  <2> QED BY <1>0, <1>2, <2>1, <2>2, <2>3, WellWorker
<1>3. CASE EnterDirectory(c) \/ SkipFile(c) \/ ListDirectory(c)
  <2>1. /\ CopierOnly /\ fs' = fs /\ file' = file /\ queue' = queue /\ missed' = missed /\ file[c] = NoFile
    BY <1>3 DEF EnterDirectory, SkipFile, ListDirectory, SameWorker, trees, Doing
  <2>2. WorkerOpens' BY <2>1 DEF WorkerOpens
  <2> QED BY <1>0, <1>2, <2>1, <2>2
<1>4. CASE MakeDirectory(c)
  <2>1. todo[c] # <<>> /\ file[c] = NoFile /\ p \in Paths BY <1>0, <1>4, HeadTask DEF MakeDirectory, Doing
  <2>2. /\ CopierOnly /\ file' = file /\ queue' = queue /\ missed' = missed
        /\ fs' = fs \/ fs' = [fs EXCEPT !["dst"][p] = Dir]
    BY <1>0, <1>4 DEF MakeDirectory
  <2>3. WorkerOpens' BY <2>1, <2>2 DEF WorkerOpens
  <2>4. /\ fs'["src"] = fs["src"] /\ fs'["dst"][Root] = Dir
        /\ \A q \in Paths : fs'["dst"][q] \in {fs["dst"][q], Absent, Dir}
    BY <1>0, <2>1, <2>2, RootPrefix DEF Names
  <2> QED BY <1>0, <1>2, <2>1, <2>2, <2>3, <2>4
<1>5. CASE OpenFile(c)
  <2> DEFINE i == IF IsFile(Dest(c)[p]) THEN Dest(c)[p] ELSE Fresh
  <2>1. todo[c] # <<>> /\ p \in Paths BY <1>0, <1>5, HeadTask DEF OpenFile, Doing
  <2>2. /\ IsFile(fs["src"][p]) /\ fs["dst"][p] # Dir /\ fs' = [fs EXCEPT !["dst"][p] = i]
        /\ data' = [data EXCEPT ![i] = 0] /\ Dest(c) = fs["dst"]
        /\ file'[c].path = p /\ file'[c].to = i /\ file'["restore"] = file["restore"]
        /\ CopierOnly /\ queue' = queue /\ missed' = missed
    BY <1>0, <1>5 DEF OpenFile, Source, Dest
  <2>3. p \in Files /\ p # Root
    <3>1. p \in Files BY <1>0, <2>1, <2>2 DEF Basic, InodesApart
    <3> QED BY <3>1, MirrorAssumption DEF Root
  <2>4. i \in Inodes /\ (i = fs["dst"][p] \/ i \notin Opened)
    <3>1. CASE IsFile(fs["dst"][p]) BY <2>2, <3>1 DEF IsFile
    <3>2. CASE ~IsFile(fs["dst"][p]) BY <1>0, <2>2, <2>3, <3>2, FreshIsNew DEF Basic
    <3> QED BY <3>1, <3>2
  <2> HIDE DEF i
  <2>5. /\ fs'["src"] = fs["src"] /\ fs'["dst"][Root] = Dir /\ fs'["dst"][p] = i
        /\ \A q \in Paths : fs'["dst"][q] = fs["dst"][q] \/ q = p
    BY <1>0, <2>1, <2>2, <2>3, RootPrefix DEF Names
  <2>6. WorkerOpens' BY <1>0, <2>2, <2>3, <2>4, <2>5 DEF WorkerOpens
  <2> QED BY <1>0, <1>2, <2>2, <2>4, <2>5, <2>6
<1>6. CASE ReadFile(c)
  <2>1. fs' = fs /\ data' = data /\ file[c] # NoFile /\ file[c] \in OpenFiles
        /\ file' = [file EXCEPT ![c].read = TRUE, ![c].buffer = data[file[c].from]]
        /\ CopierOnly /\ queue' = queue /\ missed' = missed
    BY <1>0, <1>6 DEF ReadFile, trees, SameWorker
  <2>2. file'[c].path = file[c].path /\ file'[c].to = file[c].to /\ file'["restore"] = file["restore"]
    BY <1>0, <2>1 DEF OpenFiles
  <2>3. WorkerOpens' BY <1>0, <2>1, <2>2 DEF WorkerOpens
  <2> QED BY <1>0, <1>2, <2>1, <2>2, <2>3
<1>7. CASE WriteFile(c)
  <2>1. /\ CopierOnly /\ fs' = fs /\ queue' = queue /\ missed' = missed /\ file'[c] = NoFile
        /\ file'["restore"] = file["restore"]
    BY <1>0, <1>7 DEF WriteFile
  <2>2. WorkerOpens' BY <2>1 DEF WorkerOpens
  <2> QED BY <1>0, <1>2, <2>1, <2>2
<1> QED BY <1>1, <1>3, <1>4, <1>5, <1>6, <1>7 DEF Copy

\* The worker's other steps.
LEMMA WorkerLoopsWell ==
  ASSUME Well, Basic', StartLoop \/ WatchDirectory \/ HandleSelf \/ HandleDelete \/ HandleChange
  PROVE  Well'
<1>0. /\ Basic /\ TypeOK /\ RootsInv /\ WorkerOpens /\ StageInv /\ MissedInv
      /\ fs \in [Names -> Trees] /\ "src" \in Names /\ "dst" \in Names /\ fs["dst"] \in Trees
      /\ fs["dst"] \in [Paths -> Nodes] /\ fs["dst"][Root] = Dir /\ Root \in Paths
  BY OpenHalves, TreesOf, RootPrefix DEF Well, Basic, TypeOK, Names, RootsInv
<1>1. /\ WorkerOnly /\ missed' = missed /\ file["worker"] = NoFile
  BY DEF StartLoop, WatchDirectory, HandleSelf, HandleDelete, HandleChange, Handling, Waiting, Idle
<1>2. file' = file /\ toRemove' = toRemove /\ active' = active BY <1>1 DEF WorkerOnly, supervisor
<1>3. WorkerOpens' /\ MissedInv' BY <1>0, <1>1, <1>2 DEF WorkerOpens, MissedInv
<1>4. StageInv'
  <2>1. CASE StartLoop \/ WatchDirectory \/ HandleDelete \/ HandleChange
    <3>1. stage' = "loop" /\ stage # "dead"
      BY <2>1 DEF StartLoop, WatchDirectory, HandleDelete, HandleChange, Handling, Waiting
    <3> QED BY <1>0, <1>2, <3>1 DEF StageInv
  <2>2. CASE HandleSelf BY <1>0, <1>2, <2>2 DEF HandleSelf, Handling, Waiting, StageInv, Idle
  <2> QED BY <2>1, <2>2
<1>5. ToSet(queue') \subseteq ToSet(queue)
  <2>1. queue \in Seq(Events) BY <1>0 DEF TypeOK
  <2>2. CASE queue' = queue BY <2>2
  <2>3. CASE queue # <<>> /\ queue' = Tail(queue) BY <2>1, <2>3, Elements
  <2>4. CASE queue' = <<>> BY <2>4 DEF ToSet
  <2> QED BY <2>2, <2>3, <2>4 DEF StartLoop, WatchDirectory, HandleSelf, HandleDelete, HandleChange, Handling
<1>6. CASE StartLoop \/ WatchDirectory \/ HandleSelf
  <2>1. fs' = fs BY <1>6 DEF StartLoop, WatchDirectory, HandleSelf
  <2> QED BY <1>0, <1>2, <1>3, <1>4, <1>5, <2>1, WellWorker
<1>7. CASE HandleDelete
  <2> DEFINE p == Head(queue).path
  <2>1. p \in Paths /\ queue # <<>> BY <1>0, <1>7, HeadEvent DEF HandleDelete, Handling
  <2>2. p # Root
    <3>1. queue \in Seq(Events) BY <1>0 DEF TypeOK
    <3>2. Head(queue) \in ToSet(queue) BY <2>1, <3>1, Elements
    <3> QED BY <1>0, <3>2 DEF RootsInv
  <2>3. fs' = [fs EXCEPT !["dst"] = RemovePathRecursive(fs["dst"], p)] BY <1>7 DEF HandleDelete
  <2> HIDE DEF p
  <2>4. fs'["dst"] = RemovePathRecursive(fs["dst"], p) /\ fs'["src"] = fs["src"] BY <1>0, <2>3 DEF Names
  <2>5. Root \notin Below(p) BY <1>0, <2>1, <2>2, RootPrefix, PrefixOrder DEF Below
  <2>6. fs'["dst"][Root] = Dir BY <1>0, <2>4, <2>5 DEF RemovePathRecursive
  <2>7. \A q \in Paths : fs'["dst"][q] \in {fs["dst"][q], Absent, Dir}
    BY <1>0, <2>1, <2>4, Removing
  <2> QED BY <1>0, <1>2, <1>3, <1>4, <1>5, <2>4, <2>6, <2>7, WellWorker
<1>8. CASE HandleChange
  <2> DEFINE p == Head(queue).path
  <2>1. p \in Paths BY <1>0, <1>8, HeadEvent DEF HandleChange, Handling
  <2>2. fs' = [fs EXCEPT !["dst"] = WithParents(fs["dst"], p)] BY <1>8 DEF HandleChange
  <2> HIDE DEF p
  <2>3. fs'["dst"] = WithParents(fs["dst"], p) /\ fs'["src"] = fs["src"] BY <1>0, <2>2 DEF Names
  <2>4. \A q \in Paths : fs'["dst"][q] \in {fs["dst"][q], Dir} BY <1>0, <2>1, <2>3, Parents
  <2>5. fs'["dst"][Root] = Dir BY <1>0, <2>4
  <2> QED BY <1>0, <1>2, <1>3, <1>4, <1>5, <2>3, <2>4, <2>5, WellWorker
<1> QED BY <1>6, <1>7, <1>8

\* The supervisor's commands.
LEMMA CommandsWell ==
  ASSUME Well, Basic', End \/ StartAgain \/ Restore PROVE Well'
<1>0. /\ Basic /\ TypeOK /\ RootsInv /\ WorkerOpens /\ StageInv /\ MissedInv /\ fs["dst"][Root] = Dir
      /\ file \in [Copiers -> OpenFiles \cup {NoFile}] /\ todo \in [Copiers -> Seq(Tasks)]
      /\ "worker" \in Copiers /\ "restore" \in Copiers
  BY OpenHalves, CopierNames DEF Well, Basic, TypeOK, RootsInv
<1>1. fs' = fs /\ toRemove' = toRemove /\ data' = data BY DEF End, StartAgain, Restore, trees
<1>2. CASE End
  <2>1. /\ file'["restore"] = file["restore"] /\ file'["worker"] = NoFile /\ missed' = missed
        /\ ToSet(queue') \subseteq ToSet(queue)
    BY <1>0, <1>2 DEF End, ToSet
  <2>2. WorkerOpens' BY <2>1 DEF WorkerOpens
  <2>3. StageInv' BY <1>0, <1>2 DEF End, StageInv, Idle
  <2>4. MissedInv' BY <1>0, <2>1 DEF MissedInv
  <2> QED BY <1>0, <1>1, <2>1, <2>2, <2>3, <2>4, WellWorker
<1>3. CASE StartAgain
  <2>1. file' = file /\ queue' = queue /\ missed' = {} BY <1>3 DEF StartAgain
  <2>2. WorkerOpens' BY <1>0, <1>1, <2>1 DEF WorkerOpens
  <2>3. StageInv' BY <1>0, <1>3 DEF StartAgain, StageInv
  <2>4. MissedInv' BY <2>1 DEF MissedInv
  <2> QED BY <1>0, <1>1, <2>1, <2>2, <2>3, <2>4, WellWorker
<1>4. CASE Restore
  <2>1. file' = file /\ queue' = queue /\ missed' = missed /\ todo'["worker"] = todo["worker"]
        /\ UNCHANGED worker /\ active' = active
    BY <1>0, <1>4 DEF Restore
  <2>2. WorkerOpens' BY <1>0, <1>1, <2>1 DEF WorkerOpens
  <2>3. StageInv' BY <1>0, <2>1 DEF StageInv, worker, Idle
  <2>4. MissedInv' BY <1>0, <2>1 DEF MissedInv
  <2> QED BY <1>0, <1>1, <2>1, <2>2, <2>3, <2>4, WellWorker
<1> QED BY <1>2, <1>3, <1>4

\* At the start.
LEMMA InitWell == ASSUME Init PROVE Well
<1>1. Basic BY InitBasic
<1>2. Root \in Paths /\ Root \in StartDirs /\ Root \notin StartFiles
  <2>1. Root \in Paths /\ \A p \in Paths : IsPrefix(Root, p) BY RootPrefix
  <2>2. \A q \in StartFiles : q \in Paths /\ q # Root BY MirrorAssumption DEF Root
  <2>3. \A q \in StartFiles : ~IsPrefix(q, Root) BY <2>1, <2>2, PrefixOrder
  <2> QED BY <2>1, <2>2, <2>3 DEF StartDirs
<1>3. fs["src"][Root] = Dir /\ fs["dst"][Root] = Dir
  <2>1. fs["dst"][Root] = Dir BY <1>2 DEF Init
  <2>2. Initially[Root] = Dir BY <1>2 DEF Initially
  <2> QED BY <2>1, <2>2 DEF Init
<1>4. /\ \A c \in Copiers : file[c] = NoFile /\ toRemove = <<>> /\ queue = <<>>
      /\ "worker" \in Copiers /\ "restore" \in Copiers
  BY CopierNames DEF Init
<1>5. RootsInv BY <1>3, <1>4, CopierNames DEF RootsInv, ToSet
<1>6. OpenInv BY <1>4 DEF OpenInv
<1>7. StageInv /\ MissedInv BY DEF Init, StageInv, MissedInv
<1> QED BY <1>1, <1>5, <1>6, <1>7 DEF Well

-----------------------------------------------------------------------------
\* What the worker's copying leaves alone.
CopyFrame ==
  /\ fs'["src"] = fs["src"]
  /\ UNCHANGED <<queue, watched, toWatch, leftover>>
  /\ stage' # "dead" => stage' = stage
LEMMA CopyFrameKeeps ==
  ASSUME Well, Mirroring, CopyFrame, stage' = stage, listed \subseteq listed', missed \subseteq missed',
         \A t \in ToSet(todo'["worker"]) : Known(t.path)',
         \A p \in Paths : fs'["dst"][p] # Absent => fs["dst"][p] # Absent \/ Known(p),
         \A p \in Paths : fs["src"][p] = Dir /\ (\E t \in ToSet(todo["worker"]) : IsPrefix(t.path, p)) =>
           p \in listed' \cup missed' \/ \E t \in ToSet(todo'["worker"]) : IsPrefix(t.path, p),
         MakeInv', KindInv', CopiedInv'
  PROVE  Mirroring'
<1>1. fs'["src"] = fs["src"] /\ queue' = queue /\ watched' = watched /\ toWatch' = toWatch /\ leftover' = leftover
  BY DEF CopyFrame
<1>2. WatchedInv' BY <1>1 DEF Mirroring, WatchedInv
<1>3. KnownInv'
  <2>1. \A p : Known(p) => Known(p)' BY <1>1 DEF Known
  <2> QED BY <1>1, <2>1 DEF Mirroring, KnownInv
<1>4. OrderInv' BY <1>1 DEF Mirroring, OrderInv, Announces, Deletes
<1>5. WatchInv' BY <1>1 DEF Mirroring, WatchInv, ToBeWatched, Announces
<1>6. ListInv' BY <1>1 DEF Mirroring, ListInv, ToBeListed, Announced, Announces
<1> QED BY <1>2, <1>3, <1>4, <1>5, <1>6 DEF Mirroring

\* What is there below a path means that the path is there, as a directory unless it is the same.
LEMMA PresentAbove ==
  ASSUME Basic, NEW t \in Names, NEW p \in Paths, NEW q \in Paths, IsPrefix(p, q), fs[t][q] # Absent
  PROVE  fs[t][p] = Dir \/ p = q
BY TreesOf, TreeMeans DEF Basic, IsStrictPrefix

\* A walk that is given up, the worker goes on.
LEMMA FailsMirrored ==
  ASSUME Well, Mirroring, Fails("worker"), todo["worker"] # <<>>, file["worker"] = NoFile, stage' # "dead"
  PROVE  Mirroring'
<1> DEFINE c == "worker"
<1>0. /\ Basic /\ TypeOK /\ c \in Copiers /\ Source(c) = fs["src"] /\ "src" \in Names /\ c # "restore"
      /\ todo \in [Copiers -> Seq(Tasks)]
  BY CopierNames DEF Well, Basic, TypeOK, Source, Names
<1>1. /\ fs' = fs /\ data' = data /\ file' = file /\ queue' = queue /\ todo'[c] = <<>> /\ listed' = listed
      /\ watched' = watched /\ toWatch' = toWatch /\ leftover' = leftover /\ stage' = stage
      /\ missed' = missed \cup GivenUp(c)
  BY <1>0 DEF Fails, trees
<1>2. CopyFrame BY <1>1 DEF CopyFrame
<1>3. /\ ToSet(todo[c]) = {Head(todo[c])} \cup ToSet(Tail(todo[c])) /\ At(c) \in Paths
      /\ ToSet(todo'[c]) = {}
  <2>1. todo[c] \in Seq(Tasks) BY <1>0
  <2>2. ToSet(todo[c]) = {Head(todo[c])} \cup ToSet(Tail(todo[c])) BY <2>1, Elements
  <2>3. ToSet(todo'[c]) = {} BY <1>1 DEF ToSet
  <2> QED BY <1>0, <2>2, <2>3, HeadTask
<1>4. ASSUME NEW p \in Paths, fs["src"][p] # Absent, NEW t \in ToSet(todo[c]), IsPrefix(t.path, p)
      PROVE  p \in missed'
  <2>1. p \in Below(t.path) BY <1>4 DEF Below
  <2>2. CASE t \in ToSet(Tail(todo[c])) BY <1>1, <2>1, <2>2 DEF GivenUp
  <2>3. CASE t = Head(todo[c])
    <3>1. fs["src"][At(c)] # Absent
      BY <1>0, <1>3, <1>4, <2>3, PresentAbove, NodeKinds DEF At
    <3> QED BY <1>0, <1>1, <2>1, <2>3, <3>1 DEF GivenUp, At
  <2> QED BY <1>3, <2>2, <2>3
<1>5. MakeInv' BY <1>3 DEF MakeInv
<1>6. KindInv' BY <1>1 DEF Mirroring, KindInv, View, Deleted, Deletes
<1>7. CopiedInv'
  <2> SUFFICES ASSUME NEW p \in Paths, Behind(p)' PROVE p \in missed' \/ ToMirror(p)' \/ Copying(p)'
    BY DEF CopiedInv
  <2>1. Behind(p) /\ fs["src"][p] # Absent BY <1>1 DEF Behind
  <2>2. p \in missed \/ ToMirror(p) \/ Copying(p) BY <2>1 DEF Mirroring, CopiedInv
  <2> QED BY <1>1, <1>4, <2>1, <2>2 DEF ToMirror, Copying, Covers, Announced, Announces
<1>8. \A p \in Paths : fs["src"][p] = Dir /\ (\E t \in ToSet(todo[c]) : IsPrefix(t.path, p)) =>
           p \in listed' \cup missed' \/ \E t \in ToSet(todo'[c]) : IsPrefix(t.path, p)
  BY <1>4, NodeKinds
<1> QED BY <1>1, <1>2, <1>3, <1>5, <1>6, <1>7, <1>8, CopyFrameKeeps

\* A call that is replaced by others.
LEMMA TaskReplaced ==
  ASSUME TypeOK, todo["worker"] # <<>>, NEW tasks \in Seq(Tasks), Then("worker", tasks)
  PROVE  /\ ToSet(todo["worker"]) = {Head(todo["worker"])} \cup ToSet(Tail(todo["worker"]))
         /\ ToSet(todo'["worker"]) = ToSet(tasks) \cup ToSet(Tail(todo["worker"]))
         /\ At("worker") \in Paths /\ Head(todo["worker"]) \in Tasks
<1>1. "worker" \in Copiers /\ todo["worker"] \in Seq(Tasks) BY CopierNames DEF TypeOK
<1>2. todo'["worker"] = tasks \o Tail(todo["worker"]) BY <1>1, ThenType
<1>3. Tail(todo["worker"]) \in Seq(Tasks) /\ At("worker") \in Paths /\ Head(todo["worker"]) \in Tasks
  BY <1>1, HeadTask
<1>4. ToSet(todo["worker"]) = {Head(todo["worker"])} \cup ToSet(Tail(todo["worker"])) BY <1>1, Elements
<1> DEFINE rest == Tail(todo["worker"])
<1>5. rest \in Seq(Tasks) /\ todo'["worker"] = tasks \o rest BY <1>2, <1>3
<1> HIDE DEF rest
<1>6. ToSet(todo'["worker"]) = ToSet(tasks) \cup ToSet(rest) BY <1>5, Elements
<1> QED BY <1>3, <1>4, <1>6 DEF rest

\* Going into a directory.
LEMMA EnterMirrored ==
  ASSUME Well, Mirroring, EnterDirectory("worker") PROVE Mirroring'
<1> DEFINE c == "worker"
           p == At(c)
           new == Task("make", p)
           rest == ToSet(Tail(todo[c]))
<1>0. /\ TypeOK /\ Doing(c, "copy") /\ fs["src"][p] = Dir /\ todo[c] # <<>> /\ Then(c, <<new>>)
      /\ fs' = fs /\ data' = data /\ file' = file /\ queue' = queue /\ missed' = missed /\ listed' = listed
      /\ CopierOnly /\ Head(todo[c]).do = "copy" /\ Head(todo[c]).path = p
  BY CopierNames DEF Well, Basic, EnterDirectory, Source, Doing, SameWorker, trees, At
<1>1. p \in Paths /\ new \in Tasks /\ new.do = "make" /\ new.path = p
  BY <1>0, HeadTask, CopierNames, TaskType
<1> HIDE DEF p, new
<1>2. <<new>> \in Seq(Tasks) /\ ToSet(<<new>>) = {new} BY <1>1 DEF ToSet
<1>3. /\ ToSet(todo[c]) = {Head(todo[c])} \cup rest /\ ToSet(todo'[c]) = {new} \cup rest
  BY <1>0, <1>2, TaskReplaced
<1> HIDE DEF rest
<1>4. CopyFrame /\ stage' = stage /\ watched' = watched /\ leftover' = leftover BY <1>0 DEF CopyFrame, CopierOnly
<1>5. \A t \in ToSet(todo'[c]) : Known(t.path)'
  BY <1>0, <1>1, <1>3, <1>4 DEF Mirroring, KnownInv, Known
<1>6. \A q \in Paths : (\E t \in ToSet(todo[c]) : IsPrefix(t.path, q)) => \E t \in ToSet(todo'[c]) : IsPrefix(t.path, q)
  BY <1>0, <1>1, <1>3
<1>7. MakeInv' BY <1>0, <1>1, <1>3 DEF Mirroring, MakeInv, Deleted, Deletes
<1>8. KindInv' BY <1>0, <1>4 DEF Mirroring, KindInv, View, Deleted, Deletes
<1>9. CopiedInv'
  <2> SUFFICES ASSUME NEW q \in Paths, Behind(q)' PROVE q \in missed' \/ ToMirror(q)' \/ Copying(q)'
    BY DEF CopiedInv
  <2>1. Behind(q) BY <1>0 DEF Behind
  <2>2. q \in missed \/ ToMirror(q) \/ Copying(q) BY <2>1 DEF Mirroring, CopiedInv
  <2>3. Covers(Head(todo[c]), q) => Covers(new, q) BY <1>0, <1>1 DEF Covers
  <2>4. ToMirror(q) => ToMirror(q)' BY <1>0, <1>3, <2>3 DEF ToMirror, Announced, Announces, Covers
  <2>5. Copying(q) => Copying(q)' BY <1>0 DEF Copying
  <2> QED BY <1>0, <2>2, <2>4, <2>5
<1> QED BY <1>0, <1>4, <1>5, <1>6, <1>7, <1>8, <1>9, CopyFrameKeeps

\* Making it in the target.
LEMMA MakeMirrored ==
  ASSUME Well, Mirroring, MakeDirectory("worker") PROVE Mirroring'
<1> DEFINE c == "worker"
           p == At(c)
           new == Task("list", p)
           rest == ToSet(Tail(todo[c]))
<1>0. /\ TypeOK /\ Basic /\ todo[c] # <<>> /\ Then(c, <<new>>) /\ file[c] = NoFile
      /\ data' = data /\ file' = file /\ queue' = queue /\ missed' = missed /\ listed' = listed
      /\ CopierOnly /\ Head(todo[c]).do = "make" /\ Head(todo[c]).path = p
      /\ \/ fs["dst"][p] # Absent /\ fs' = fs
         \/ fs["dst"][p] = Absent /\ fs' = [fs EXCEPT !["dst"][p] = Dir]
  BY CopierNames DEF Well, Basic, MakeDirectory, Dest, Doing, At
<1>1. p \in Paths /\ new \in Tasks /\ new.do = "list" /\ new.path = p
  BY <1>0, HeadTask, CopierNames, TaskType
<1> HIDE DEF p, new
<1>2. <<new>> \in Seq(Tasks) /\ ToSet(<<new>>) = {new} BY <1>1 DEF ToSet
<1>3. /\ ToSet(todo[c]) = {Head(todo[c])} \cup rest /\ ToSet(todo'[c]) = {new} \cup rest
  BY <1>0, <1>2, TaskReplaced
<1> HIDE DEF rest
<1>4. /\ fs'["src"] = fs["src"] /\ \A q \in Paths : q # p => fs'["dst"][q] = fs["dst"][q]
      /\ fs["dst"][p] # Absent => fs'["dst"][p] = fs["dst"][p]
      /\ fs["dst"][p] = Absent => fs'["dst"][p] = Dir
  <2>1. fs \in [Names -> Trees] /\ fs["dst"] \in [Paths -> Nodes] BY <1>0, TreesOf DEF Names
  <2> QED BY <1>0, <1>1, <2>1 DEF Names
<1>5. CopyFrame /\ stage' = stage /\ watched' = watched /\ leftover' = leftover BY <1>0, <1>4 DEF CopyFrame, CopierOnly
<1>6. Known(p) BY <1>0, <1>3 DEF Mirroring, KnownInv
<1>7. \A t \in ToSet(todo'[c]) : Known(t.path)'
  BY <1>0, <1>1, <1>3, <1>5, <1>6 DEF Mirroring, KnownInv, Known
<1>8. \A q \in Paths : fs'["dst"][q] # Absent => fs["dst"][q] # Absent \/ Known(q) BY <1>4, <1>6
<1>9. \A q \in Paths : (\E t \in ToSet(todo[c]) : IsPrefix(t.path, q)) => \E t \in ToSet(todo'[c]) : IsPrefix(t.path, q)
  BY <1>0, <1>1, <1>3
<1>10. \A q \in Paths : (Deleted(q)' <=> Deleted(q)) /\ (Announced(q)' <=> Announced(q))
  BY <1>0 DEF Deleted, Deletes, Announced, Announces
<1>11. MakeInv'
  <2>1. \A t \in rest : t.path \in Paths BY <1>0, <1>3, Kinds
  <2> QED BY <1>0, <1>1, <1>3, <1>4, <1>10, <2>1 DEF Mirroring, MakeInv
<1>12. fs["src"][p] # Dir => p \in missed \/ Deleted(p) BY <1>0, <1>3 DEF Mirroring, MakeInv
<1>13. KindInv'
  <2> SUFFICES ASSUME NEW q \in Paths, fs'["dst"][q] # Absent, View("src", q).kind' # View("dst", q).kind'
               PROVE  q \in missed' \cup leftover' \/ Deleted(q)'
    BY DEF KindInv
  <2>1. CASE fs'["dst"][q] = fs["dst"][q]
    BY <1>0, <1>4, <1>5, <1>10, <2>1 DEF Mirroring, KindInv, View
  <2>2. CASE fs'["dst"][q] # fs["dst"][q]
    <3>1. q = p /\ fs'["dst"][p] = Dir BY <1>4, <2>2
    <3>2. fs["src"][p] # Dir BY <1>4, <3>1 DEF View
    <3> QED BY <1>0, <1>10, <1>12, <3>1, <3>2
  <2> QED BY <2>1, <2>2
<1>14. CopiedInv'
  <2> SUFFICES ASSUME NEW q \in Paths, Behind(q)' PROVE q \in missed' \/ ToMirror(q)' \/ Copying(q)'
    BY DEF CopiedInv
  <2>1. fs'["dst"][q] = fs["dst"][q]
    <3> SUFFICES ASSUME fs'["dst"][q] # fs["dst"][q] PROVE FALSE OBVIOUS
    <3>1. fs'["dst"][q] = Dir BY <1>4
    <3> QED BY <3>1, Numbers DEF Behind, IsFile
  <2>2. Behind(q) BY <1>0, <1>4, <2>1 DEF Behind
  <2>3. q \in missed \/ ToMirror(q) BY <1>0, <2>2 DEF Mirroring, CopiedInv, Copying
  <2>4. CASE q = p
    <3>1. fs["dst"][p] # Absent BY <1>4, <2>1, <2>4, NodeKinds
    <3>2. fs["src"][p] # Dir /\ fs["src"][p] # Absent BY <2>2, <2>4, <3>1, Numbers DEF Behind, IsFile
    <3>3. Deleted(p) => Announced(p)
      <4> SUFFICES ASSUME Deleted(p) PROVE Announced(p) OBVIOUS
      <4>0. queue \in Seq(Events) BY <1>0 DEF TypeOK
      <4>1. PICK i \in DOMAIN queue : Deletes(queue[i], p) BY <4>0, Elements DEF Deleted
      <4>2. PICK j \in DOMAIN queue : Announces(queue[j], p) BY <1>1, <3>2, <4>1 DEF Mirroring, OrderInv
      <4>3. queue[j] \in ToSet(queue) BY <1>0, Kinds
      <4> QED BY <4>2, <4>3 DEF Announced
    <3> QED BY <1>0, <1>10, <1>12, <2>4, <3>2, <3>3 DEF ToMirror
  <2>5. CASE q # p
    <3>1. Covers(Head(todo[c]), q) => Covers(new, q) BY <1>0, <1>1, <2>5 DEF Covers
    <3>2. ToMirror(q) => ToMirror(q)' BY <1>3, <1>10, <3>1 DEF ToMirror
    <3> QED BY <1>0, <2>3, <3>2
  <2> QED BY <2>4, <2>5
<1> QED BY <1>0, <1>5, <1>7, <1>8, <1>9, <1>11, <1>13, <1>14, CopyFrameKeeps

-----------------------------------------------------------------------------
\* Reading it.
LEMMA ListMirrored ==
  ASSUME Well, Mirroring, ListDirectory("worker") PROVE Mirroring'
<1> DEFINE c == "worker"
           p == At(c)
           S == Children(fs["src"], p)
           rest == ToSet(Tail(todo[c]))
<1>0. /\ TypeOK /\ Basic /\ todo[c] # <<>> /\ file[c] = NoFile /\ fs["src"][p] = Dir /\ c \in Copiers
      /\ fs' = fs /\ data' = data /\ file' = file /\ queue' = queue /\ missed' = missed
      /\ listed' = listed \cup {p} /\ CopierOnly /\ Head(todo[c]).do = "list" /\ Head(todo[c]).path = p
      /\ \E tasks \in Listings("copy", S) : Then(c, tasks)
  BY CopierNames DEF Well, Basic, ListDirectory, Source, Doing, At, trees
<1>1. PICK tasks \in Listings("copy", S) : Then(c, tasks) BY <1>0
<1>2. p \in Paths BY <1>0, HeadTask
<1>3. S \in SUBSET Paths /\ IsFiniteSet(S) /\ \A q \in S : q # Root /\ Parent(q) = p
  <2>1. S \in SUBSET Paths /\ \A q \in S : q # Root /\ Parent(q) = p BY DEF Children
  <2> QED BY <2>1, Numbers, FS_Subset
<1>4. \A q \in Paths \ {Root} : Parent(q) = p /\ fs["src"][q] # Absent => q \in S BY DEF Children
<1> HIDE DEF p, S, rest
<1>5. /\ tasks \in Seq(Tasks)
      /\ \A i \in DOMAIN tasks : tasks[i].do = "copy" /\ tasks[i].path \in S
      /\ \A q \in S : \E i \in DOMAIN tasks : tasks[i] = Task("copy", q)
  BY <1>1, <1>3, CopyListing, ListingMeans
<1>6. /\ \A t \in ToSet(tasks) : t.do = "copy" /\ t.path \in S
      /\ \A q \in S : Task("copy", q) \in ToSet(tasks)
  BY <1>5, Elements
<1>7. ToSet(todo[c]) = {Head(todo[c])} \cup rest /\ ToSet(todo'[c]) = ToSet(tasks) \cup rest
  BY <1>0, <1>1, <1>5, TaskReplaced DEF rest
<1>8. CopyFrame /\ stage' = stage /\ watched' = watched /\ leftover' = leftover
  BY <1>0 DEF CopyFrame, CopierOnly
<1>9. \A t \in ToSet(todo'[c]) : Known(t.path)'
  BY <1>0, <1>3, <1>6, <1>7, <1>8 DEF Mirroring, KnownInv, Known
<1>10. ASSUME NEW q \in Paths, fs["src"][q] # Absent, IsPrefix(p, q), q # p
       PROVE  \E t \in ToSet(tasks) : Covers(t, q) /\ IsPrefix(t.path, q)
  <2>1. PICK r \in Paths \ {Root} : Parent(r) = p /\ IsPrefix(r, q)
    BY <1>2, <1>10, ChildOnTheWay DEF IsStrictPrefix
  <2>2. fs["src"][r] # Absent BY <1>0, <1>10, <2>1, PresentAbove, NodeKinds DEF Names
  <2>3. r \in S BY <1>4, <2>1, <2>2
  <2>4. Task("copy", r) \in ToSet(tasks) /\ Task("copy", r).do = "copy" /\ Task("copy", r).path = r
    BY <1>6, <2>1, <2>3, TaskType
  <2> QED BY <2>1, <2>4 DEF Covers
<1>11. \A q \in Paths : fs["src"][q] = Dir /\ (\E t \in ToSet(todo[c]) : IsPrefix(t.path, q)) =>
            q \in listed' \cup missed' \/ \E t \in ToSet(todo'[c]) : IsPrefix(t.path, q)
  BY <1>0, <1>7, <1>10, NodeKinds
<1>12. \A q \in Paths : (Deleted(q)' <=> Deleted(q)) /\ (Announced(q)' <=> Announced(q))
  BY <1>0 DEF Deleted, Deletes, Announced, Announces
<1>13. MakeInv'
  <2>1. \A t \in rest : t.path \in Paths BY <1>0, <1>7, Kinds
  <2> QED BY <1>0, <1>6, <1>7, <1>12, <2>1 DEF Mirroring, MakeInv
<1>14. KindInv' BY <1>0, <1>8, <1>12 DEF Mirroring, KindInv, View
<1>15. CopiedInv'
  <2> SUFFICES ASSUME NEW q \in Paths, Behind(q)' PROVE q \in missed' \/ ToMirror(q)' \/ Copying(q)'
    BY DEF CopiedInv
  <2>1. Behind(q) /\ fs["src"][q] # Absent BY <1>0 DEF Behind
  <2>2. q \in missed \/ ToMirror(q) BY <1>0, <2>1 DEF Mirroring, CopiedInv, Copying
  <2>3. Covers(Head(todo[c]), q) => \E t \in ToSet(tasks) : Covers(t, q)
    BY <1>0, <1>10, <2>1 DEF Covers
  <2>4. ToMirror(q) => ToMirror(q)' BY <1>7, <1>12, <2>3 DEF ToMirror
  <2> QED BY <1>0, <2>2, <2>4
<1>16. \A q \in Paths : fs'["dst"][q] # Absent => fs["dst"][q] # Absent \/ Known(q) BY <1>0
<1> QED BY <1>0, <1>8, <1>9, <1>11, <1>13, <1>14, <1>15, <1>16, CopyFrameKeeps

\* Opening a file.
LEMMA OpenMirrored ==
  ASSUME Well, Mirroring, Basic', OpenFile("worker") PROVE Mirroring'
<1> DEFINE c == "worker"
           p == At(c)
           i == IF IsFile(Dest(c)[p]) THEN Dest(c)[p] ELSE Fresh
           rest == ToSet(Tail(todo[c]))
<1>0. /\ TypeOK /\ Basic /\ todo[c] # <<>> /\ file[c] = NoFile /\ c \in Copiers
      /\ fs' = [fs EXCEPT !["dst"][p] = i] /\ data' = [data EXCEPT ![i] = 0]
      /\ IsFile(fs["src"][p]) /\ fs["dst"][p] # Dir
      /\ file'[c].path = p /\ file'[c].from = fs["src"][p] /\ file'[c].read = FALSE /\ file'[c] # NoFile
      /\ Dest(c) = fs["dst"] /\ queue' = queue /\ missed' = missed
      /\ listed' = listed /\ CopierOnly /\ Head(todo[c]).do = "copy" /\ Head(todo[c]).path = p
      /\ Then(c, <<>>) /\ data \in [Inodes -> Contents]
  <2>1. c \in Copiers /\ From[c] = "src" /\ To[c] = "dst" /\ file \in [Copiers -> OpenFiles \cup {NoFile}]
    BY CopierNames DEF Well, Basic, TypeOK
  <2> DEFINE f == [path |-> p, from |-> Source(c)[p], to |-> i, buffer |-> 0, read |-> FALSE]
  <2>2. file' = [file EXCEPT ![c] = f] BY DEF OpenFile
  <2>3. file'[c] = f BY <2>1, <2>2
  <2>4. f # NoFile /\ f.path = p /\ f.from = Source(c)[p] /\ f.read = FALSE
    <3>1. DOMAIN f # {} BY DEF NoFile
    <3>2. DOMAIN NoFile = {} BY DEF NoFile
    <3> QED BY <3>1, <3>2
  <2> HIDE DEF f
  <2>5. file'[c].path = p /\ file'[c].from = fs["src"][p] /\ file'[c].read = FALSE /\ file'[c] # NoFile
    BY <2>1, <2>3, <2>4 DEF Source
  <2> QED BY <2>1, <2>5 DEF Well, Basic, TypeOK, OpenFile, Source, Dest, Doing, At
<1>1. p \in Paths /\ p \in Files BY <1>0, HeadTask DEF Basic, InodesApart
<1>2. i \in Inodes
  <2>1. CASE IsFile(fs["dst"][p]) BY <1>0, <2>1 DEF IsFile
  <2>2. CASE ~IsFile(fs["dst"][p]) BY <1>0, <1>1, <2>2, FreshIsNew DEF Basic
  <2> QED BY <2>1, <2>2
<1> HIDE DEF p, i, rest
<1>3. /\ fs'["src"] = fs["src"] /\ fs'["dst"][p] = i /\ IsFile(i)
      /\ \A q \in Paths : q # p => fs'["dst"][q] = fs["dst"][q]
  <2>1. fs \in [Names -> Trees] /\ fs["dst"] \in [Paths -> Nodes] BY <1>0, TreesOf DEF Names
  <2> QED BY <1>0, <1>1, <1>2, <2>1 DEF Names, IsFile
<1>4. /\ \A q \in Paths : IsFile(fs["src"][q]) => data'[fs["src"][q]] = data[fs["src"][q]]
      /\ \A q \in Paths : q # p /\ IsFile(fs["dst"][q]) => data'[fs["dst"][q]] = data[fs["dst"][q]]
  <2>1. \A q \in Paths : fs["src"][q] # i /\ (q # p => fs["dst"][q] # i)
    BY <1>1, <1>3 DEF Basic, InodesApart
  <2> QED BY <1>0, <2>1 DEF IsFile
<1>5. CopyFrame /\ stage' = stage /\ watched' = watched /\ leftover' = leftover
  BY <1>0, <1>3 DEF CopyFrame, CopierOnly
<1>6. ToSet(todo[c]) = {Head(todo[c])} \cup rest /\ ToSet(todo'[c]) = rest
  <2>1. <<>> \in Seq(Tasks) /\ ToSet(<<>>) = {} BY DEF ToSet
  <2>2. ToSet(todo'[c]) = ToSet(<<>>) \cup rest /\ ToSet(todo[c]) = {Head(todo[c])} \cup rest
    BY <1>0, <2>1, TaskReplaced DEF rest
  <2> QED BY <2>1, <2>2
<1>7. \A t \in ToSet(todo'[c]) : Known(t.path)'
  BY <1>0, <1>5, <1>6 DEF Mirroring, KnownInv, Known
<1>8. \A q \in Paths : fs'["dst"][q] # Absent => fs["dst"][q] # Absent \/ Known(q)
  <2>1. Known(p) BY <1>0, <1>6 DEF Mirroring, KnownInv
  <2> QED BY <1>3, <2>1
<1>9. ASSUME NEW q \in Paths, fs["src"][q] # Absent, IsPrefix(p, q) PROVE q = p
  BY <1>0, <1>1, <1>9, PresentAbove, NodeKinds DEF Names
<1>10. \A q \in Paths : fs["src"][q] = Dir /\ (\E t \in ToSet(todo[c]) : IsPrefix(t.path, q)) =>
            q \in listed' \cup missed' \/ \E t \in ToSet(todo'[c]) : IsPrefix(t.path, q)
  BY <1>0, <1>6, <1>9, NodeKinds
<1>11. \A q \in Paths : (Deleted(q)' <=> Deleted(q)) /\ (Announced(q)' <=> Announced(q))
  BY <1>0 DEF Deleted, Deletes, Announced, Announces
<1>12. MakeInv'
  <2>1. \A t \in rest : t.path \in Paths BY <1>0, <1>6, Kinds
  <2> QED BY <1>0, <1>3, <1>6, <1>11, <2>1 DEF Mirroring, MakeInv
<1>13. KindInv'
  <2> SUFFICES ASSUME NEW q \in Paths, fs'["dst"][q] # Absent, View("src", q).kind' # View("dst", q).kind'
               PROVE  q \in missed' \cup leftover' \/ Deleted(q)'
    BY DEF KindInv
  <2>1. q # p
    <3>1. fs'["dst"][p] # Absent /\ fs'["dst"][p] # Dir /\ fs'["src"][p] # Absent /\ fs'["src"][p] # Dir
      BY <1>0, <1>3, NodeKinds
    <3> QED BY <3>1 DEF View
  <2>2. fs["dst"][q] # Absent /\ View("src", q).kind # View("dst", q).kind BY <1>3, <2>1 DEF View
  <2> QED BY <1>0, <1>5, <1>11, <2>2 DEF Mirroring, KindInv
<1>14. CopiedInv'
  <2> SUFFICES ASSUME NEW q \in Paths, Behind(q)' PROVE q \in missed' \/ ToMirror(q)' \/ Copying(q)'
    BY DEF CopiedInv
  <2>1. CASE q = p BY <1>0, <1>3, <2>1 DEF Copying
  <2>2. CASE q # p
    <3>1. Behind(q) /\ fs["src"][q] # Absent BY <1>0, <1>3, <1>4, <2>2 DEF Behind
    <3>2. q \in missed \/ ToMirror(q) BY <1>0, <3>1 DEF Mirroring, CopiedInv, Copying
    <3>3. ~Covers(Head(todo[c]), q) BY <1>0, <1>9, <2>2, <3>1 DEF Covers
    <3>4. ToMirror(q) => ToMirror(q)' BY <1>6, <1>11, <3>3 DEF ToMirror
    <3> QED BY <1>0, <3>2, <3>4
  <2> QED BY <2>1, <2>2
<1> QED BY <1>0, <1>5, <1>7, <1>8, <1>10, <1>12, <1>13, <1>14, CopyFrameKeeps

\* What the worker read is what the file it opened holds.
LEMMA ReadMirrored ==
  ASSUME Well, Mirroring, ReadFile("worker") PROVE Mirroring'
<1> DEFINE c == "worker"
           f == file[c]
<1>0. /\ fs' = fs /\ data' = data /\ todo' = todo /\ queue' = queue /\ missed' = missed /\ listed' = listed
      /\ CopierOnly /\ f # NoFile /\ f \in OpenFiles /\ c \in Copiers
      /\ file' = [file EXCEPT ![c].read = TRUE, ![c].buffer = data[f.from]]
      /\ file \in [Copiers -> OpenFiles \cup {NoFile}]
  BY CopierNames DEF Well, Basic, TypeOK, ReadFile, SameWorker, trees
<1>1. /\ file'[c].path = f.path /\ file'[c].from = f.from /\ file'[c].buffer = data[f.from]
      /\ file'[c] # NoFile
  <2>1. file'[c] = [f EXCEPT !.read = TRUE, !.buffer = data[f.from]] BY <1>0
  <2>2. DOMAIN file'[c] # {} BY <1>0, <2>1 DEF OpenFiles
  <2>3. DOMAIN NoFile = {} BY DEF NoFile
  <2>4. file'[c] # NoFile BY <2>2, <2>3
  <2> HIDE DEF f
  <2>5. file'[c].path = f.path /\ file'[c].from = f.from /\ file'[c].buffer = data[f.from]
    BY <1>0, <2>1 DEF OpenFiles
  <2> QED BY <2>4, <2>5
<1>2. CopyFrame /\ stage' = stage /\ watched' = watched /\ leftover' = leftover
  BY <1>0 DEF CopyFrame, CopierOnly
<1>3. \A t \in ToSet(todo'[c]) : Known(t.path)' BY <1>0, <1>2 DEF Mirroring, KnownInv, Known
<1>4. MakeInv' BY <1>0 DEF Mirroring, MakeInv, Deleted, Deletes
<1>5. KindInv' BY <1>0, <1>2 DEF Mirroring, KindInv, View, Deleted, Deletes
<1>6. CopiedInv'
  <2> SUFFICES ASSUME NEW q \in Paths, Behind(q)' PROVE q \in missed' \/ ToMirror(q)' \/ Copying(q)'
    BY DEF CopiedInv
  <2>1. Behind(q) BY <1>0, <1>1 DEF Behind
  <2>2. q \in missed \/ ToMirror(q) \/ Copying(q) BY <2>1 DEF Mirroring, CopiedInv
  <2>3. Copying(q) => Copying(q)' BY <1>0, <1>1 DEF Copying
  <2>4. ToMirror(q) => ToMirror(q)' BY <1>0 DEF ToMirror, Announced, Announces
  <2> QED BY <1>0, <2>2, <2>3, <2>4
<1> QED BY <1>0, <1>2, <1>3, <1>4, <1>5, <1>6, CopyFrameKeeps

\* Writing it.
LEMMA WriteMirrored ==
  ASSUME Well, Mirroring, WriteFile("worker") PROVE Mirroring'
<1> DEFINE c == "worker"
           f == file[c]
<1>0. /\ fs' = fs /\ todo' = todo /\ queue' = queue /\ missed' = missed /\ listed' = listed
      /\ CopierOnly /\ f # NoFile /\ f \in OpenFiles /\ c \in Copiers /\ file'[c] = NoFile /\ f.read
      /\ data' = IF f.buffer = 0 THEN data ELSE [data EXCEPT ![f.to] = f.buffer]
      /\ fs["dst"][f.path] = f.to /\ data[f.to] = 0 /\ data \in [Inodes -> Contents]
      /\ InodesApart
  <2>1. c \in Copiers /\ To[c] = "dst" /\ file \in [Copiers -> OpenFiles \cup {NoFile}] BY CopierNames DEF Well, Basic, TypeOK
  <2> QED BY <2>1 DEF Well, Basic, TypeOK, OpenInv, WriteFile
<1>1. f.path \in Paths /\ f.to \in Inodes /\ f.from \in Inodes BY <1>0 DEF OpenFiles
<1>2. data'[f.to] = f.buffer /\ \A i \in Inodes : i # f.to => data'[i] = data[i] BY <1>0, <1>1
<1> HIDE DEF f
<1>3. CopyFrame /\ stage' = stage /\ watched' = watched /\ leftover' = leftover
  BY <1>0 DEF CopyFrame, CopierOnly
<1>4. \A t \in ToSet(todo'[c]) : Known(t.path)' BY <1>0, <1>3 DEF Mirroring, KnownInv, Known
<1>5. MakeInv' BY <1>0 DEF Mirroring, MakeInv, Deleted, Deletes
<1>6. KindInv' BY <1>0, <1>3 DEF Mirroring, KindInv, View, Deleted, Deletes
<1>7. /\ \A q \in Paths : IsFile(fs["src"][q]) => data'[fs["src"][q]] = data[fs["src"][q]]
      /\ \A q \in Paths : q # f.path /\ IsFile(fs["dst"][q]) => data'[fs["dst"][q]] = data[fs["dst"][q]]
  <2>1. \A q \in Paths : fs["src"][q] # f.to /\ (q # f.path => fs["dst"][q] # f.to)
    BY <1>0, <1>1 DEF InodesApart, IsFile
  <2> QED BY <1>2, <2>1 DEF IsFile
<1>8. CopiedInv'
  <2> SUFFICES ASSUME NEW q \in Paths, Behind(q)' PROVE q \in missed' \/ ToMirror(q)' \/ Copying(q)'
    BY DEF CopiedInv
  <2>1. Behind(q) BY <1>0, <1>7 DEF Behind, f
  <2>2. q \in missed \/ ToMirror(q) \/ Copying(q) BY <2>1 DEF Mirroring, CopiedInv
  <2>3. ~Copying(q)
    <3> SUFFICES ASSUME Copying(q) PROVE FALSE OBVIOUS
    <3>1. f.path = q /\ f.from = fs["src"][q] /\ f.buffer = data[f.from] BY <1>0 DEF Copying, f
    <3>2. IsFile(fs["src"][q]) /\ data'[fs["src"][q]] = f.buffer BY <1>1, <1>7, <3>1 DEF IsFile
    <3>3. fs["dst"][q] = f.to /\ data'[fs["dst"][q]] = f.buffer BY <1>0, <1>2, <3>1
    <3>4. fs["dst"][q] # Absent BY <1>1, <3>3, Numbers
    <3> QED BY <1>0, <3>2, <3>3, <3>4 DEF Behind
  <2>4. ToMirror(q) => ToMirror(q)' BY <1>0 DEF ToMirror, Announced, Announces
  <2> QED BY <1>0, <2>2, <2>3, <2>4
<1> QED BY <1>0, <1>3, <1>4, <1>5, <1>6, <1>8, CopyFrameKeeps

\* All of its copying.
LEMMA WorkerCopiesMirror ==
  ASSUME Well, MirrorInv, Basic', stage # "dead", Copy("worker") PROVE MirrorInv'
<1> DEFINE c == "worker"
<1> SUFFICES ASSUME Alive' PROVE Mirroring' BY DEF MirrorInv
<1>0. c \in Copiers /\ From[c] = "src" /\ To[c] = "dst" BY CopierNames
<1>1. queue' = queue /\ stage' # "dead"
  BY <1>0 DEF Alive, Copy, EntryGone, EnterDirectory, MakeDirectory, MakeFails, ListDirectory, ListFails, SkipFile,
              OpenFile, OpenFails, ReadFile, WriteFile, Fails, SameWorker
<1>2. Mirroring BY <1>1 DEF MirrorInv, Alive
<1>3. CASE EntryGone(c) \/ MakeFails(c) \/ ListFails(c) \/ OpenFails(c)
  <2>1. Fails(c) /\ file[c] = NoFile /\ todo[c] # <<>>
    BY <1>3 DEF EntryGone, MakeFails, ListFails, OpenFails, Doing
  <2> QED BY <1>1, <1>2, <2>1, FailsMirrored
<1>4. CASE SkipFile(c) BY <1>4 DEF SkipFile, Unchanged
<1>5. CASE EnterDirectory(c) BY <1>2, <1>5, EnterMirrored
<1>6. CASE MakeDirectory(c) BY <1>2, <1>6, MakeMirrored
<1>7. CASE ListDirectory(c) BY <1>2, <1>7, ListMirrored
<1>8. CASE OpenFile(c) BY <1>2, <1>8, OpenMirrored
<1>9. CASE ReadFile(c) BY <1>2, <1>9, ReadMirrored
<1>10. CASE WriteFile(c) BY <1>2, <1>10, WriteMirrored
<1> QED BY <1>3, <1>4, <1>5, <1>6, <1>7, <1>8, <1>9, <1>10 DEF Copy

-----------------------------------------------------------------------------
\* Starting to watch, and watching.
LEMMA WatchesMirrored ==
  ASSUME Well, Mirroring, StartLoop \/ WatchDirectory PROVE Mirroring'
<1>0. /\ TypeOK /\ Basic /\ StageInv /\ "src" \in Names /\ toWatch \in Seq(Paths) /\ fs["src"] \in Trees
  BY TreesOf DEF Well, Basic, TypeOK, Names
<1>1. /\ fs' = fs /\ data' = data /\ file' = file /\ todo' = todo /\ listed' = listed /\ queue' = queue
      /\ missed' = missed /\ leftover' = leftover /\ stage' = "loop"
  BY DEF StartLoop, WatchDirectory, WorkerOnly
<1>2. watched \subseteq watched' BY DEF StartLoop, WatchDirectory
<1>3. KnownInv' BY <1>1, <1>2 DEF Mirroring, KnownInv, Known
<1>4. OrderInv' BY <1>1 DEF Mirroring, OrderInv, Announces, Deletes
<1>5. ListInv' BY <1>1 DEF Mirroring, ListInv, ToBeListed, Announced, Announces
<1>6. MakeInv' BY <1>1 DEF Mirroring, MakeInv, Deleted, Deletes
<1>7. KindInv' BY <1>1 DEF Mirroring, KindInv, View, Deleted, Deletes
<1>8. CopiedInv' BY <1>1 DEF Mirroring, CopiedInv, Behind, ToMirror, Copying, Announced, Announces
<1>9. CASE StartLoop
  <2>1. toWatch' = <<Root>> /\ watched' = {} BY <1>0, <1>9 DEF StartLoop, StageInv
  <2>2. ToSet(toWatch') = {Root} BY <2>1 DEF ToSet
  <2>3. WatchedInv' BY <2>1, <2>2 DEF WatchedInv
  <2>4. WatchInv' BY <2>2, RootPrefix DEF WatchInv, ToBeWatched
  <2> QED BY <1>3, <1>4, <1>5, <1>6, <1>7, <1>8, <2>3, <2>4 DEF Mirroring
<1>10. CASE WatchDirectory
  <2> DEFINE p == Head(toWatch)
             subdirs == {q \in Children(fs["src"], p) : fs["src"][q] = Dir}
             first == IF fs["src"][p] = Dir THEN SetToSeq(subdirs) ELSE <<>>
             rest == ToSet(Tail(toWatch))
  <2>1. /\ toWatch # <<>> /\ stage = "loop" /\ toWatch' = first \o Tail(toWatch)
        /\ watched' = IF fs["src"][p] = Absent THEN watched ELSE watched \cup {p}
    BY <1>10 DEF WatchDirectory
  <2>2. p \in Paths /\ Tail(toWatch) \in Seq(Paths) /\ ToSet(toWatch) = {p} \cup rest
    BY <1>0, <2>1, HeadTailProperties, Elements
  <2>3. IsFiniteSet(subdirs) /\ subdirs \subseteq Paths
    <3>1. subdirs \in SUBSET Paths BY DEF Children
    <3> QED BY <3>1, Numbers, FS_Subset
  <2>4. \A q \in Paths : q \in subdirs <=> q # Root /\ Parent(q) = p /\ fs["src"][q] = Dir
    BY NodeKinds DEF Children
  <2> HIDE DEF subdirs
  <2>5. /\ SetToSeq(subdirs) \in Seq(subdirs) /\ SetToSeq(subdirs) \in Seq(Paths)
        /\ ToSet(SetToSeq(subdirs)) = subdirs
    <3>1. /\ SetToSeq(subdirs) \in Seq(subdirs)
          /\ \A x \in subdirs : \E i \in DOMAIN SetToSeq(subdirs) : SetToSeq(subdirs)[i] = x
      BY <2>3, SetToSeqType
    <3>2. ToSet(SetToSeq(subdirs)) \subseteq subdirs BY <3>1, Elements
    <3>3. subdirs \subseteq ToSet(SetToSeq(subdirs)) BY <3>1 DEF ToSet
    <3>4. SetToSeq(subdirs) \in Seq(Paths) BY <2>3, <3>1, SeqMonotonic
    <3> QED BY <3>1, <3>2, <3>3, <3>4
  <2>6. first \in Seq(Paths) /\ ToSet(first) = IF fs["src"][p] = Dir THEN subdirs ELSE {}
    <3>1. <<>> \in Seq(Paths) /\ ToSet(<<>>) = {} BY DEF ToSet
    <3> QED BY <2>5, <3>1
  <2> DEFINE t == Tail(toWatch)
  <2>6a. t \in Seq(Paths) /\ toWatch' = first \o t /\ rest = ToSet(t) BY <2>1, <2>2
  <2> HIDE DEF first, t, rest
  <2>7. ToSet(toWatch') = ToSet(first) \cup rest BY <2>6, <2>6a, Elements
  <2> HIDE DEF p
  <2>8. WatchedInv'
    <3>1. ASSUME NEW r \in watched' PROVE fs["src"][r] # Absent /\ \A q \in Paths : IsPrefix(q, r) => q \in watched'
      <4>1. CASE r \in watched BY <1>2, <4>1 DEF Mirroring, WatchedInv
      <4>2. CASE r \notin watched
        <5>1. r = p /\ fs["src"][p] # Absent /\ p \in watched' BY <2>1, <3>1, <4>2
        <5>2. CASE p = Root
          <6>1. \A q \in Paths : IsPrefix(q, p) => q = p BY <2>2, <5>2, RootPrefix, PrefixOrder
          <6> QED BY <5>1, <6>1
        <5>3. CASE p # Root
          <6>1. Parent(p) \in watched BY <2>2, <5>3 DEF Mirroring, WatchedInv
          <6>2. \A q \in Paths : IsPrefix(q, Parent(p)) => q \in watched BY <6>1 DEF Mirroring, WatchedInv
          <6>3. \A q \in Paths : IsPrefix(q, p) => q = p \/ IsPrefix(q, Parent(p)) BY <2>2, <5>3, AtOrAbove
          <6> QED BY <1>2, <5>1, <6>2, <6>3
        <5> QED BY <5>2, <5>3
      <4> QED BY <4>1, <4>2
    <3>2. ASSUME NEW r \in ToSet(toWatch') PROVE r = Root \/ Parent(r) \in watched'
      <4>1. CASE r \in rest BY <1>2, <2>2, <4>1 DEF Mirroring, WatchedInv
      <4>2. CASE r \in ToSet(first)
        <5>1. fs["src"][p] = Dir /\ r \in subdirs BY <2>6, <4>2
        <5>2. p \in watched' BY <2>1, <5>1, NodeKinds
        <5> QED BY <2>3, <2>4, <5>1, <5>2
      <4> QED BY <2>7, <4>1, <4>2
    <3> QED BY <1>1, <3>1, <3>2 DEF WatchedInv
  <2>9. WatchInv'
    <3> SUFFICES ASSUME NEW q \in Paths, fs["src"][q] = Dir PROVE q \in watched' \/ ToBeWatched(q)'
      BY <1>1 DEF WatchInv
    <3>1. q \in watched \/ ToBeWatched(q) BY <2>1 DEF Mirroring, WatchInv
    <3>2. CASE \E e \in ToSet(queue) : Announces(e, q) /\ e.isdir BY <1>1, <3>2 DEF ToBeWatched, Announces
    <3>3. CASE \E r \in rest : IsPrefix(r, q) BY <2>7, <3>3 DEF ToBeWatched
    <3>4. CASE IsPrefix(p, q) /\ q = p BY <2>1, <3>4, NodeKinds
    <3>5. CASE IsPrefix(p, q) /\ q # p
      <4>1. fs["src"][p] = Dir BY <1>0, <2>2, <3>5, PresentAbove, NodeKinds
      <4>2. PICK r \in Paths \ {Root} : Parent(r) = p /\ IsPrefix(r, q)
        BY <2>2, <3>5, ChildOnTheWay DEF IsStrictPrefix
      <4>3. fs["src"][r] = Dir BY <1>0, <4>2, PresentAbove, NodeKinds
      <4>4. r \in ToSet(toWatch') BY <2>4, <2>6, <2>7, <4>1, <4>2, <4>3
      <4> QED BY <4>2, <4>4 DEF ToBeWatched
    <3> QED BY <1>2, <2>2, <3>1, <3>2, <3>3, <3>4, <3>5 DEF ToBeWatched
  <2> QED BY <1>3, <1>4, <1>5, <1>6, <1>7, <1>8, <2>8, <2>9 DEF Mirroring
<1> QED BY <1>9, <1>10

\* What is left of the queue without its head.
LEMMA TailMeans ==
  ASSUME TypeOK, OrderInv, queue # <<>>, queue' = Tail(queue), fs'["src"] = fs["src"]
  PROVE  /\ Head(queue) \in ToSet(queue) /\ ToSet(queue) = {Head(queue)} \cup ToSet(queue')
         /\ OrderInv'
         /\ \A p \in Paths : Deletes(Head(queue), p) /\ fs["src"][p] # Absent => Announced(p)'
         /\ \A p \in Paths :
              Head(queue).kind = "changed" /\ Head(queue).isdir /\ Head(queue).path = p /\ fs["src"][p] # Dir =>
                Deleted(p)'
<1>1. /\ queue \in Seq(Events) /\ Tail(queue) \in Seq(Events) /\ Head(queue) = queue[1] /\ Len(queue) \in Nat
      /\ Len(queue) >= 1 /\ Len(Tail(queue)) = Len(queue) - 1
      /\ \A i \in 1 .. Len(queue) - 1 : Tail(queue)[i] = queue[i + 1]
      /\ Head(queue).path \in Paths
  BY HeadEvent
<1>2. DOMAIN queue = 1 .. Len(queue) /\ DOMAIN queue' = 1 .. Len(queue) - 1
  BY <1>1, LenProperties
<1>3. \A i \in DOMAIN queue' : i \in Nat /\ i + 1 \in DOMAIN queue /\ queue'[i] = queue[i + 1] BY <1>1, <1>2
<1>4. \A j \in DOMAIN queue : j > 1 => j - 1 \in DOMAIN queue' /\ queue'[j - 1] = queue[j] BY <1>1, <1>2
<1>5. \A i \in DOMAIN queue : i \in Nat BY <1>2
<1>6. OrderInv'
  <2>1. ASSUME NEW i \in DOMAIN queue', NEW p \in Paths, Deletes(queue'[i], p), fs["src"][p] # Absent
        PROVE  \E j \in DOMAIN queue' : i < j /\ Announces(queue'[j], p)
    <3>1. i + 1 \in DOMAIN queue /\ Deletes(queue[i + 1], p) /\ i \in Nat BY <1>3, <2>1
    <3>2. PICK j \in DOMAIN queue : i + 1 < j /\ Announces(queue[j], p) BY <2>1, <3>1 DEF OrderInv
    <3>3. j \in Nat /\ j > 1 /\ i < j - 1 BY <1>5, <3>1, <3>2
    <3> QED BY <1>4, <3>2, <3>3
  <2>2. ASSUME NEW i \in DOMAIN queue', NEW p \in Paths,
               queue'[i].kind = "changed", queue'[i].isdir, queue'[i].path = p, fs["src"][p] # Dir
        PROVE  \E j \in DOMAIN queue' : i < j /\ Deletes(queue'[j], p)
    <3>1. i + 1 \in DOMAIN queue /\ queue'[i] = queue[i + 1] /\ i \in Nat BY <1>3
    <3>2. PICK j \in DOMAIN queue : i + 1 < j /\ Deletes(queue[j], p) BY <2>2, <3>1 DEF OrderInv
    <3>3. j \in Nat /\ j > 1 /\ i < j - 1 BY <1>5, <3>1, <3>2
    <3> QED BY <1>4, <3>2, <3>3
  <2> QED BY <2>1, <2>2 DEF OrderInv, Deletes, Announces
<1>7. 1 \in DOMAIN queue /\ \A x : x \in ToSet(queue') <=> \E i \in DOMAIN queue' : queue'[i] = x
  BY <1>1, <1>2 DEF ToSet
<1>8. ASSUME NEW p \in Paths, Deletes(Head(queue), p), fs["src"][p] # Absent PROVE Announced(p)'
  <2>1. PICK j \in DOMAIN queue : 1 < j /\ Announces(queue[j], p) BY <1>1, <1>7, <1>8 DEF OrderInv
  <2>2. queue[j] \in ToSet(queue') BY <1>4, <1>5, <1>7, <2>1
  <2> QED BY <2>1, <2>2 DEF Announced, Announces
<1>9. ASSUME NEW p \in Paths, Head(queue).kind = "changed", Head(queue).isdir, Head(queue).path = p,
             fs["src"][p] # Dir
      PROVE  Deleted(p)'
  <2>1. PICK j \in DOMAIN queue : 1 < j /\ Deletes(queue[j], p) BY <1>1, <1>7, <1>9 DEF OrderInv
  <2>2. queue[j] \in ToSet(queue') BY <1>4, <1>5, <1>7, <2>1
  <2> QED BY <2>1, <2>2 DEF Deleted, Deletes
<1>10. ToSet(queue) = {Head(queue)} \cup ToSet(queue') BY <1>1, Elements
<1> QED BY <1>6, <1>8, <1>9, <1>10

-----------------------------------------------------------------------------
\* What a handled event leaves alone.
LEMMA HandleFrame ==
  ASSUME Well, Mirroring, HandleDelete \/ HandleChange
  PROVE  /\ TypeOK /\ Basic /\ stage = "loop" /\ stage' = "loop" /\ queue # <<>> /\ queue' = Tail(queue)
         /\ ToSet(todo["worker"]) = {} /\ file["worker"] = NoFile /\ ToSet(toWatch) = {}
         /\ data' = data /\ file' = file /\ leftover' = leftover
         /\ watched' = watched /\ listed' = listed /\ missed' = missed
         /\ Head(queue) \in ToSet(queue) /\ ToSet(queue) = {Head(queue)} \cup ToSet(queue')
         /\ Head(queue).path \in Paths /\ Head(queue).isdir \in BOOLEAN
         /\ fs \in [Names -> Trees] /\ fs["dst"] \in Trees /\ fs["src"] \in Trees
         /\ fs'["src"] = fs["src"] => OrderInv'
         /\ \A p \in Paths : Announced(p)' <=> \E e \in ToSet(queue') : Announces(e, p)
         /\ \A p \in Paths : Deleted(p)' <=> \E e \in ToSet(queue') : Deletes(e, p)
<1>1. /\ TypeOK /\ Basic /\ stage = "loop" /\ stage' = "loop" /\ queue # <<>> /\ queue' = Tail(queue)
      /\ todo["worker"] = <<>> /\ file["worker"] = NoFile /\ toWatch = <<>>
      /\ data' = data /\ file' = file /\ leftover' = leftover
      /\ watched' = watched /\ listed' = listed /\ missed' = missed /\ OrderInv /\ queue \in Seq(Events)
  BY DEF Well, Basic, TypeOK, HandleDelete, HandleChange, Handling, Waiting, Idle, WorkerOnly, Mirroring
<1>2. ToSet(todo["worker"]) = {} /\ ToSet(toWatch) = {} BY <1>1 DEF ToSet
<1>3. /\ Head(queue) \in ToSet(queue) /\ ToSet(queue) = {Head(queue)} \cup ToSet(queue')
  BY <1>1, Elements
<1>4. fs'["src"] = fs["src"] => OrderInv' BY <1>1, TailMeans
<1>5. Head(queue).path \in Paths /\ Head(queue).isdir \in BOOLEAN BY <1>1, HeadEvent
<1>6. fs \in [Names -> Trees] /\ fs["dst"] \in Trees /\ fs["src"] \in Trees BY <1>1, TreesOf DEF Names
<1>7. /\ \A p \in Paths : Announced(p)' <=> \E e \in ToSet(queue') : Announces(e, p)
      /\ \A p \in Paths : Deleted(p)' <=> \E e \in ToSet(queue') : Deletes(e, p)
  BY DEF Announced, Deleted, Announces, Deletes
<1> QED BY <1>1, <1>2, <1>3, <1>4, <1>5, <1>6, <1>7

\* A removal is handled: what has come back since is announced later.
LEMMA DeleteMirrored ==
  ASSUME Well, Mirroring, HandleDelete PROVE Mirroring'
<1> DEFINE e == Head(queue)
           d == e.path
<1>0. /\ TypeOK /\ Basic /\ stage = "loop" /\ stage' = "loop" /\ queue # <<>> /\ queue' = Tail(queue)
      /\ ToSet(todo["worker"]) = {} /\ file["worker"] = NoFile /\ ToSet(toWatch) = {}
      /\ data' = data /\ file' = file /\ leftover' = leftover
      /\ watched' = watched /\ listed' = listed /\ missed' = missed
      /\ ToSet(queue) = {e} \cup ToSet(queue') /\ d \in Paths
      /\ fs \in [Names -> Trees] /\ fs["dst"] \in Trees
      /\ fs'["src"] = fs["src"] => OrderInv'
      /\ \A p \in Paths : Announced(p)' <=> \E x \in ToSet(queue') : Announces(x, p)
      /\ \A p \in Paths : Deleted(p)' <=> \E x \in ToSet(queue') : Deletes(x, p)
  BY HandleFrame
<1>1. /\ e.kind = "deleted" /\ todo' = todo /\ toWatch' = toWatch
      /\ fs' = [fs EXCEPT !["dst"] = RemovePathRecursive(fs["dst"], d)]
  BY DEF HandleDelete, Handling
<1>2. \A p \in Paths : Deletes(e, p) <=> p \in Below(d) BY <1>1 DEF Deletes, Below
<1>3. \A p \in Paths : Deletes(e, p) /\ fs["src"][p] # Absent => Announced(p)'
  <2>1. fs'["src"] = fs["src"] BY <1>0, <1>1 DEF Names
  <2> QED BY <1>0, <2>1, TailMeans DEF Mirroring
<1> HIDE DEF e
<1> HIDE DEF d
<1>4. /\ fs'["src"] = fs["src"]
      /\ \A q \in Paths : q \in Below(d) => fs'["dst"][q] = Absent
      /\ \A q \in Paths : q \notin Below(d) => fs'["dst"][q] = fs["dst"][q]
  <2>1. fs'["src"] = fs["src"] /\ fs'["dst"] = RemovePathRecursive(fs["dst"], d) BY <1>0, <1>1 DEF Names
  <2> QED BY <2>1 DEF RemovePathRecursive
<1>5. \A q \in Paths : Announced(q) => Announced(q)' BY <1>0, <1>1 DEF Announced, Announces
<1>6. \A q \in Paths : Deleted(q) /\ q \notin Below(d) => Deleted(q)' BY <1>0, <1>2 DEF Deleted
<1>7. WatchedInv' BY <1>0, <1>1, <1>4 DEF Mirroring, WatchedInv
<1>8. KnownInv'
  <2>1. \A x \in ToSet(queue') : Parent(x.path) \in watched' /\ fs'["src"][Parent(x.path)] = Dir
    BY <1>0, <1>4 DEF Mirroring, KnownInv
  <2>2. \A q \in Paths : fs'["dst"][q] # Absent => q \in leftover' \/ Known(q)'
    BY <1>0, <1>4 DEF Mirroring, KnownInv, Known
  <2> QED BY <1>0, <1>1, <2>1, <2>2 DEF KnownInv
<1>9. WatchInv'
  <2> SUFFICES ASSUME NEW q \in Paths, fs["src"][q] = Dir PROVE q \in watched' \/ ToBeWatched(q)'
    BY <1>4 DEF WatchInv
  <2>1. q \in watched \/ \E x \in ToSet(queue) : Announces(x, q) /\ x.isdir
    BY <1>0 DEF Mirroring, WatchInv, ToBeWatched
  <2>2. ~Announces(e, q) BY <1>1 DEF Announces
  <2> QED BY <1>0, <2>1, <2>2 DEF ToBeWatched, Announces
<1>10. ListInv' BY <1>0, <1>1, <1>4, <1>5 DEF Mirroring, ListInv, ToBeListed
<1>11. MakeInv' BY <1>0, <1>1 DEF MakeInv
<1>12. KindInv'
  <2> SUFFICES ASSUME NEW q \in Paths, fs'["dst"][q] # Absent, View("src", q).kind' # View("dst", q).kind'
               PROVE  q \in missed' \cup leftover' \/ Deleted(q)'
    BY DEF KindInv
  <2>1. q \notin Below(d) /\ fs'["dst"][q] = fs["dst"][q] BY <1>4
  <2>2. View("src", q).kind # View("dst", q).kind BY <1>4, <2>1 DEF View
  <2> QED BY <1>0, <1>6, <2>1, <2>2 DEF Mirroring, KindInv
<1>13. CopiedInv'
  <2> SUFFICES ASSUME NEW q \in Paths, Behind(q)' PROVE q \in missed' \/ ToMirror(q)' \/ Copying(q)'
    BY DEF CopiedInv
  <2>1. CASE q \in Below(d)
    <3>1. fs["src"][q] # Absent BY <1>4 DEF Behind
    <3> QED BY <1>2, <1>3, <2>1, <3>1 DEF ToMirror
  <2>2. CASE q \notin Below(d)
    <3>1. Behind(q) BY <1>0, <1>4, <2>2 DEF Behind
    <3>2. q \in missed \/ Announced(q) BY <1>0, <3>1 DEF Mirroring, CopiedInv, ToMirror, Copying
    <3> QED BY <1>0, <1>5, <3>2 DEF ToMirror
  <2> QED BY <2>1, <2>2
<1> QED BY <1>0, <1>4, <1>7, <1>8, <1>9, <1>10, <1>11, <1>12, <1>13 DEF Mirroring

\* A change is handled: the event becomes a call.
LEMMA ChangeMirrored ==
  ASSUME Well, Mirroring, HandleChange PROVE Mirroring'
<1>0. /\ TypeOK /\ Basic /\ stage = "loop" /\ stage' = "loop" /\ queue # <<>> /\ queue' = Tail(queue)
      /\ ToSet(todo["worker"]) = {} /\ file["worker"] = NoFile /\ ToSet(toWatch) = {}
      /\ data' = data /\ file' = file /\ leftover' = leftover
      /\ watched' = watched /\ listed' = listed /\ missed' = missed
      /\ Head(queue) \in ToSet(queue) /\ ToSet(queue) = {Head(queue)} \cup ToSet(queue')
      /\ Head(queue).path \in Paths /\ Head(queue).isdir \in BOOLEAN
      /\ fs \in [Names -> Trees] /\ fs["dst"] \in Trees /\ fs["src"] \in Trees
      /\ fs'["src"] = fs["src"] => OrderInv'
      /\ \A p \in Paths : Announced(p)' <=> \E x \in ToSet(queue') : Announces(x, p)
      /\ \A p \in Paths : Deleted(p)' <=> \E x \in ToSet(queue') : Deletes(x, p)
  BY HandleFrame
<1>1. PICK e, d, b :
        e = Head(queue) /\ d = Head(queue).path /\ b = Head(queue).isdir
  OBVIOUS
<1>2. d \in Paths /\ b \in BOOLEAN /\ e.path = d /\ e.isdir = b /\ e.kind = "changed" /\ e \in ToSet(queue)
  BY <1>0, <1>1 DEF HandleChange, Handling
<1>3. PICK new : new = Task(IF b THEN "make" ELSE "copy", d) OBVIOUS
<1>4. /\ todo' = [todo EXCEPT !["worker"] = <<new>>]
      /\ toWatch' = IF b THEN <<d>> ELSE <<>>
      /\ fs' = [fs EXCEPT !["dst"] = WithParents(fs["dst"], d)]
  BY <1>1, <1>3 DEF HandleChange
<1>5. new \in Tasks /\ new.path = d /\ new.do = IF b THEN "make" ELSE "copy"
  <2>1. (IF b THEN "make" ELSE "copy") \in {"copy", "make", "list"} BY <1>2
  <2> QED BY <1>2, <1>3, <2>1, TaskType
<1>6. ToSet(todo'["worker"]) = {new} /\ ToSet(toWatch') = IF b THEN {d} ELSE {}
  <2>1. todo'["worker"] = <<new>> BY <1>0, <1>4, CopierNames DEF TypeOK
  <2>2. ToSet(<<new>>) = {new} /\ ToSet(<<d>>) = {d} /\ ToSet(<<>>) = {} BY DEF ToSet
  <2> QED BY <1>4, <2>1, <2>2
<1>7. fs'["src"] = fs["src"] /\ fs'["dst"] = WithParents(fs["dst"], d) BY <1>0, <1>4 DEF Names
<1>8. b /\ fs["src"][d] # Dir => Deleted(d)'
  <2>1. \A p \in Paths :
          Head(queue).kind = "changed" /\ Head(queue).isdir /\ Head(queue).path = p /\ fs["src"][p] # Dir => Deleted(p)'
    BY <1>0, <1>7, TailMeans DEF Mirroring
  <2> QED BY <1>1, <1>2, <2>1
<1>9. /\ Parent(d) \in watched /\ fs["src"][Parent(d)] = Dir BY <1>2 DEF Mirroring, KnownInv
<1>10. Parent(d) \in Paths /\ d # Root /\ \A q \in Paths : IsPrefix(q, d) => q = d \/ IsPrefix(q, Parent(d))
  <2>1. d # Root BY <1>2 DEF Well, RootsInv
  <2> QED BY <1>2, <2>1, AtOrAbove
<1>11. ASSUME NEW q \in Paths, fs'["dst"][q] # fs["dst"][q]
       PROVE  fs'["dst"][q] = Dir /\ IsPrefix(q, Parent(d)) /\ q \in watched /\ fs["src"][q] = Dir
  <2>1. fs'["dst"][q] = Dir BY <1>2, <1>7, <1>11, Parents, <1>0
  <2>2. IsStrictPrefix(q, d) BY <1>7, <1>11 DEF WithParents
  <2>3. IsPrefix(q, Parent(d)) BY <1>10, <2>2 DEF IsStrictPrefix
  <2>4. q \in watched BY <1>9, <2>3 DEF Mirroring, WatchedInv
  <2>5. fs["src"][q] = Dir BY <1>0, <1>9, <1>10, <2>3, PresentAbove, NodeKinds DEF Names
  <2> QED BY <2>1, <2>3, <2>4, <2>5
<1>12. \A q \in Paths : Known(q) => Known(q)' BY <1>0 DEF Known
<1>13. ASSUME NEW q \in Paths, Deleted(q) PROVE Deleted(q)'
  <2>1. ~Deletes(e, q) BY <1>2 DEF Deletes
  <2> QED BY <1>0, <1>1, <1>13, <2>1 DEF Deleted
<1>14. ASSUME NEW q \in Paths, Announced(q) PROVE Announced(q)' \/ IsPrefix(d, q)
  <2>1. Announces(e, q) => IsPrefix(d, q) BY <1>2 DEF Announces
  <2> QED BY <1>0, <1>1, <1>14, <2>1 DEF Announced
<1>15. WatchedInv' BY <1>0, <1>2, <1>6, <1>7, <1>9 DEF Mirroring, WatchedInv
<1>16. KnownInv'
  <2>1. \A x \in ToSet(queue') : Parent(x.path) \in watched' /\ fs'["src"][Parent(x.path)] = Dir
    BY <1>0, <1>7 DEF Mirroring, KnownInv
  <2>2. \A t \in ToSet(todo'["worker"]) : Known(t.path)' BY <1>0, <1>5, <1>6, <1>9 DEF Known
  <2>3. ASSUME NEW q \in Paths, fs'["dst"][q] # Absent PROVE q \in leftover' \/ Known(q)'
    <3>1. CASE fs'["dst"][q] = fs["dst"][q] BY <1>0, <1>12, <2>3, <3>1 DEF Mirroring, KnownInv
    <3>2. CASE fs'["dst"][q] # fs["dst"][q] /\ q = Root BY <3>2 DEF Known
    <3>3. CASE fs'["dst"][q] # fs["dst"][q] /\ q # Root
      <4>1. q \in watched /\ Parent(q) \in Paths /\ IsPrefix(Parent(q), q) BY <1>11, <3>3, AtOrAbove
      <4>2. Parent(q) \in watched BY <4>1 DEF Mirroring, WatchedInv
      <4> QED BY <1>0, <4>2 DEF Known
    <3> QED BY <3>1, <3>2, <3>3
  <2> QED BY <2>1, <2>2, <2>3 DEF KnownInv
<1>17. WatchInv'
  <2> SUFFICES ASSUME NEW q \in Paths, fs["src"][q] = Dir PROVE q \in watched' \/ ToBeWatched(q)'
    BY <1>7 DEF WatchInv
  <2>1. q \in watched \/ \E x \in ToSet(queue) : Announces(x, q) /\ x.isdir
    BY <1>0 DEF Mirroring, WatchInv, ToBeWatched
  <2>2. Announces(e, q) /\ e.isdir => b /\ IsPrefix(d, q) BY <1>2 DEF Announces
  <2>3. CASE b /\ IsPrefix(d, q) BY <1>6, <2>3 DEF ToBeWatched
  <2>4. CASE \E x \in ToSet(queue') : Announces(x, q) /\ x.isdir BY <2>4 DEF ToBeWatched, Announces
  <2> QED BY <1>0, <1>1, <2>1, <2>2, <2>3, <2>4
<1>18. ListInv'
  <2> SUFFICES ASSUME NEW q \in Paths, fs["src"][q] = Dir PROVE q \in listed' \cup missed' \/ ToBeListed(q)'
    BY <1>7 DEF ListInv
  <2>1. q \in listed \cup missed \/ Announced(q) BY <1>0 DEF Mirroring, ListInv, ToBeListed
  <2>2. IsPrefix(d, q) => ToBeListed(q)' BY <1>5, <1>6 DEF ToBeListed
  <2> QED BY <1>0, <1>14, <2>1, <2>2 DEF ToBeListed
<1>19. MakeInv' BY <1>2, <1>5, <1>6, <1>7, <1>8 DEF MakeInv
<1>20. KindInv'
  <2> SUFFICES ASSUME NEW q \in Paths, fs'["dst"][q] # Absent, View("src", q).kind' # View("dst", q).kind'
               PROVE  q \in missed' \cup leftover' \/ Deleted(q)'
    BY DEF KindInv
  <2>1. fs'["dst"][q] = fs["dst"][q]
    <3> SUFFICES ASSUME fs'["dst"][q] # fs["dst"][q] PROVE FALSE OBVIOUS
    <3>1. fs'["dst"][q] = Dir /\ fs'["src"][q] = Dir BY <1>7, <1>11
    <3> QED BY <3>1 DEF View
  <2>2. View("src", q).kind # View("dst", q).kind BY <1>7, <2>1 DEF View
  <2> QED BY <1>0, <1>13, <2>1, <2>2 DEF Mirroring, KindInv
<1>21. CopiedInv'
  <2> SUFFICES ASSUME NEW q \in Paths, Behind(q)' PROVE q \in missed' \/ ToMirror(q)' \/ Copying(q)'
    BY DEF CopiedInv
  <2>1. fs'["dst"][q] = fs["dst"][q]
    <3> SUFFICES ASSUME fs'["dst"][q] # fs["dst"][q] PROVE FALSE OBVIOUS
    <3>1. fs'["dst"][q] = Dir BY <1>11
    <3> QED BY <3>1, Numbers DEF Behind, IsFile
  <2>2. Behind(q) BY <1>0, <1>7, <2>1 DEF Behind
  <2>3. q \in missed \/ Announced(q) BY <1>0, <2>2 DEF Mirroring, CopiedInv, ToMirror, Copying
  <2>4. IsPrefix(d, q) => ToMirror(q)' BY <1>5, <1>6 DEF ToMirror, Covers
  <2> QED BY <1>0, <1>14, <2>3, <2>4 DEF ToMirror
<1> QED BY <1>0, <1>7, <1>15, <1>16, <1>17, <1>18, <1>19, <1>20, <1>21 DEF Mirroring

\* Every step of the worker.
LEMMA WorkerKeeps ==
  ASSUME Well, MirrorInv, Basic', Worker PROVE Well' /\ MirrorInv'
<1>1. CASE stage # "dead" /\ Copy("worker") BY <1>1, WorkerCopiesWell, WorkerCopiesMirror
<1>2. CASE HandleSelf
  <2>1. ~Alive' BY <1>2 DEF HandleSelf, Alive
  <2> QED BY <1>2, <2>1, WorkerLoopsWell DEF MirrorInv
<1>3. CASE StartLoop \/ WatchDirectory
  <2>1. Alive' => Alive BY <1>3 DEF StartLoop, WatchDirectory, Alive
  <2> QED BY <1>3, <2>1, WorkerLoopsWell, WatchesMirrored DEF MirrorInv
<1>4. CASE HandleDelete \/ HandleChange
  <2>1. /\ stage = "loop" /\ queue # <<>> /\ queue \in Seq(Events) /\ queue' = Tail(queue)
        /\ Head(queue).kind # "self"
    BY <1>4 DEF HandleDelete, HandleChange, Handling, Waiting, Well, Basic, TypeOK
  <2>2. ToSet(queue) = {Head(queue)} \cup ToSet(queue') BY <2>1, Elements
  <2>3. Alive' => Alive BY <2>1, <2>2 DEF Alive
  <2> QED BY <1>4, <2>3, WorkerLoopsWell, DeleteMirrored, ChangeMirrored DEF MirrorInv
<1> QED BY <1>1, <1>2, <1>3, <1>4 DEF Worker

\* A worker that begins: everything is still to be copied, what the target holds is left over.
Beginning ==
  /\ fs["src"][Root] = Dir /\ ToSet(todo["worker"]) = {Task("make", Root)} /\ file["worker"] = NoFile
  /\ stage = "sync" /\ ToSet(toWatch) = {} /\ watched = {} /\ queue = <<>>
  /\ \A p \in Paths : fs["dst"][p] # Absent => p \in leftover \/ (p = Root /\ fs["dst"][p] = Dir)
LEMMA BeginningMirrors ==
  ASSUME Beginning PROVE Mirroring
<1>0. Task("make", Root).do = "make" /\ Task("make", Root).path = Root /\ Root \in Paths /\ ToSet(queue) = {}
      /\ DOMAIN queue = {}
  BY TaskType, RootPrefix DEF ToSet, Beginning
<1>1. WatchedInv BY DEF WatchedInv, Beginning
<1>2. KnownInv BY <1>0 DEF KnownInv, Known, Beginning
<1>3. OrderInv BY <1>0 DEF OrderInv
<1>4. WatchInv BY DEF WatchInv, Beginning
<1>5. ListInv BY <1>0, RootPrefix DEF ListInv, ToBeListed, Beginning
<1>6. MakeInv BY <1>0 DEF MakeInv, Beginning
<1>7. KindInv
  <2>1. View("src", Root).kind = "dir" BY NodeKinds DEF Beginning, View
  <2>2. \A p \in Paths : fs["dst"][p] = Dir => View("dst", p).kind = "dir" BY NodeKinds DEF View
  <2> QED BY <2>1, <2>2 DEF KindInv, Beginning
<1>8. CopiedInv BY <1>0, RootPrefix DEF CopiedInv, ToMirror, Covers, Beginning
<1> QED BY <1>1, <1>2, <1>3, <1>4, <1>5, <1>6, <1>7, <1>8 DEF Mirroring

-----------------------------------------------------------------------------
\* The same of the worker that a command starts.
LEMMA BeginningAgain ==
  ASSUME Beginning' PROVE Mirroring'
<1>0. Task("make", Root).do = "make" /\ Task("make", Root).path = Root /\ Root \in Paths /\ ToSet(queue') = {}
      /\ DOMAIN queue' = {}
  BY TaskType, RootPrefix DEF ToSet, Beginning
<1>1. WatchedInv' BY DEF WatchedInv, Beginning
<1>2. KnownInv' BY <1>0 DEF KnownInv, Known, Beginning
<1>3. OrderInv' BY <1>0 DEF OrderInv
<1>4. WatchInv' BY DEF WatchInv, Beginning
<1>5. ListInv' BY <1>0, RootPrefix DEF ListInv, ToBeListed, Beginning
<1>6. MakeInv' BY <1>0 DEF MakeInv, Beginning
<1>7. KindInv'
  <2>1. View("src", Root).kind' = "dir" BY NodeKinds DEF Beginning, View
  <2>2. \A p \in Paths : fs'["dst"][p] = Dir => View("dst", p).kind' = "dir" BY NodeKinds DEF View
  <2> QED BY <2>1, <2>2 DEF KindInv, Beginning
<1>8. CopiedInv' BY <1>0, RootPrefix DEF CopiedInv, ToMirror, Covers, Beginning
<1> QED BY <1>1, <1>2, <1>3, <1>4, <1>5, <1>6, <1>7, <1>8 DEF Mirroring

\* The supervisor's commands.
LEMMA CommandsMirror ==
  ASSUME Well, MirrorInv, End \/ StartAgain \/ Restore PROVE MirrorInv'
<1>0. "worker" \in Copiers /\ "restore" \in Copiers /\ TypeOK /\ RootsInv /\ StageInv
  BY CopierNames DEF Well, Basic
<1>1. CASE End BY <1>1 DEF End, MirrorInv, Alive
<1>2. CASE StartAgain
  <2>1. /\ fs' = fs /\ file' = file /\ toWatch' = toWatch /\ watched' = watched /\ queue' = queue
        /\ todo'["worker"] = <<Task("make", Root)>> /\ stage' = "sync" /\ stage = "dead"
        /\ leftover' = {p \in Paths : fs["dst"][p] # Absent}
    BY <1>0, <1>2 DEF StartAgain, StageInv, trees, TypeOK
  <2>2. toWatch = <<>> /\ watched = {} /\ queue = <<>> /\ file["worker"] = NoFile
    BY <1>0, <2>1 DEF StageInv, Idle
  <2>3. ToSet(toWatch') = {} /\ ToSet(todo'["worker"]) = {Task("make", Root)} BY <2>1, <2>2 DEF ToSet
  <2>4. fs'["src"][Root] = Dir BY <1>0, <2>1 DEF RootsInv
  <2>5. Beginning' BY <2>1, <2>2, <2>3, <2>4 DEF Beginning
  <2> QED BY <2>5, BeginningAgain DEF MirrorInv
<1>3. CASE Restore
  <2>1. todo'["worker"] = todo["worker"] BY <1>0, <1>3 DEF Restore, TypeOK
  <2>2. NotSeen /\ WorkerWaits BY <1>3, <2>1 DEF Restore, NotSeen, WorkerWaits, trees, worker
  <2> QED BY <2>2, MirrorSame
<1> QED BY <1>1, <1>2, <1>3

\* At the start.
LEMMA InitMirror == ASSUME Init PROVE MirrorInv
<1>1. Well BY InitWell
<1>2. ToSet(todo["worker"]) = {Task("make", Root)} /\ ToSet(toWatch) = {} BY DEF Init, ToSet
<1>3. fs["src"][Root] = Dir BY <1>1 DEF Well, RootsInv
<1>4. \A p \in Paths : fs["dst"][p] # Absent => p = Root /\ fs["dst"][p] = Dir BY DEF Init
<1>5. Beginning BY <1>2, <1>3, <1>4, CopierNames DEF Beginning, Init
<1> QED BY <1>5, BeginningMirrors DEF MirrorInv

\* Every step.
LEMMA MirrorStep ==
  ASSUME Well, MirrorInv, [Next]_vars PROVE Well' /\ MirrorInv'
<1>1. Basic' BY NextKeepsBasic DEF Well
<1>2. CASE User \/ Supervisor BY <1>1, <1>2, OthersKeep
<1>3. CASE Worker BY <1>1, <1>3, WorkerKeeps
<1>4. CASE End \/ StartAgain \/ Restore BY <1>1, <1>4, CommandsWell, CommandsMirror
<1>5. CASE UNCHANGED vars
  <2>1. NotSeen /\ WorkerWaits BY <1>5 DEF vars, NotSeen, WorkerWaits, trees, worker
  <2>2. Well'
    BY <1>1, <1>5 DEF Well, RootsInv, OpenInv, StageInv, MissedInv, Idle, vars, trees, worker, supervisor
  <2> QED BY <2>1, <2>2, MirrorSame
<1> QED BY <1>2, <1>3, <1>4, <1>5 DEF Next

\* The trees are well formed, and the worker has everything still to do, in every state.
LEMMA MirrorInvariance == Spec => [](Well /\ MirrorInv)
<1>1. Init => Well /\ MirrorInv BY InitWell, InitMirror
<1>2. Well /\ MirrorInv /\ [Next]_vars => (Well /\ MirrorInv)' BY MirrorStep
<1> QED BY <1>1, <1>2, PTL DEF Spec

\* The inductive invariant: every state is well formed, nothing but copies of empty files
\* is under way beside a worker at rest, what a restore that is alone has not done yet is
\* still to be done, and so is what a worker that lives has not mirrored yet.
THEOREM Invariance == Spec => []IndInv
<1>1. Init => Basic /\ AloneInv
  <2>1. Init => pc = "idle" BY DEF Init
  <2> QED BY <2>1, InitBasic DEF AloneInv
<1>2. Basic /\ AloneInv /\ [Next]_vars => (Basic /\ AloneInv)' BY NextKeepsBasic, AloneStep
<1>3. Spec => [](Basic /\ AloneInv) BY <1>1, <1>2, PTL DEF Spec
<1>4. (Basic /\ SettledInv) /\ (Basic /\ AloneInv) /\ (Well /\ MirrorInv) => IndInv
  BY DEF IndInv, Basic, Well
<1> QED BY <1>3, <1>4, SettledInvariance, MirrorInvariance, PTL

\* handle_restore of a pair without a worker, when it reports success, has made the source
\* what the backup was, but for files that hash alike and for a file where the backup has
\* a directory.
THEOREM RestoreIsFaithful == Spec => RestoreFaithful
<1>1. IndInv /\ [Next]_vars =>
        [Finished /\ mode = "alone" => Hidden \/ \A p \in Paths : Recovered(p)]_vars
  <2> SUFFICES ASSUME IndInv, Finished, mode = "alone", ~Hidden, NEW p \in Paths PROVE Recovered(p)
    OBVIOUS
  <2>1. Basic BY DEF Basic, IndInv
  <2>2. pc = "removing" /\ toRemove = <<>> BY DEF Finished
  <2>3. Alone BY <2>2 DEF IndInv, AloneInv
  <2>4. CASE goal[p].kind # "absent" BY <2>2, <2>3, <2>4 DEF Alone, CopyInv
  <2>5. CASE goal[p].kind = "absent"
    <3>1. ~ToRemove(p) BY <2>2 DEF ToRemove
    <3>2. fs["src"][p] = Absent BY <2>2, <2>3, <2>5, <3>1 DEF Alone, RemoveInv
    <3>3. fs["dst"][p] = Absent BY <2>1, <2>3, <2>5, GoalMeans
    <3>4. View("src", p) = View("dst", p) BY <2>1, <3>2, <3>3, ViewMeans DEF Names
    <3> QED BY <2>1, <2>3, <3>4, GoalMeans DEF Recovered
  <2> QED BY <2>4, <2>5
<1> QED BY <1>1, Invariance, PTL DEF Spec, RestoreFaithful

\* When everybody is at rest nothing is left that excuses a difference.
LEMMA AtRest == ASSUME Well, MirrorInv PROVE Converged
<1> SUFFICES ASSUME Waiting, Quiet, NEW p \in Paths, p \notin missed,
                    ~(p \in leftover /\ View("src", p).kind # View("dst", p).kind)
             PROVE  Same(p)
  BY DEF Converged
<1>0. Basic /\ "src" \in Names /\ "dst" \in Names BY DEF Well, Names
<1>1. /\ stage = "loop" /\ file["worker"] = NoFile /\ ToSet(queue) = {} /\ ToSet(todo["worker"]) = {}
  BY DEF Waiting, Quiet, Idle, ToSet
<1>2. Mirroring BY <1>1 DEF MirrorInv, Alive
<1>3. ~Announced(p) /\ ~Deleted(p) /\ ~ToMirror(p) /\ ~Copying(p)
  BY <1>1 DEF Announced, Deleted, ToMirror, Copying
<1>4. ~Behind(p) BY <1>2, <1>3 DEF Mirroring, CopiedInv
<1>5. fs["dst"][p] # Absent => View("src", p).kind = View("dst", p).kind
  BY <1>2, <1>3 DEF Mirroring, KindInv
<1>6. CASE fs["dst"][p] = Absent
  <2>1. fs["src"][p] = Absent BY <1>4, <1>6 DEF Behind
  <2> QED BY <1>0, <1>6, <2>1, ViewMeans DEF Same
<1>7. CASE fs["dst"][p] = Dir
  <2>1. fs["src"][p] = Dir BY <1>0, <1>5, <1>7, ViewMeans, NodeKinds
  <2> QED BY <1>0, <1>7, <2>1, ViewMeans DEF Same
<1>8. CASE IsFile(fs["dst"][p])
  <2>1. fs["dst"][p] # Absent /\ fs["src"][p] # Absent /\ IsFile(fs["src"][p])
    BY <1>0, <1>5, <1>8, ViewMeans, NodeKinds
  <2>2. data[fs["src"][p]] = data[fs["dst"][p]] BY <1>4, <1>8, <2>1 DEF Behind
  <2> QED BY <1>0, <1>8, <2>1, <2>2, ViewMeans DEF Same
<1>9. fs["dst"][p] \in Nodes BY <1>0, TreesOf DEF Basic
<1> QED BY <1>6, <1>7, <1>8, <1>9, NodeKinds

\* When the worker waits for events, none are left and nobody restores, the target is the
\* source, but for what the worker could not see and what the target held before it.
THEOREM RestingIsConverged == Spec => []Converged
BY MirrorInvariance, AtRest, PTL
=============================================================================
