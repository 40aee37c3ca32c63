------------------------- MODULE OrlovMirrorProofs -------------------------
(***************************************************************************)
(* Proofs about OrlovMirror for any tree, table and queue: the inductive   *)
(* invariant of a worker whose user waits for it, what it says of the      *)
(* target and of the table when the worker is idle, and what a restore     *)
(* leaves.                                                                 *)
(***************************************************************************)
EXTENDS OrlovMirror, SequenceTheorems, FiniteSetTheorems, TLAPS

-----------------------------------------------------------------------------
(* Paths.                                                                  *)

Names == {"src", "out"} \cup DirNames \cup FileNames
Depth == IF Nested THEN 3 ELSE 2

\* The entries that names give directories, as an operator the provers do not open.
Entry(r, n) == r \o <<n>>

\* The directories and files of the tree, level by level.
LEMMA EntriesMeans ==
  /\ TopDirs = {Entry(r, d) : r \in Top, d \in DirNames}
  /\ SubDirs = IF Nested THEN {Entry(r, d) : r \in TopDirs, d \in DirNames} ELSE {}
  /\ FilePaths = {Entry(r, f) : r \in DirPaths, f \in FileNames}
BY DEF TopDirs, SubDirs, FilePaths, Entry

\* A path with one more name.
LEMMA Longer ==
  ASSUME NEW d \in Seq(Names), NEW n \in Names
  PROVE  /\ d \o <<n>> \in Seq(Names) /\ Len(d \o <<n>>) = Len(d) + 1
         /\ \A i \in 1 .. Len(d) : (d \o <<n>>)[i] = d[i]
         /\ (d \o <<n>>)[Len(d) + 1] = n
<1>1. <<n>> \in Seq(Names) /\ Len(<<n>>) = 1 /\ <<n>>[1] = n OBVIOUS
<1>2. Len(d) \in Nat BY LenProperties
<1> QED BY <1>1, <1>2, ConcatProperties

\* A directory: one of the two roots, and names of directories.
LEMMA DirMeans ==
  \A p : p \in DirPaths <=> /\ p \in Seq(Names) /\ Len(p) \in 1 .. Depth
                            /\ p[1] \in {"src", "out"}
                            /\ \A i \in 2 .. Len(p) : p[i] \in DirNames
<1> DEFINE Dirs(n) == {p \in Seq(Names) : /\ Len(p) = n /\ p[1] \in {"src", "out"}
                                          /\ \A i \in 2 .. n : p[i] \in DirNames}
<1>1. Dirs(1) = Top
  <2>1. ASSUME NEW p \in Dirs(1) PROVE p \in Top
    <3>1. p \in Seq(Names) /\ Len(p) = 1 OBVIOUS
    <3>2. p = <<p[1]>> BY <3>1
    <3> QED BY <3>2 DEF Top, Src, Out
  <2>2. Src \in Dirs(1) /\ Out \in Dirs(1) BY DEF Src, Out, Names
  <2> QED BY <2>1, <2>2 DEF Top
<1>2. ASSUME NEW n \in {1, 2} PROVE Dirs(n + 1) = {Entry(r, d) : r \in Dirs(n), d \in DirNames}
  <2>1. ASSUME NEW r \in Dirs(n), NEW d \in DirNames PROVE Entry(r, d) \in Dirs(n + 1)
    <3>1. r \in Seq(Names) /\ Len(r) = n /\ r[1] \in {"src", "out"} /\ \A i \in 2 .. n : r[i] \in DirNames
      OBVIOUS
    <3>2. d \in Names BY DEF Names
    <3> DEFINE p == Entry(r, d)
    <3>3. p \in Seq(Names) /\ Len(p) = n + 1 /\ (\A i \in 1 .. n : p[i] = r[i]) /\ p[n + 1] = d
      BY <3>1, <3>2, Longer DEF Entry
    <3> HIDE DEF p
    <3>4. p[1] \in {"src", "out"} BY <3>1, <3>3
    <3>5. \A i \in 2 .. n + 1 : p[i] \in DirNames BY <3>1, <3>3
    <3>6. p \in Dirs(n + 1) BY <3>3, <3>4, <3>5
    <3> QED BY <3>6 DEF p
  <2>2. ASSUME NEW p \in Dirs(n + 1)
        PROVE  \E r \in Dirs(n), d \in DirNames : p = Entry(r, d)
    <3>1. p \in Seq(Names) /\ Len(p) = n + 1 /\ p[1] \in {"src", "out"}
          /\ \A i \in 2 .. n + 1 : p[i] \in DirNames
      OBVIOUS
    <3> DEFINE r == SubSeq(p, 1, n)
    <3>2. r \in Seq(Names) /\ Len(r) = n /\ \A i \in 1 .. n : r[i] = p[i]
      BY <3>1, SubSeqProperties
    <3> HIDE DEF r
    <3>3. r[1] = p[1] /\ \A i \in 2 .. n : r[i] \in DirNames BY <3>1, <3>2
    <3>4. r \in Dirs(n) BY <3>1, <3>2, <3>3
    <3>5. p[n + 1] \in DirNames /\ p[n + 1] \in Names BY <3>1 DEF Names
    <3>6. p = Entry(r, p[n + 1])
      <4>1. /\ Entry(r, p[n + 1]) \in Seq(Names) /\ Len(Entry(r, p[n + 1])) = n + 1
            /\ \A i \in 1 .. n : (Entry(r, p[n + 1]))[i] = r[i]
            /\ (Entry(r, p[n + 1]))[n + 1] = p[n + 1]
        BY <3>2, <3>5, Longer DEF Entry
      <4>2. \A i \in 1 .. n + 1 : (Entry(r, p[n + 1]))[i] = p[i] BY <3>2, <4>1
      <4> QED BY <3>1, <4>1, <4>2, SeqEqual
    <3> QED BY <3>4, <3>5, <3>6
  <2> HIDE DEF Dirs
  <2> QED BY <2>1, <2>2
<1>3. TopDirs = Dirs(2)
  <2> HIDE DEF Dirs
  <2>1. Dirs(1 + 1) = {Entry(r, d) : r \in Dirs(1), d \in DirNames} BY <1>2
  <2>2. 1 + 1 = 2 OBVIOUS
  <2> QED BY <1>1, <2>1, <2>2, EntriesMeans
<1>4. SubDirs = IF Nested THEN Dirs(3) ELSE {}
  <2> HIDE DEF Dirs
  <2>1. Dirs(2 + 1) = {Entry(r, d) : r \in Dirs(2), d \in DirNames} BY <1>2
  <2>2. 2 + 1 = 3 OBVIOUS
  <2>3. Dirs(3) = {Entry(r, d) : r \in TopDirs, d \in DirNames} BY <1>3, <2>1, <2>2
  <2>4. SubDirs = IF Nested THEN {Entry(r, d) : r \in TopDirs, d \in DirNames} ELSE {} BY EntriesMeans
  <2> QED BY <2>3, <2>4
<1>5. DirPaths = IF Nested THEN Dirs(1) \cup Dirs(2) \cup Dirs(3) ELSE Dirs(1) \cup Dirs(2)
  BY <1>1, <1>3, <1>4 DEF DirPaths
<1>6. ASSUME NEW p PROVE p \in DirPaths <=> \E n \in 1 .. Depth : p \in Dirs(n)
  <2> HIDE DEF Dirs
  <2>1. CASE Nested
    <3>1. Depth = 3 BY <2>1 DEF Depth
    <3>2. \A n : n \in 1 .. 3 <=> n \in {1, 2, 3} OBVIOUS
    <3> QED BY <1>5, <2>1, <3>1, <3>2
  <2>2. CASE ~Nested
    <3>1. Depth = 2 BY <2>2 DEF Depth
    <3>2. \A n : n \in 1 .. 2 <=> n \in {1, 2} OBVIOUS
    <3> QED BY <1>5, <2>2, <3>1, <3>2
  <2> QED BY <2>1, <2>2
<1> QED BY <1>6

\* A file: a name in a directory.
LEMMA FileMeans ==
  \A p : p \in FilePaths <=> /\ p \in Seq(Names) /\ Len(p) \in 2 .. Depth + 1
                             /\ p[1] \in {"src", "out"}
                             /\ \A i \in 2 .. Len(p) - 1 : p[i] \in DirNames
                             /\ p[Len(p)] \in FileNames
<1>1. ASSUME NEW p \in FilePaths
      PROVE  /\ p \in Seq(Names) /\ Len(p) \in 2 .. Depth + 1
             /\ p[1] \in {"src", "out"}
             /\ \A i \in 2 .. Len(p) - 1 : p[i] \in DirNames
             /\ p[Len(p)] \in FileNames
  <2>1. PICK r \in DirPaths, f \in FileNames : p = Entry(r, f) BY EntriesMeans
  <2>2. /\ r \in Seq(Names) /\ Len(r) \in 1 .. Depth /\ r[1] \in {"src", "out"}
        /\ \A i \in 2 .. Len(r) : r[i] \in DirNames
    BY DirMeans
  <2>3. f \in Names BY DEF Names
  <2>4. p \in Seq(Names) /\ Len(p) = Len(r) + 1 /\ (\A i \in 1 .. Len(r) : p[i] = r[i]) /\ p[Len(p)] = f
    BY <2>1, <2>2, <2>3, Longer DEF Entry
  <2> QED BY <2>2, <2>4 DEF Depth
<1>2. ASSUME NEW p \in Seq(Names), Len(p) \in 2 .. Depth + 1, p[1] \in {"src", "out"},
             \A i \in 2 .. Len(p) - 1 : p[i] \in DirNames, p[Len(p)] \in FileNames
      PROVE  p \in FilePaths
  <2> DEFINE n == Len(p) - 1
             r == SubSeq(p, 1, n)
  <2>1. n \in 1 .. Depth /\ Len(p) = n + 1 BY <1>2 DEF Depth
  <2>2. r \in Seq(Names) /\ Len(r) = n /\ \A i \in 1 .. n : r[i] = p[i]
    BY <2>1, SubSeqProperties
  <2>3. r \in DirPaths
    <3>1. r[1] = p[1] /\ \A i \in 2 .. n : r[i] \in DirNames BY <1>2, <2>1, <2>2
    <3> QED BY <1>2, <2>1, <2>2, <3>1, DirMeans
  <2>4. p[Len(p)] \in Names BY <1>2 DEF Names
  <2>5. p = Entry(r, p[Len(p)])
    <3> HIDE DEF r
    <3> DEFINE t == Entry(r, p[Len(p)])
    <3>1. /\ t \in Seq(Names) /\ Len(t) = n + 1
          /\ (\A i \in 1 .. n : t[i] = r[i]) /\ t[n + 1] = p[Len(p)]
      BY <2>2, <2>4, Longer DEF Entry
    <3> HIDE DEF t
    <3>2. \A i \in 1 .. Len(p) : t[i] = p[i] BY <2>1, <2>2, <3>1
    <3>3. p = t BY <1>2, <2>1, <3>1, <3>2, SeqEqual
    <3> QED BY <3>3 DEF t
  <2> QED BY <1>2, <2>3, <2>5, EntriesMeans
<1> QED BY <1>1, <1>2

\* Where a path does not begin.
LEMMA NotOne ==
  ASSUME NEW n \in Nat, NEW m \in Nat, n \in 1 .. m, n # 1 PROVE n \in 2 .. n /\ n \in 2 .. m
OBVIOUS

\* A path: a root, then names of directories, and at its end a directory or a file.
LEMMA PathMeans ==
  \A p \in Paths :
    /\ p \in Seq(Names) /\ Len(p) \in 1 .. 4 /\ Len(p) \in 1 .. Depth + 1 /\ DOMAIN p = 1 .. Len(p)
    /\ \A i \in 1 .. Len(p) : p[i] \in Names
    /\ p[1] \in {"src", "out"} /\ \A i \in 2 .. Len(p) - 1 : p[i] \in DirNames
    /\ Len(p) # 1 => p[Len(p)] \in DirNames \cup FileNames
    /\ p \in DirPaths <=> Len(p) = 1 \/ p[Len(p)] \in DirNames
    /\ p \in Top <=> Len(p) = 1
<1> SUFFICES ASSUME NEW p \in Paths
             PROVE  /\ p \in Seq(Names) /\ Len(p) \in 1 .. 4 /\ Len(p) \in 1 .. Depth + 1 /\ DOMAIN p = 1 .. Len(p)
                    /\ \A i \in 1 .. Len(p) : p[i] \in Names
                    /\ p[1] \in {"src", "out"} /\ \A i \in 2 .. Len(p) - 1 : p[i] \in DirNames
                    /\ Len(p) # 1 => p[Len(p)] \in DirNames \cup FileNames
                    /\ p \in DirPaths <=> Len(p) = 1 \/ p[Len(p)] \in DirNames
                    /\ p \in Top <=> Len(p) = 1
  OBVIOUS
<1>1. Depth \in {2, 3} /\ Depth \in Nat BY DEF Depth
<1>2. DirNames \cap FileNames = {} BY TreeAssumption
<1>3. p \in DirPaths \/ p \in FilePaths BY DEF Paths
<1>4. p \in Seq(Names) /\ Len(p) \in 1 .. Depth + 1 BY <1>1, <1>3, DirMeans, FileMeans
<1>5. DOMAIN p = 1 .. Len(p) /\ \A i \in 1 .. Len(p) : p[i] \in Names BY <1>4, LenProperties
<1>6. p[1] \in {"src", "out"} /\ \A i \in 2 .. Len(p) - 1 : p[i] \in DirNames
  BY <1>1, <1>3, <1>4, DirMeans, FileMeans
<1>7. Len(p) # 1 => p[Len(p)] \in DirNames \cup FileNames
  <2>0. Len(p) \in Nat \ {0} BY <1>1, <1>4
  <2>1. Len(p) # 1 => Len(p) \in 2 .. Len(p) BY <1>4, <2>0, <1>1, NotOne
  <2> QED BY <1>3, <2>1, DirMeans, FileMeans
<1>8. p \in DirPaths <=> Len(p) = 1 \/ p[Len(p)] \in DirNames
  <2>1. p \in DirPaths => Len(p) = 1 \/ p[Len(p)] \in DirNames
    <3>0. Len(p) \in Nat \ {0} BY <1>1, <1>4
    <3>1. Len(p) # 1 => Len(p) \in 2 .. Len(p) BY <1>4, <3>0, <1>1, NotOne
    <3> QED BY <3>1, DirMeans
  <2>2. p \in FilePaths => Len(p) # 1 /\ p[Len(p)] \notin DirNames BY <1>1, <1>2, <1>4, FileMeans
  <2> QED BY <1>3, <2>1, <2>2
<1>9. p \in Top <=> Len(p) = 1
  <2>1. p \in Top => Len(p) = 1 BY DEF Top, Src, Out
  <2>2. ASSUME Len(p) = 1 PROVE p \in Top
    <3>1. p = <<p[1]>> BY <1>4, <2>2
    <3> QED BY <1>6, <3>1 DEF Top, Src, Out
  <2> QED BY <2>1, <2>2
<1> QED BY <1>1, <1>4, <1>5, <1>6, <1>7, <1>8, <1>9

\* Paths with the same names are the same.
LEMMA SamePath ==
  ASSUME NEW p \in Paths, NEW q \in Paths, Len(p) = Len(q), \A i \in 1 .. Len(p) : p[i] = q[i]
  PROVE  p = q
BY PathMeans, SeqEqual

\* A path lies under each of its beginnings.
LEMMA UnderMeans ==
  ASSUME NEW p \in Paths, NEW q \in Paths
  PROVE  Under(p, q) <=> Len(q) <= Len(p) /\ \A i \in 1 .. Len(q) : q[i] = p[i]
<1> DEFINE n == Len(q)
<1>1. /\ Len(p) \in Nat /\ n \in Nat
      /\ (\A i \in 1 .. Len(p) : p[i] \in Names) /\ \A i \in 1 .. n : q[i] \in Names
  BY PathMeans
<1>2. ASSUME n <= Len(p)
      PROVE  SubSeq(q, 1, n) = SubSeq(p, 1, n) <=> \A i \in 1 .. n : q[i] = p[i]
  <2> DEFINE a == SubSeq(q, 1, n)
             b == SubSeq(p, 1, n)
  <2>1. a \in Seq(Names) /\ Len(a) = n /\ \A i \in 1 .. n : a[i] = q[i]
    BY <1>1, SubSeqProperties
  <2>2. b \in Seq(Names) /\ Len(b) = n /\ \A i \in 1 .. n : b[i] = p[i]
    <3>1. \A i \in 1 .. n : p[i] \in Names BY <1>1, <1>2
    <3> QED BY <1>1, <3>1, SubSeqProperties
  <2>3. (\A i \in 1 .. n : a[i] = b[i]) => a = b
    <3> HIDE DEF a, b, n
    <3> QED BY <2>1, <2>2, SeqEqual
  <2> HIDE DEF a, b
  <2>4. a = b <=> \A i \in 1 .. n : q[i] = p[i] BY <2>1, <2>2, <2>3
  <2> QED BY <2>4 DEF a, b
<1> QED BY <1>2 DEF Under, IsPrefix

\* To lie below orders the paths, and the paths above a path are in one line.
LEMMA UnderOrders ==
  /\ \A p \in Paths : Under(p, p)
  /\ \A p, q \in Paths : Under(p, q) /\ Under(q, p) => p = q
  /\ \A p, q, r \in Paths : Under(p, q) /\ Under(q, r) => Under(p, r)
  /\ \A p, q, r \in Paths : Under(p, q) /\ Under(p, r) => Under(q, r) \/ Under(r, q)
<1>1. \A p \in Paths : Len(p) \in Nat BY PathMeans
<1>2. \A p \in Paths : Under(p, p) BY <1>1, UnderMeans
<1>3. ASSUME NEW p \in Paths, NEW q \in Paths, Under(p, q), Under(q, p) PROVE p = q
  <2>1. Len(p) = Len(q) /\ \A i \in 1 .. Len(p) : p[i] = q[i] BY <1>1, <1>3, UnderMeans
  <2> QED BY <2>1, SamePath
<1>4. ASSUME NEW p \in Paths, NEW q \in Paths, NEW r \in Paths, Under(p, q), Under(q, r)
      PROVE  Under(p, r)
  BY <1>1, <1>4, UnderMeans
<1>5. ASSUME NEW p \in Paths, NEW q \in Paths, NEW r \in Paths, Under(p, q), Under(p, r)
      PROVE  Under(q, r) \/ Under(r, q)
  <2>1. Len(q) <= Len(r) \/ Len(r) <= Len(q) BY <1>1
  <2> QED BY <1>1, <1>5, <2>1, UnderMeans
<1> QED BY <1>2, <1>3, <1>4, <1>5

\* Only a directory has something below it.
LEMMA BelowDirs ==
  ASSUME NEW x \in Paths, NEW p \in Paths, Under(x, p), x # p
  PROVE  p \in DirPaths /\ x \notin Top /\ Len(p) < Len(x)
<1>1. Len(p) \in Nat \ {0} /\ Len(x) \in Nat /\ Len(p) <= Len(x) /\ \A i \in 1 .. Len(p) : p[i] = x[i]
  BY PathMeans, UnderMeans
<1>2. Len(p) # Len(x) BY <1>1, SamePath
<1>3. \A i \in 2 .. Len(x) - 1 : x[i] \in DirNames BY PathMeans
<1>4. Len(p) = 1 \/ p[Len(p)] \in DirNames
  <2>0. Len(p) \in Nat \ {0} /\ Len(x) \in Nat /\ Len(p) <= Len(x) BY <1>1
  <2>1. Len(p) = 1 \/ Len(p) \in 2 .. Len(x) - 1 BY <1>2, <2>0
  <2>2. p[Len(p)] = x[Len(p)] BY <1>1
  <2> QED BY <1>3, <2>1, <2>2
<1> QED BY <1>1, <1>2, <1>4, PathMeans

\* The directory of an entry and its name.
LEMMA ParentMeans ==
  ASSUME NEW p \in Paths \ Top
  PROVE  /\ Parent(p) \in DirPaths /\ Parent(p) \in Paths /\ Len(Parent(p)) = Len(p) - 1
         /\ Under(p, Parent(p)) /\ Parent(p) # p
         /\ Name(p) \in DirNames \cup FileNames
         /\ p = Parent(p) \o <<Name(p)>>
         /\ \A q \in Paths : Under(p, q) /\ p # q => Under(Parent(p), q)
<1> DEFINE n == Len(p) - 1
           r == SubSeq(p, 1, n)
<1>1. /\ p \in Seq(Names) /\ Len(p) \in 2 .. Depth + 1 /\ p[1] \in {"src", "out"}
      /\ \A i \in 1 .. Len(p) : p[i] \in Names
      /\ \A i \in 2 .. n : p[i] \in DirNames
      /\ p[Len(p)] \in DirNames \cup FileNames
  <2>1. /\ p \in Seq(Names) /\ Len(p) \in 1 .. 4 /\ Len(p) \in 1 .. Depth + 1 /\ p[1] \in {"src", "out"}
        /\ \A i \in 1 .. Len(p) : p[i] \in Names
        /\ \A i \in 2 .. n : p[i] \in DirNames
        /\ Len(p) # 1 /\ p[Len(p)] \in DirNames \cup FileNames
    BY PathMeans
  <2>2. Depth \in Nat BY DEF Depth
  <2>4. Len(p) \in 1 .. Depth + 1 /\ Len(p) # 1 BY <2>1
  <2>5. Depth + 1 \in Nat /\ Len(p) \in Nat BY <2>2, <2>4
  <2>3. Len(p) \in 2 .. Depth + 1 BY <2>4, <2>5, NotOne
  <2> QED BY <2>1, <2>3
<1>2. Parent(p) = r BY DEF Parent, Front
<1>3. n \in 1 .. Depth /\ Len(p) = n + 1 BY <1>1 DEF Depth
<1>4. r \in Seq(Names) /\ Len(r) = n /\ \A i \in 1 .. n : r[i] = p[i]
  BY <1>1, <1>3, SubSeqProperties
<1> HIDE DEF r
<1>5. r \in DirPaths
  <2>1. r[1] \in {"src", "out"} /\ \A i \in 2 .. n : r[i] \in DirNames BY <1>1, <1>3, <1>4
  <2> QED BY <1>3, <1>4, <2>1, DirMeans
<1>6. r \in Paths BY <1>5 DEF Paths
<1>7. Under(p, r) /\ r # p BY <1>3, <1>4, <1>6, UnderMeans
<1>8. Name(p) = p[Len(p)] BY DEF Name, Last
<1>9. p = r \o <<Name(p)>>
  <2> DEFINE t == r \o <<Name(p)>>
  <2>1. Name(p) \in Names BY <1>1, <1>8 DEF Names
  <2>2. t \in Seq(Names) /\ Len(t) = n + 1 /\ (\A i \in 1 .. n : t[i] = r[i]) /\ t[n + 1] = Name(p)
    BY <1>4, <2>1, Longer
  <2> HIDE DEF t
  <2>3. \A i \in 1 .. Len(p) : t[i] = p[i] BY <1>3, <1>4, <1>8, <2>2
  <2>4. p = t BY <1>1, <1>3, <2>2, <2>3, SeqEqual
  <2> QED BY <2>4 DEF t
<1>10. ASSUME NEW q \in Paths, Under(p, q), p # q PROVE Under(r, q)
  <2>1. Len(q) \in Nat /\ Len(q) <= n /\ \A i \in 1 .. Len(q) : q[i] = p[i]
    BY <1>3, <1>10, BelowDirs, UnderMeans, PathMeans
  <2>2. \A i \in 1 .. Len(q) : q[i] = r[i] BY <1>3, <1>4, <2>1
  <2> QED BY <1>4, <1>6, <2>1, <2>2, UnderMeans
<1> QED BY <1>1, <1>2, <1>3, <1>4, <1>5, <1>6, <1>7, <1>8, <1>9, <1>10

\* An entry of a directory.
LEMMA EntryMeans ==
  ASSUME NEW d \in DirPaths, NEW n \in DirNames \cup FileNames, d \o <<n>> \in Paths
  PROVE  d \o <<n>> \notin Top /\ Parent(d \o <<n>>) = d /\ Name(d \o <<n>>) = n
<1> DEFINE t == d \o <<n>>
<1>1. d \in Seq(Names) /\ Len(d) \in 1 .. Depth BY DirMeans
<1>2. n \in Names BY DEF Names
<1>3. t \in Seq(Names) /\ Len(t) = Len(d) + 1 /\ (\A i \in 1 .. Len(d) : t[i] = d[i])
      /\ t[Len(d) + 1] = n
  BY <1>1, <1>2, Longer
<1>4. Len(d) \in Nat \ {0} BY <1>1 DEF Depth
<1>5. t \in Paths OBVIOUS
<1> HIDE DEF t
<1>8. t \notin Top
  <2>1. Len(t) # 1 BY <1>3, <1>4
  <2> QED BY <1>5, <2>1, PathMeans
<1>6. Parent(t) = d
  <2>1. Parent(t) = SubSeq(t, 1, Len(d)) BY <1>3, <1>4 DEF Parent, Front
  <2>2. \A i \in 1 .. Len(d) : t[i] \in Names BY <1>3, <1>4, LenProperties
  <2>3. /\ SubSeq(t, 1, Len(d)) \in Seq(Names) /\ Len(SubSeq(t, 1, Len(d))) = Len(d)
        /\ \A i \in 1 .. Len(d) : SubSeq(t, 1, Len(d))[i] = d[i]
    BY <1>3, <1>4, <2>2, SubSeqProperties
  <2> QED BY <1>1, <2>1, <2>3, SeqEqual
<1>7. Name(t) = n BY <1>3 DEF Name, Last
<1> QED BY <1>6, <1>7, <1>8 DEF t

\* What lies below a path is an entry of it or lies below one.
LEMMA OnTheWay ==
  ASSUME NEW x \in Paths, NEW p \in Paths, Under(x, p), x # p
  PROVE  \E c \in Paths \ Top : Parent(c) = p /\ Under(x, c)
<1> DEFINE n == Len(p) + 1
           c == SubSeq(x, 1, n)
<1>1. /\ x \in Seq(Names) /\ Len(x) \in 1 .. Depth + 1 /\ x[1] \in {"src", "out"}
      /\ (\A i \in 1 .. Len(x) : x[i] \in Names)
      /\ \A i \in 2 .. Len(x) - 1 : x[i] \in DirNames
  BY PathMeans
<1>2. Len(p) \in Nat \ {0} /\ Len(p) < Len(x) /\ \A i \in 1 .. Len(p) : p[i] = x[i]
  BY BelowDirs, UnderMeans, PathMeans
<1>3. n \in 2 .. Len(x) /\ Len(x) \in Nat BY <1>1, <1>2 DEF Depth
<1>4. c \in Seq(Names) /\ Len(c) = n /\ \A i \in 1 .. n : c[i] = x[i]
  <2>1. \A i \in 1 .. n : x[i] \in Names BY <1>1, <1>3
  <2> QED BY <1>3, <2>1, SubSeqProperties
<1> HIDE DEF c
<1>5. c \in Paths
  <2>1. CASE n = Len(x)
    <3>1. c = x BY <1>1, <1>3, <1>4, <2>1, SeqEqual
    <3> QED BY <3>1
  <2>2. CASE n # Len(x)
    <3>1. n \in 2 .. Len(x) - 1 BY <1>3, <2>2
    <3>2. c[1] \in {"src", "out"} /\ \A i \in 2 .. n : c[i] \in DirNames BY <1>1, <1>3, <1>4, <3>1
    <3>3. n \in 1 .. Depth BY <1>1, <3>1 DEF Depth
    <3>4. c \in DirPaths BY <1>4, <3>2, <3>3, DirMeans
    <3> QED BY <3>4 DEF Paths
  <2> QED BY <2>1, <2>2
<1>6. c \notin Top /\ Under(x, c) BY <1>3, <1>4, <1>5, PathMeans, UnderMeans
<1>7. Parent(c) = p
  <2>1. Parent(c) \in Paths /\ Len(Parent(c)) = Len(p) /\ Under(c, Parent(c))
    <3>1. c \in Paths \ Top /\ Len(c) - 1 = Len(p) BY <1>2, <1>4, <1>5, <1>6
    <3> QED BY <3>1, ParentMeans
  <2>2. \A i \in 1 .. Len(p) : Parent(c)[i] = c[i] BY <2>1, <1>5, UnderMeans
  <2>3. \A i \in 1 .. Len(p) : Parent(c)[i] = p[i] BY <1>2, <1>4, <2>2
  <2> QED BY <2>1, <2>3, SamePath
<1> QED BY <1>5, <1>6, <1>7

\* The entries of a directory, as the model lists them.
LEMMA ChildMeans ==
  ASSUME NEW c \in Paths, NEW p \in Paths
  PROVE  Len(c) = Len(p) + 1 /\ Under(c, p) <=> c \notin Top /\ Parent(c) = p
<1>1. Len(c) \in Nat /\ Len(p) \in Nat \ {0} BY PathMeans
<1>2. ASSUME Len(c) = Len(p) + 1, Under(c, p) PROVE c \notin Top /\ Parent(c) = p
  <2>1. c # p /\ c \notin Top BY <1>1, <1>2, PathMeans
  <2>2. Parent(c) \in Paths /\ Len(Parent(c)) = Len(p) /\ Under(Parent(c), p)
    <3>1. c \in Paths \ Top /\ Len(c) - 1 = Len(p) BY <1>1, <1>2, <2>1
    <3> QED BY <1>2, <2>1, <3>1, ParentMeans
  <2>3. Parent(c) = p BY <2>2, UnderMeans, SamePath
  <2> QED BY <2>1, <2>3
<1>3. ASSUME c \notin Top, Parent(c) = p PROVE Len(c) = Len(p) + 1 /\ Under(c, p)
  <2>1. Len(p) = Len(c) - 1 /\ Under(c, p) BY <1>3, ParentMeans
  <2> QED BY <1>1, <2>1
<1> QED BY <1>2, <1>3

\* What is closed under the parent is closed under the paths above.
LEMMA Upwards ==
  ASSUME NEW S \in SUBSET Paths, \A x \in S \ Top : Parent(x) \in S,
         NEW x \in S, NEW y \in Paths, Under(x, y)
  PROVE  y \in S
<1> DEFINE P(n) == \A z \in S : Len(z) = n /\ Under(z, y) => y \in S
<1>1. ASSUME NEW z \in S, Under(z, y), y \notin S
      PROVE  z \notin Top /\ Parent(z) \in S /\ Under(Parent(z), y) /\ Len(Parent(z)) = Len(z) - 1
  <2>1. z # y /\ z \in Paths BY <1>1
  <2>2. z \notin Top BY <1>1, <2>1, BelowDirs
  <2> QED BY <1>1, <2>1, <2>2, ParentMeans
<1>2. P(1) BY <1>1, PathMeans
<1>3. ASSUME NEW n \in 1 .. 3, P(n) PROVE P(n + 1)
  BY <1>1, <1>3
<1>4. P(1) /\ P(2) /\ P(3) /\ P(4)
  <2>1. P(1 + 1) BY <1>2, <1>3
  <2>2. P(2) BY <2>1
  <2>3. P(2 + 1) BY <2>2, <1>3
  <2>4. P(3) BY <2>3
  <2>5. P(3 + 1) BY <2>4, <1>3
  <2> QED BY <1>2, <2>2, <2>4, <2>5
<1>5. Len(x) \in {1, 2, 3, 4} BY PathMeans
<1> QED BY <1>4, <1>5

\* What a rename makes of a path.
LEMMA MovedIs ==
  \A x \in Paths, p \in Paths, q \in Paths : Under(x, p) =>
         /\ Moved(x, p, q) \in Seq(Names)
         /\ Len(Moved(x, p, q)) = Len(q) + (Len(x) - Len(p)) /\ Len(x) - Len(p) \in Nat
         /\ \A i \in 1 .. Len(q) : Moved(x, p, q)[i] = q[i]
         /\ \A j \in 1 .. Len(x) - Len(p) : Moved(x, p, q)[Len(q) + j] = x[Len(p) + j]
<1> SUFFICES ASSUME NEW x \in Paths, NEW p \in Paths, NEW q \in Paths, Under(x, p)
             PROVE  /\ Moved(x, p, q) \in Seq(Names)
                    /\ Len(Moved(x, p, q)) = Len(q) + (Len(x) - Len(p)) /\ Len(x) - Len(p) \in Nat
                    /\ \A i \in 1 .. Len(q) : Moved(x, p, q)[i] = q[i]
                    /\ \A j \in 1 .. Len(x) - Len(p) : Moved(x, p, q)[Len(q) + j] = x[Len(p) + j]
  OBVIOUS
<1> DEFINE t == SubSeq(x, Len(p) + 1, Len(x))
           m == q \o t
           k == Len(x) - Len(p)
<1>1. /\ Len(p) \in Nat /\ Len(q) \in Nat /\ Len(x) \in Nat /\ Len(p) <= Len(x)
      /\ q \in Seq(Names) /\ \A i \in 1 .. Len(x) : x[i] \in Names
  BY PathMeans, UnderMeans
<1>2. k \in Nat BY <1>1
<1>3. /\ t \in Seq(Names) /\ Len(t) = k
      /\ \A j \in 1 .. k : t[j] = x[Len(p) + j]
  <2>1. \A i \in Len(p) + 1 .. Len(x) : x[i] \in Names BY <1>1
  <2>2. /\ t \in Seq(Names) /\ Len(t) = IF Len(p) + 1 <= Len(x) THEN Len(x) - (Len(p) + 1) + 1 ELSE 0
        /\ \A i \in 1 .. Len(x) - (Len(p) + 1) + 1 : t[i] = x[Len(p) + 1 + i - 1]
    BY <1>1, <2>1, SubSeqProperties
  <2> HIDE DEF t
  <2>3. Len(t) = k BY <1>1, <2>2
  <2>4. ASSUME NEW j \in 1 .. k PROVE t[j] = x[Len(p) + j]
    <3>1. j \in 1 .. Len(x) - (Len(p) + 1) + 1 /\ Len(p) + 1 + j - 1 = Len(p) + j BY <1>1
    <3> QED BY <2>2, <3>1
  <2> QED BY <2>2, <2>3, <2>4
<1> HIDE DEF t
<1>4. /\ m \in Seq(Names) /\ Len(m) = Len(q) + Len(t)
      /\ \A i \in 1 .. Len(q) + Len(t) : m[i] = IF i <= Len(q) THEN q[i] ELSE t[i - Len(q)]
  BY <1>1, <1>3, ConcatProperties
<1> HIDE DEF m
<1>5. ASSUME NEW i \in 1 .. Len(q) PROVE m[i] = q[i]
  <2>1. Len(q) \in Nat /\ Len(t) \in Nat BY <1>1, <1>2, <1>3
  <2>2. i \in 1 .. Len(q) + Len(t) /\ i <= Len(q) BY <2>1
  <2> QED BY <1>4, <2>2
<1>6. ASSUME NEW j \in 1 .. k PROVE m[Len(q) + j] = x[Len(p) + j]
  <2>1. Len(q) + j \in 1 .. Len(q) + Len(t) /\ ~(Len(q) + j <= Len(q)) /\ Len(q) + j - Len(q) = j
    BY <1>1, <1>2, <1>3
  <2> QED BY <1>3, <1>4, <2>1
<1>7. m = Moved(x, p, q) BY DEF m, t, Moved
<1> QED BY <1>2, <1>3, <1>4, <1>5, <1>6, <1>7

\* A path that moves lies below the new one as it lay below the old one.
LEMMA MovedMeans ==
  ASSUME NEW x \in Paths, NEW p \in Paths \ Top, NEW q \in Paths \ Top, Under(x, p),
         Moved(x, p, q) \in Paths
  PROVE  /\ Under(Moved(x, p, q), q)
         /\ Moved(Moved(x, p, q), q, p) = x
         /\ x = p => Moved(x, p, q) = q
         /\ x # p => /\ Moved(x, p, q) # q /\ Under(Parent(x), p)
                     /\ Parent(Moved(x, p, q)) = Moved(Parent(x), p, q)
<1> DEFINE m == Moved(x, p, q)
           k == Len(x) - Len(p)
<1>1. /\ Len(p) \in Nat \ {0} /\ Len(q) \in Nat \ {0} /\ Len(x) \in Nat
      /\ \A i \in 1 .. Len(p) : p[i] = x[i]
  BY PathMeans, UnderMeans
<1>2. /\ m \in Paths /\ Len(m) = Len(q) + k /\ k \in Nat
      /\ \A i \in 1 .. Len(q) : m[i] = q[i]
      /\ \A j \in 1 .. k : m[Len(q) + j] = x[Len(p) + j]
  <2>1. p \in Paths /\ q \in Paths OBVIOUS
  <2>2. /\ Len(Moved(x, p, q)) = Len(q) + (Len(x) - Len(p)) /\ Len(x) - Len(p) \in Nat
        /\ \A i \in 1 .. Len(q) : Moved(x, p, q)[i] = q[i]
        /\ \A j \in 1 .. Len(x) - Len(p) : Moved(x, p, q)[Len(q) + j] = x[Len(p) + j]
    BY <2>1, MovedIs, Zenon
  <2> QED BY <2>2, Zenon DEF m, k
<1>3. x \in Seq(Names) /\ m \in Seq(Names) BY <1>2, PathMeans
<1> HIDE DEF m
<1>4. Under(m, q)
  <2>1. Len(q) <= Len(m) BY <1>1, <1>2
  <2> QED BY <1>2, <2>1, UnderMeans
<1>5. Moved(m, q, p) = x
  <2> DEFINE z == Moved(m, q, p)
  <2>1. /\ z \in Seq(Names) /\ Len(z) = Len(p) + (Len(m) - Len(q))
        /\ \A i \in 1 .. Len(p) : z[i] = p[i]
        /\ \A j \in 1 .. Len(m) - Len(q) : z[Len(p) + j] = m[Len(q) + j]
    <3>1. m \in Paths /\ p \in Paths /\ q \in Paths BY <1>2
    <3>2. z \in Seq(Names) BY <1>4, <3>1, MovedIs
    <3>3. Len(z) = Len(p) + (Len(m) - Len(q)) BY <1>4, <3>1, MovedIs
    <3>4. \A i \in 1 .. Len(p) : z[i] = p[i] BY <1>4, <3>1, MovedIs
    <3>5. \A j \in 1 .. Len(m) - Len(q) : z[Len(p) + j] = m[Len(q) + j] BY <1>4, <3>1, MovedIs
    <3> QED BY <3>2, <3>3, <3>4, <3>5
  <2> HIDE DEF z
  <2>2. Len(m) - Len(q) = k /\ Len(z) = Len(x) BY <1>1, <1>2, <2>1
  <2>3. ASSUME NEW i \in 1 .. Len(x) PROVE z[i] = x[i]
    <3>1. CASE i <= Len(p) BY <1>1, <2>1, <3>1
    <3>2. CASE ~(i <= Len(p))
      <4>1. i - Len(p) \in 1 .. k /\ Len(p) + (i - Len(p)) = i BY <1>1, <1>2, <3>2
      <4> QED BY <1>2, <2>1, <2>2, <4>1
    <3> QED BY <3>1, <3>2
  <2>4. z = x BY <1>3, <2>1, <2>2, <2>3, SeqEqual
  <2> QED BY <2>4 DEF z
<1>6. ASSUME x = p PROVE m = q
  <2>1. Len(m) = Len(q) BY <1>1, <1>2, <1>6
  <2> QED BY <1>2, <2>1, SamePath
<1>7. ASSUME x # p PROVE m # q /\ Under(Parent(x), p) /\ Parent(m) = Moved(Parent(x), p, q)
  <2>1. k \in Nat \ {0} BY <1>1, <1>2, <1>7, BelowDirs
  <2>2. Len(m) > Len(q) /\ m # q BY <1>1, <1>2, <2>1
  <2>3. x \notin Top BY <1>7, BelowDirs
  <2>4. Parent(x) \in Paths /\ Len(Parent(x)) = Len(x) - 1 /\ Under(Parent(x), p) /\ Under(x, Parent(x))
    BY <1>7, <2>3, ParentMeans
  <2>5. m \notin Top BY <1>2, <1>4, <2>2, BelowDirs
  <2>6. Parent(m) \in Paths /\ Len(Parent(m)) = Len(m) - 1 /\ Under(m, Parent(m))
    BY <1>2, <2>5, ParentMeans
  <2> DEFINE z == Moved(Parent(x), p, q)
             y == Parent(x)
             n == Parent(m)
  <2>7. /\ z \in Seq(Names) /\ Len(z) = Len(q) + (Len(y) - Len(p))
        /\ \A i \in 1 .. Len(q) : z[i] = q[i]
        /\ \A j \in 1 .. Len(y) - Len(p) : z[Len(q) + j] = y[Len(p) + j]
    <3>1. y \in Paths /\ p \in Paths /\ q \in Paths /\ Under(y, p) BY <2>4
    <3>2. z \in Seq(Names) BY <3>1, MovedIs
    <3>3. Len(z) = Len(q) + (Len(y) - Len(p)) BY <3>1, MovedIs
    <3>4. \A i \in 1 .. Len(q) : z[i] = q[i] BY <3>1, MovedIs
    <3>5. \A j \in 1 .. Len(y) - Len(p) : z[Len(q) + j] = y[Len(p) + j] BY <3>1, MovedIs
    <3> QED BY <3>2, <3>3, <3>4, <3>5
  <2>8. n \in Seq(Names) /\ \A i \in 1 .. Len(n) : n[i] = m[i] BY <1>2, <2>6, UnderMeans, PathMeans
  <2>9. \A i \in 1 .. Len(y) : y[i] = x[i] BY <2>4, UnderMeans
  <2> HIDE DEF z, y, n
  <2>10. Len(y) = Len(x) - 1 /\ Len(n) = Len(m) - 1 BY <2>4, <2>6 DEF y, n
  <2>11. Len(z) = Len(n) /\ Len(n) = Len(q) + (k - 1) BY <1>1, <1>2, <2>1, <2>7, <2>10
  <2>12. ASSUME NEW i \in 1 .. Len(n) PROVE z[i] = n[i]
    <3>1. CASE i <= Len(q) BY <1>1, <1>2, <2>7, <2>8, <2>11, <3>1
    <3>2. CASE ~(i <= Len(q))
      <4> DEFINE j == i - Len(q)
      <4>1. /\ j \in 1 .. k - 1 /\ j \in 1 .. k /\ Len(q) + j = i
            /\ j \in 1 .. Len(y) - Len(p)
            /\ Len(p) + j \in 1 .. Len(y)
        BY <1>1, <1>2, <2>1, <2>10, <2>11, <3>2
      <4> HIDE DEF j
      <4>2. n[i] = x[Len(p) + j] BY <1>2, <2>8, <4>1
      <4>3. z[i] = y[Len(p) + j] BY <2>7, <4>1
      <4> QED BY <2>9, <4>1, <4>2, <4>3
    <3> QED BY <3>1, <3>2
  <2>13. z = n BY <2>7, <2>8, <2>11, <2>12, SeqEqual
  <2> QED BY <2>2, <2>4, <2>13 DEF z, n, y
<1> QED BY <1>4, <1>5, <1>6, <1>7 DEF m

\* The source, what lies in it and what lies elsewhere.
LEMMA SrcMeans ==
  /\ Src \in SrcPaths /\ Src \in DirPaths /\ Src \in Top /\ Out \in Paths
  /\ SrcPaths \subseteq Paths /\ DirPaths \subseteq Paths /\ Top \subseteq DirPaths
  /\ \A p \in SrcPaths : Under(p, Src) /\ (Under(Src, p) => p = Src)
  /\ \A p \in SrcPaths \ {Src} :
       p \in Paths \ Top /\ Parent(p) \in SrcPaths /\ Parent(p) \in DirPaths /\ Parent(p) # p /\ Under(p, Parent(p))
  /\ \A p \in Paths, q \in SrcPaths : Under(p, q) => p \in SrcPaths
  /\ \A p \in Paths \ Top : Parent(p) \in SrcPaths => p \in SrcPaths /\ p # Src
<1>1. Src \in DirPaths /\ Src \in Top /\ Src \in Paths /\ Out \in Paths /\ DirPaths \subseteq Paths
      /\ Top \subseteq DirPaths
  BY DEF Top, DirPaths, Paths
<1>2. Under(Src, Src) BY <1>1, UnderOrders
<1>3. \A p : p \in SrcPaths <=> p \in Paths /\ Under(p, Src) BY DEF SrcPaths
<1>4. \A p \in SrcPaths : Under(p, Src) /\ (Under(Src, p) => p = Src) BY <1>1, <1>3, UnderOrders
<1>5. ASSUME NEW p \in SrcPaths \ {Src}
      PROVE  p \in Paths \ Top /\ Parent(p) \in SrcPaths /\ Parent(p) \in DirPaths /\ Parent(p) # p
             /\ Under(p, Parent(p))
  <2>1. p \in Paths \ Top BY <1>1, <1>3, <1>5, BelowDirs
  <2>2. Under(Parent(p), Src) BY <1>1, <1>3, <1>5, <2>1, ParentMeans
  <2> QED BY <1>3, <2>1, <2>2, ParentMeans
<1>6. \A p \in Paths, q \in SrcPaths : Under(p, q) => p \in SrcPaths BY <1>1, <1>3, UnderOrders
<1>7. ASSUME NEW p \in Paths \ Top, Parent(p) \in SrcPaths PROVE p \in SrcPaths /\ p # Src
  <2>1. Under(p, Parent(p)) BY ParentMeans
  <2> QED BY <1>1, <1>6, <1>7, <2>1
<1> QED BY <1>1, <1>2, <1>3, <1>4, <1>5, <1>6, <1>7

-----------------------------------------------------------------------------
(* Sequences of events and of entries.                                     *)

\* The elements of a sequence.
LEMMA ToSetMeans ==
  /\ \A S : \A s \in Seq(S) : \A e : e \in ToSet(s) <=> \E i \in 1 .. Len(s) : s[i] = e
  /\ \A S : \A s \in Seq(S) : ToSet(s) \subseteq S /\ (ToSet(s) = {} <=> s = <<>>)
  /\ ToSet(<<>>) = {}
<1>1. ASSUME NEW S, NEW s \in Seq(S), NEW e
      PROVE  e \in ToSet(s) <=> \E i \in 1 .. Len(s) : s[i] = e
  <2>1. DOMAIN s = 1 .. Len(s) BY LenProperties
  <2> QED BY <2>1 DEF ToSet
<1>2. ASSUME NEW S, NEW s \in Seq(S) PROVE ToSet(s) \subseteq S /\ (ToSet(s) = {} <=> s = <<>>)
  <2>1. ToSet(s) \subseteq S BY <1>1, ElementOfSeq
  <2>2. Len(s) \in Nat BY LenProperties
  <2>3. s # <<>> => s[1] \in ToSet(s)
    <3>1. s # <<>> => Len(s) \in Nat \ {0} BY EmptySeq
    <3>2. s # <<>> => 1 \in 1 .. Len(s) BY <3>1
    <3> QED BY <1>1, <3>2
  <2>4. s = <<>> => ToSet(s) = {} BY DEF ToSet
  <2> QED BY <2>1, <2>3, <2>4
<1>3. ToSet(<<>>) = {} BY DEF ToSet
<1> QED BY <1>1, <1>2, <1>3

\* The elements of a sequence with one more at its end.
LEMMA ToSetAppend ==
  \A S : \A s \in Seq(S), e \in S :
    /\ Append(s, e) \in Seq(S) /\ ToSet(Append(s, e)) = ToSet(s) \cup {e}
    /\ Len(Append(s, e)) = Len(s) + 1 /\ Len(s) \in Nat
    /\ \A i \in 1 .. Len(s) : Append(s, e)[i] = s[i]
    /\ Append(s, e)[Len(s) + 1] = e
<1> SUFFICES ASSUME NEW S, NEW s \in Seq(S), NEW e \in S
             PROVE  /\ Append(s, e) \in Seq(S) /\ ToSet(Append(s, e)) = ToSet(s) \cup {e}
                    /\ Len(Append(s, e)) = Len(s) + 1 /\ Len(s) \in Nat
                    /\ \A i \in 1 .. Len(s) : Append(s, e)[i] = s[i]
                    /\ Append(s, e)[Len(s) + 1] = e
  OBVIOUS
<1> DEFINE t == Append(s, e)
<1>1. /\ t \in Seq(S) /\ Len(t) = Len(s) + 1 /\ \A i \in 1 .. Len(s) : t[i] = s[i]
      /\ t[Len(s) + 1] = e
  BY AppendProperties
<1>2. Len(s) \in Nat BY LenProperties
<1> HIDE DEF t
<1>3. \A i : i \in 1 .. Len(t) <=> i \in 1 .. Len(s) \/ i = Len(s) + 1 BY <1>1, <1>2
<1>4. \A x : x \in ToSet(t) <=> x \in ToSet(s) \/ x = e BY <1>1, <1>3, ToSetMeans
<1>5. ToSet(t) = ToSet(s) \cup {e} BY <1>4
<1> QED BY <1>1, <1>2, <1>5 DEF t

\* The elements of a sequence without its first.
LEMMA ToSetTail ==
  \A S : \A s \in Seq(S) \ {<<>>} :
    /\ Head(s) \in S /\ Tail(s) \in Seq(S) /\ Head(s) = s[1]
    /\ ToSet(s) = {Head(s)} \cup ToSet(Tail(s))
    /\ Len(s) \in Nat \ {0} /\ Len(Tail(s)) = Len(s) - 1
    /\ \A i \in 1 .. Len(Tail(s)) : Tail(s)[i] = s[i + 1]
<1> SUFFICES ASSUME NEW S, NEW s \in Seq(S) \ {<<>>}
             PROVE  /\ Head(s) \in S /\ Tail(s) \in Seq(S) /\ Head(s) = s[1]
                    /\ ToSet(s) = {Head(s)} \cup ToSet(Tail(s))
                    /\ Len(s) \in Nat \ {0} /\ Len(Tail(s)) = Len(s) - 1
                    /\ \A i \in 1 .. Len(Tail(s)) : Tail(s)[i] = s[i + 1]
  OBVIOUS
<1> DEFINE t == Tail(s)
<1>1. /\ Head(s) \in S /\ t \in Seq(S) /\ Len(t) = Len(s) - 1
      /\ \A i \in 1 .. Len(t) : t[i] = s[i + 1]
  BY HeadTailProperties
<1>2. Head(s) = s[1] /\ Len(s) \in Nat \ {0} BY EmptySeq
<1> HIDE DEF t
<1>3. ASSUME NEW x \in ToSet(s) PROVE x = s[1] \/ x \in ToSet(t)
  <2>1. PICK i \in 1 .. Len(s) : s[i] = x BY ToSetMeans
  <2>2. CASE i = 1 BY <2>1, <2>2
  <2>3. CASE i # 1
    <3>1. i - 1 \in 1 .. Len(t) /\ (i - 1) + 1 = i BY <1>1, <1>2, <2>3
    <3>2. t[i - 1] = x BY <1>1, <2>1, <3>1
    <3> QED BY <1>1, <3>1, <3>2, ToSetMeans
  <2> QED BY <2>2, <2>3
<1>4. ASSUME NEW x \in ToSet(t) PROVE x \in ToSet(s)
  <2>1. PICK i \in 1 .. Len(t) : t[i] = x BY <1>1, ToSetMeans
  <2>2. i + 1 \in 1 .. Len(s) /\ s[i + 1] = x BY <1>1, <1>2, <2>1
  <2> QED BY <2>2, ToSetMeans
<1>5. s[1] \in ToSet(s)
  <2>1. 1 \in 1 .. Len(s) BY <1>2
  <2> QED BY <2>1, ToSetMeans
<1>6. ToSet(s) = {Head(s)} \cup ToSet(t) BY <1>2, <1>3, <1>4, <1>5
<1> QED BY <1>1, <1>2, <1>6 DEF t

\* A set of numbers has a least one.
LEMMA LeastNumber ==
  ASSUME NEW I \in SUBSET Nat, I # {}
  PROVE  Min(I) \in I
<1> DEFINE R == {ss \in Nat \X Nat : ss[1] < ss[2]}
<1>1. IsWellFoundedOn(R, Nat) BY NatLessThanWellFounded DEF OpToRel
<1>2. \E m \in I : \A j \in I : ~(<<j, m>> \in R)
  <2> HIDE DEF R
  <2> QED BY <1>1, WFMin
<1>3. \E m \in I : \A j \in I : m <= j
  <2>1. PICK m \in I : \A j \in I : ~(<<j, m>> \in R) BY <1>2
  <2>2. ASSUME NEW j \in I PROVE m <= j
    <3>1. <<j, m>> \in Nat \X Nat /\ ~(<<j, m>> \in R) BY <2>1
    <3>2. ~(j < m) BY <3>1
    <3> QED BY <3>2
  <2> QED BY <2>2
<1> QED BY <1>3 DEF Min

\* What a search of the table finds.
LEMMA FindMeans ==
  ASSUME map \in Seq(Entries)
  PROVE  \A wd :
           /\ WatchMapFind(wd) # 0 <=> \E w \in ToSet(map) : w.wd = wd
           /\ WatchMapFind(wd) # 0 =>
                /\ WatchMapFind(wd) \in 1 .. Len(map)
                /\ map[WatchMapFind(wd)] \in ToSet(map) /\ map[WatchMapFind(wd)].wd = wd
<1> SUFFICES ASSUME NEW wd
             PROVE  /\ WatchMapFind(wd) # 0 <=> \E w \in ToSet(map) : w.wd = wd
                    /\ WatchMapFind(wd) # 0 =>
                         /\ WatchMapFind(wd) \in 1 .. Len(map)
                         /\ map[WatchMapFind(wd)] \in ToSet(map) /\ map[WatchMapFind(wd)].wd = wd
  OBVIOUS
<1> DEFINE I == {i \in 1 .. Len(map) : map[i].wd = wd}
           k == WatchMapFind(wd)
<1>1. k = IF I # {} THEN Min(I) ELSE 0 BY DEF WatchMapFind, SelectInSeq
<1>2. Len(map) \in Nat BY LenProperties
<1>3. I # {} => Min(I) \in I
  <2>1. I \in SUBSET Nat BY <1>2
  <2> HIDE DEF I
  <2> QED BY <2>1, LeastNumber
<1>4. I # {} <=> \E w \in ToSet(map) : w.wd = wd BY ToSetMeans
<1>5. I = {} => k = 0 BY <1>1
<1>6. I # {} => k \in 1 .. Len(map) /\ map[k].wd = wd BY <1>1, <1>3
<1> HIDE DEF I, k
<1>7. I # {} => map[k] \in ToSet(map) BY <1>6, ToSetMeans
<1>8. I # {} => k # 0 BY <1>2, <1>6
<1> QED BY <1>4, <1>5, <1>6, <1>7, <1>8 DEF k

\* What the sweep finds in the table lies under the directory that has gone.
LEMMA FindUnder ==
  ASSUME map \in Seq(Entries)
  PROVE  LET i == SelectInSeq(map, LAMBDA w : Under(w.path, gone)) IN
         i # 0 => i \in 1 .. Len(map) /\ map[i] \in ToSet(map) /\ Under(map[i].path, gone)
<1> DEFINE I == {i \in 1 .. Len(map) : Under(map[i].path, gone)}
           k == SelectInSeq(map, LAMBDA w : Under(w.path, gone))
<1>1. k = IF I # {} THEN Min(I) ELSE 0 BY DEF SelectInSeq
<1>2. Len(map) \in Nat BY LenProperties
<1>3. I # {} => Min(I) \in I
  <2>1. I \in SUBSET Nat BY <1>2
  <2> HIDE DEF I
  <2> QED BY <2>1, LeastNumber
<1>4. k # 0 => k \in I BY <1>1, <1>3
<1> HIDE DEF k
<1>5. k # 0 => k \in 1 .. Len(map) /\ Under(map[k].path, gone) BY <1>4
<1>6. k # 0 => map[k] \in ToSet(map) BY <1>5, ToSetMeans
<1> QED BY <1>5, <1>6 DEF k

\* An entry is removed from the table, and no other.
LEMMA RemoveSwapMeans ==
  \A m \in Seq(Entries) : \A i \in 1 .. Len(m) : OneEach(m) =>
    /\ RemoveSwap(m, i) \in Seq(Entries) /\ OneEach(RemoveSwap(m, i))
    /\ ToSet(RemoveSwap(m, i)) = ToSet(m) \ {m[i]}
    /\ Len(RemoveSwap(m, i)) = Len(m) - 1 /\ Len(m) \in Nat
<1> SUFFICES ASSUME NEW m \in Seq(Entries), NEW i \in 1 .. Len(m), OneEach(m)
             PROVE  /\ RemoveSwap(m, i) \in Seq(Entries) /\ OneEach(RemoveSwap(m, i))
                    /\ ToSet(RemoveSwap(m, i)) = ToSet(m) \ {m[i]}
                    /\ Len(RemoveSwap(m, i)) = Len(m) - 1 /\ Len(m) \in Nat
  OBVIOUS
<1> DEFINE n == Len(m) - 1
           a == [m EXCEPT ![i] = Last(m)]
           t == SubSeq(a, 1, n)
           From(j) == IF j = i THEN n + 1 ELSE j
<1>1. Len(m) \in Nat \ {0} /\ n \in Nat /\ Len(m) = n + 1 BY LenProperties
<1>2. Last(m) = m[n + 1] /\ Last(m) \in Entries BY <1>1, ElementOfSeq DEF Last
<1>3. /\ a \in Seq(Entries) /\ Len(a) = Len(m)
      /\ \A j \in 1 .. Len(m) : a[j] = IF j = i THEN Last(m) ELSE m[j]
  BY <1>2, ExceptSeq
<1> HIDE DEF a
<1>4. t \in Seq(Entries) /\ Len(t) = n /\ \A j \in 1 .. n : t[j] = a[j]
  <2>1. \A j \in 1 .. n : a[j] \in Entries BY <1>1, <1>3, ElementOfSeq
  <2> QED BY <1>1, <2>1, SubSeqProperties
<1>5. RemoveSwap(m, i) = t BY <1>1 DEF RemoveSwap, a
<1> HIDE DEF t, n
<1>14. i \in 1 .. n + 1 BY <1>1
<1>6. \A j \in 1 .. n : t[j] = m[From(j)] /\ From(j) \in 1 .. Len(m) /\ From(j) # i
  <2> SUFFICES ASSUME NEW j \in 1 .. n
               PROVE  t[j] = m[From(j)] /\ From(j) \in 1 .. Len(m) /\ From(j) # i
    OBVIOUS
  <2>1. j \in 1 .. Len(m) /\ n + 1 \in 1 .. Len(m) /\ j # n + 1 BY <1>1
  <2>2. t[j] = IF j = i THEN m[n + 1] ELSE m[j] BY <1>2, <1>3, <1>4, <2>1
  <2> QED BY <2>1, <2>2
<1>7. \A j, k \in 1 .. n : From(j) = From(k) => j = k BY <1>1
<1>8. \A j \in 1 .. Len(m) \ {i} : \E k \in 1 .. n : From(k) = j
  <2> SUFFICES ASSUME NEW j \in 1 .. Len(m), j # i PROVE \E k \in 1 .. n : From(k) = j
    OBVIOUS
  <2>1. CASE j = n + 1
    <3>1. i \in 1 .. n BY <1>1, <1>14, <2>1
    <3>2. From(i) = j BY <2>1
    <3> QED BY <3>1, <3>2
  <2>2. CASE j # n + 1
    <3>1. j \in 1 .. n BY <1>1, <2>2
    <3>2. From(j) = j OBVIOUS
    <3> QED BY <3>1, <3>2
  <2> QED BY <2>1, <2>2
<1> HIDE DEF From
<1>9. DOMAIN m = 1 .. Len(m) /\ DOMAIN t = 1 .. n BY <1>4, LenProperties
<1>10. OneEach(t) BY <1>6, <1>7, <1>9 DEF OneEach
<1>11. ASSUME NEW x \in ToSet(t) PROVE x \in ToSet(m) /\ x # m[i]
  <2>1. PICK j \in 1 .. n : x = t[j] BY <1>4, ToSetMeans
  <2>2. x = m[From(j)] /\ From(j) \in 1 .. Len(m) /\ From(j) # i BY <1>6, <2>1
  <2>3. x # m[i] BY <1>9, <2>2 DEF OneEach
  <2> QED BY <2>2, <2>3, ToSetMeans
<1>12. ASSUME NEW x \in ToSet(m), x # m[i] PROVE x \in ToSet(t)
  <2>1. PICK j \in 1 .. Len(m) : x = m[j] BY ToSetMeans
  <2>2. PICK k \in 1 .. n : From(k) = j BY <1>8, <1>12, <2>1
  <2>3. x = t[k] BY <1>6, <2>1, <2>2
  <2> QED BY <1>4, <2>3, ToSetMeans
<1>13. ToSet(t) = ToSet(m) \ {m[i]} BY <1>11, <1>12
<1> QED BY <1>1, <1>4, <1>5, <1>10, <1>13 DEF n

-----------------------------------------------------------------------------
(* What the type invariant says.                                           *)

\* The bounds are numbers.
LEMMA Bounds == MaxOps \in Nat /\ QueueMax \in Nat /\ Len(Initial) \in Nat
<1>1. Initial \in Seq(Paths) BY TreeAssumption
<1> QED BY <1>1, LenProperties, TreeAssumption

\* Inodes are numbers; 0 stands for none.
LEMMA InodesMeans == Inodes \subseteq Nat /\ 0 \in Inodes /\ 1 \in Inodes
<1>1. Len(Initial) # 0
  <2>1. ToSet(Initial) # {} BY TreeAssumption DEF Top
  <2>2. Initial \in Seq(Paths) BY TreeAssumption
  <2>3. Initial # <<>> BY <2>1, ToSetMeans
  <2> QED BY <2>2, <2>3, EmptySeq
<1> QED BY <1>1, Bounds DEF Inodes

\* What the kernel will report, and the event that becomes of it.
LEMMA ReportMeans ==
  ASSUME TypeOK, NEW d \in Reports
  PROVE  /\ Event(d) \in Events /\ Event(d).wd = wdOf[d.dir]
         /\ Event(d).wd \in Nat /\ Event(d).wd <= lastWd
         /\ Event(d).kind = (IF d.kind = "write" THEN "modify" ELSE d.kind)
         /\ Event(d).name = (IF d.kind \in OfSelf THEN "" ELSE Name(d.path))
         /\ Event(d).isdir = (d.kind \notin OfSelf /\ IsDir(d.path))
         /\ Event(d).cookie = d.cookie /\ d.cookie \in 0 .. MaxOps
         /\ d.path \in Paths \ Top /\ d.dir \in Inodes
<1> DEFINE k == IF d.kind = "write" THEN "modify" ELSE d.kind
           n == IF d.kind \in OfSelf THEN "" ELSE Name(d.path)
           b == d.kind \notin OfSelf /\ IsDir(d.path)
<1>1. d.path \in Paths \ Top /\ d.dir \in Inodes /\ d.cookie \in 0 .. MaxOps BY DEF Reports
<1>2. lastWd \in Nat /\ wdOf \in [Inodes -> 0 .. lastWd] BY DEF TypeOK, TreeTypeOK
<1>3. wdOf[d.dir] \in Nat /\ wdOf[d.dir] <= lastWd BY <1>1, <1>2
<1>4. k \in Kinds BY DEF Reports, Kinds
<1>5. n \in DirNames \cup FileNames \cup {""} BY <1>1, ParentMeans
<1>6. d.cookie \in Nat BY <1>1, Bounds
<1>7. b \in BOOLEAN OBVIOUS
<1>8. Event(d) = [wd |-> wdOf[d.dir], kind |-> k, name |-> n, isdir |-> b, cookie |-> d.cookie]
  BY DEF Event
<1> HIDE DEF k, n, b
<1>9. Event(d) \in Events
  <2>1. \A w \in Nat, x \in Kinds, m \in DirNames \cup FileNames \cup {""}, c \in Nat, y \in BOOLEAN :
          [wd |-> w, kind |-> x, name |-> m, isdir |-> y, cookie |-> c] \in Events
    BY DEF Events
  <2> QED BY <1>3, <1>4, <1>5, <1>6, <1>7, <1>8, <2>1
<1>10. /\ Event(d).wd = wdOf[d.dir] /\ Event(d).cookie = d.cookie /\ Event(d).kind = k
       /\ Event(d).name = n /\ Event(d).isdir = b
  BY <1>8
<1> QED BY <1>1, <1>3, <1>9, <1>10 DEF k, n, b

\* What the type invariant says of each variable.
LEMMA Types ==
  ASSUME TypeOK
  PROVE  /\ \A p \in Paths : node[p] \in Inodes /\ node[p] \in Nat
         /\ \A i \in Inodes : wdOf[i] \in Nat /\ wdOf[i] <= lastWd
         /\ lastWd \in Nat /\ ops \in Nat
         /\ queue \in Seq(Events) /\ inbuf \in Seq(Events) /\ map \in Seq(Entries)
         /\ doing \in Seq(Reports)
         /\ \A w \in ToSet(map) : /\ w.wd \in Nat /\ w.wd # 0 /\ w.wd <= lastWd
                                  /\ w.path \in DirPaths /\ w.path \in SrcPaths /\ w.path \in Paths
                                  /\ w = [wd |-> w.wd, path |-> w.path]
         /\ \A e \in Pending : e \in Events /\ e.wd \in Nat /\ e.wd # 0 /\ e.wd <= lastWd
         /\ \A p \in SrcPaths : dst[p] \in Inodes /\ dst[p] \in Nat
<1>1. \A p \in Paths : node[p] \in Inodes /\ node[p] \in Nat
  <2>1. node \in [Paths -> Inodes] BY DEF TypeOK, TreeTypeOK
  <2> QED BY <2>1, InodesMeans
<1>2. lastWd \in Nat /\ ops \in Nat
  <2>1. lastWd \in Nat /\ ops \in 0 .. MaxOps BY DEF TypeOK, TreeTypeOK
  <2> QED BY <2>1, Bounds
<1>3. \A i \in Inodes : wdOf[i] \in Nat /\ wdOf[i] <= lastWd
  <2>1. wdOf \in [Inodes -> 0 .. lastWd] BY DEF TypeOK, TreeTypeOK
  <2> QED BY <1>2, <2>1
<1>4. queue \in Seq(Events) /\ inbuf \in Seq(Events) /\ map \in Seq(Entries) /\ doing \in Seq(Reports)
  BY DEF TypeOK, TreeTypeOK
<1>5. ASSUME NEW w \in ToSet(map)
      PROVE  /\ w.wd \in Nat /\ w.wd # 0 /\ w.wd <= lastWd
             /\ w.path \in DirPaths /\ w.path \in SrcPaths /\ w.path \in Paths
             /\ w = [wd |-> w.wd, path |-> w.path]
  <2>1. w.wd \in 1 .. lastWd BY DEF TypeOK
  <2>2. w \in Entries BY <1>4, ToSetMeans
  <2>3. w.path \in DirPaths /\ w.path \in SrcPaths /\ w = [wd |-> w.wd, path |-> w.path] BY <2>2 DEF Entries
  <2> QED BY <1>2, <2>1, <2>3, SrcMeans
<1>6. ASSUME NEW e \in Pending PROVE e \in Events /\ e.wd \in Nat /\ e.wd # 0 /\ e.wd <= lastWd
  <2>1. CASE e \in ToSet(inbuf)
    <3>1. e \in Events BY <1>4, <2>1, ToSetMeans
    <3>2. e.wd \in 1 .. lastWd BY <2>1 DEF TypeOK
    <3> QED BY <1>2, <3>1, <3>2
  <2>2. CASE e \in ToSet(queue)
    <3>1. e \in Events BY <1>4, <2>2, ToSetMeans
    <3>2. e.wd \in 1 .. lastWd BY <2>2 DEF TypeOK, TreeTypeOK, ToSet
    <3> QED BY <1>2, <3>1, <3>2
  <2>3. CASE e \in Coming
    <3>1. PICK d \in ToSet(doing) : e = Event(d) /\ e.wd # 0 BY <2>3 DEF Coming
    <3>2. d \in Reports BY <1>4, ToSetMeans
    <3> QED BY <3>1, <3>2, ReportMeans
  <2> QED BY <2>1, <2>2, <2>3 DEF Pending
<1>7. \A p \in SrcPaths : dst[p] \in Inodes /\ dst[p] \in Nat
  <2>1. dst \in [SrcPaths -> Inodes] BY DEF TypeOK
  <2> QED BY <2>1, InodesMeans
<1> QED BY <1>1, <1>2, <1>3, <1>4, <1>5, <1>6, <1>7

\* The worker's own steps leave alone what the restore and the histories of a change hold.
Aside ==
  /\ UNCHANGED <<restore, hist>>
  /\ heard' = (heard \/ (pc = "read" /\ Telling(queue)))

\* ... and what is known then.
LEMMA AsideMeans ==
  ASSUME TypeOK, Aside
  PROVE  /\ UNCHANGED <<toRestore, toKeep, kept, before, after, half>> /\ heard' \in BOOLEAN
         /\ heard => heard'
         /\ heard' => heard \/ (pc = "read" /\ Telling(queue))
         /\ pc = "read" /\ Telling(queue) => heard'
<1>1. UNCHANGED <<toRestore, toKeep, kept, before, after, half>> BY DEF Aside, restore, hist
<1>2. heard' \in BOOLEAN BY DEF Aside
<1>3. heard \in BOOLEAN BY DEF TypeOK
<1>4. ASSUME heard = TRUE PROVE heard' = TRUE BY <1>4 DEF Aside
<1>5. ASSUME heard = FALSE PROVE heard' = (pc = "read" /\ Telling(queue)) BY <1>5 DEF Aside
<1> QED BY <1>1, <1>2, <1>3, <1>4, <1>5

\* What is to come depends on the watches alone.
LEMMA SameComing ==
  ASSUME UNCHANGED <<wdOf, doing>>
  PROVE  Coming' = Coming /\ \A d : Event(d)' = Event(d)
<1>1. \A d : Event(d)' = Event(d) BY DEF Event
<1>2. ToSet(doing)' = ToSet(doing) OBVIOUS
<1> QED BY <1>1, <1>2 DEF Coming

-----------------------------------------------------------------------------
(* inotify.                                                                *)

KernelStates == [queue : Seq(Events), overflow : BOOLEAN]

\* An event is queued, unless no one watches its directory or it repeats the last one.
LEMMA PostMeans ==
  \A k \in KernelStates, e \in Events :
    /\ Post(k, e) \in KernelStates
    /\ k.overflow => Post(k, e).overflow
    /\ ~Post(k, e).overflow =>
         /\ Post(k, e).queue = k.queue \/ (e.wd # 0 /\ Post(k, e).queue = Append(k.queue, e))
         /\ e.wd # 0 => ToSet(Post(k, e).queue) = ToSet(k.queue) \cup {e}
         /\ e.wd = 0 => Post(k, e).queue = k.queue
    /\ Len(k.queue) <= QueueMax => Len(Post(k, e).queue) <= QueueMax
<1> SUFFICES ASSUME NEW k \in KernelStates, NEW e \in Events
             PROVE  /\ Post(k, e) \in KernelStates
                    /\ k.overflow => Post(k, e).overflow
                    /\ ~Post(k, e).overflow =>
                         /\ Post(k, e).queue = k.queue \/ (e.wd # 0 /\ Post(k, e).queue = Append(k.queue, e))
                         /\ e.wd # 0 => ToSet(Post(k, e).queue) = ToSet(k.queue) \cup {e}
                         /\ e.wd = 0 => Post(k, e).queue = k.queue
                    /\ Len(k.queue) <= QueueMax => Len(Post(k, e).queue) <= QueueMax
  OBVIOUS
<1>1. k.queue \in Seq(Events) /\ k.overflow \in BOOLEAN BY DEF KernelStates
<1>2. /\ Append(k.queue, e) \in Seq(Events) /\ ToSet(Append(k.queue, e)) = ToSet(k.queue) \cup {e}
      /\ Len(Append(k.queue, e)) = Len(k.queue) + 1 /\ Len(k.queue) \in Nat
  BY <1>1, ToSetAppend
<1>3. CASE e.wd = 0
  <2>1. Post(k, e) = k BY <1>3 DEF Post
  <2> QED BY <1>3, <2>1
<1>4. CASE e.wd # 0 /\ k.queue # <<>> /\ Last(k.queue) = e
  <2>1. Post(k, e) = k BY <1>4 DEF Post
  <2>2. e \in ToSet(k.queue)
    <3>1. Len(k.queue) \in 1 .. Len(k.queue) BY <1>1, <1>4, EmptySeq
    <3>2. k.queue[Len(k.queue)] = e BY <1>4 DEF Last
    <3> QED BY <1>1, <3>1, <3>2, ToSetMeans
  <2> QED BY <1>4, <2>1, <2>2
<1>5. CASE e.wd # 0 /\ ~(k.queue # <<>> /\ Last(k.queue) = e) /\ Len(k.queue) >= QueueMax
  <2>1. Post(k, e) = [k EXCEPT !.overflow = TRUE] BY <1>5 DEF Post
  <2>2. Post(k, e) \in KernelStates /\ Post(k, e).overflow /\ Post(k, e).queue = k.queue
    BY <2>1 DEF KernelStates
  <2> QED BY <2>2
<1>6. CASE e.wd # 0 /\ ~(k.queue # <<>> /\ Last(k.queue) = e) /\ ~(Len(k.queue) >= QueueMax)
  <2>1. Post(k, e) = [k EXCEPT !.queue = Append(k.queue, e)] BY <1>6 DEF Post
  <2>2. /\ Post(k, e) \in KernelStates /\ Post(k, e).overflow = k.overflow
        /\ Post(k, e).queue = Append(k.queue, e)
    BY <1>2, <2>1 DEF KernelStates
  <2>3. Len(k.queue) + 1 <= QueueMax BY <1>2, <1>6, Bounds
  <2> QED BY <1>2, <1>6, <2>2, <2>3
<1> QED BY <1>3, <1>4, <1>5, <1>6

\* The kernel's queue as a user's change finds it.
LEMMA NowMeans ==
  ASSUME TypeOK
  PROVE  Now \in KernelStates /\ Now.queue = queue /\ Now.overflow = overflow /\ Len(queue) <= QueueMax
BY DEF TypeOK, TreeTypeOK, Now, KernelStates

\* An event after others, if it may follow them.
MayFollow(e, s) == \A x \in ToSet(s) : Precedes(x, e)

\* An event that may follow those of a queue keeps it in order.
LEMMA OrderedAppend ==
  ASSUME NEW s \in Seq(Events), NEW e \in Events, Ordered(s), MayFollow(e, s)
  PROVE  Ordered(Append(s, e))
<1> DEFINE t == Append(s, e)
<1>1. /\ t \in Seq(Events) /\ Len(t) = Len(s) + 1 /\ Len(s) \in Nat
      /\ (\A i \in 1 .. Len(s) : t[i] = s[i]) /\ t[Len(s) + 1] = e
  BY ToSetAppend
<1>2. DOMAIN s = 1 .. Len(s) BY LenProperties
<1> HIDE DEF t
<1>3. DOMAIN t = 1 .. Len(t) BY <1>1, LenProperties
<1>4. ASSUME NEW i \in 1 .. Len(t), NEW j \in 1 .. Len(t), i < j PROVE Precedes(t[i], t[j])
  <2>1. i \in 1 .. Len(s) /\ t[i] = s[i] /\ s[i] \in ToSet(s)
    <3>1. i \in 1 .. Len(s) BY <1>1, <1>4
    <3> QED BY <1>1, <3>1, ToSetMeans
  <2>2. CASE j \in 1 .. Len(s)
    <3>1. t[j] = s[j] BY <1>1, <2>2
    <3> QED BY <1>2, <1>4, <2>1, <2>2, <3>1 DEF Ordered
  <2>3. CASE j = Len(s) + 1
    <3>1. t[j] = e BY <1>1, <2>3
    <3> QED BY <2>1, <3>1 DEF MayFollow
  <2> QED BY <1>1, <2>2, <2>3
<1>5. Ordered(t) BY <1>3, <1>4 DEF Ordered
<1> QED BY <1>5 DEF t

\* ... and the rest of what was in order.
LEMMA OrderedTail ==
  ASSUME NEW s \in Seq(Events), s # <<>>, Ordered(s)
  PROVE  Ordered(Tail(s)) /\ \A e \in ToSet(Tail(s)) : Precedes(Head(s), e)
<1> DEFINE t == Tail(s)
<1>1. /\ t \in Seq(Events) /\ Len(t) = Len(s) - 1 /\ Len(s) \in Nat \ {0} /\ Head(s) = s[1]
      /\ \A i \in 1 .. Len(t) : t[i] = s[i + 1]
  BY ToSetTail
<1> HIDE DEF t
<1>2. DOMAIN s = 1 .. Len(s) /\ DOMAIN t = 1 .. Len(t) BY <1>1, LenProperties
<1>3. \A i \in 1 .. Len(t) : i + 1 \in 1 .. Len(s) /\ 1 < i + 1 BY <1>1
<1>4. 1 \in 1 .. Len(s) BY <1>1
<1>5. Ordered(t)
  <2>1. \A i, j \in 1 .. Len(t) : i < j => i + 1 < j + 1 BY <1>1
  <2> QED BY <1>1, <1>2, <1>3, <2>1 DEF Ordered
<1>6. ASSUME NEW e \in ToSet(t) PROVE Precedes(s[1], e)
  <2>1. PICK i \in 1 .. Len(t) : e = t[i] BY <1>1, ToSetMeans
  <2>2. e = s[i + 1] /\ i + 1 \in 1 .. Len(s) /\ 1 < i + 1 BY <1>1, <1>3, <2>1
  <2> QED BY <1>2, <1>4, <2>2 DEF Ordered
<1> QED BY <1>1, <1>5, <1>6 DEF t

\* A queue that is empty is in order.
LEMMA OrderedEmpty == Ordered(<<>>)
BY DEF Ordered

\* The event that tells of a watch's end.
LEMMA IgnoredMeans ==
  ASSUME NEW wd \in Nat
  PROVE  /\ Ignored(wd) \in Events /\ Ignored(wd).wd = wd /\ Ignored(wd).kind = "ignored"
         /\ Ignored(wd).cookie = 0
BY DEF Ignored, Events, Kinds

-----------------------------------------------------------------------------
(* The invariant while the worker runs, and what keeps its parts.          *)

Live ==
  /\ TypeOK /\ TargetInv
  /\ lost = {} \/ full
  /\ Working

\* What is there lies in directories that are there.
LEMMA ExistsUpwards ==
  ASSUME TypeOK, TreeInv
  PROVE  \A x, y \in Paths : Exists(x) /\ Under(x, y) => Exists(y)
<1> SUFFICES ASSUME NEW x \in Paths, NEW y \in Paths, Exists(x), Under(x, y)
             PROVE  Exists(y)
  OBVIOUS
<1> DEFINE S == {z \in Paths : Exists(z)}
<1>1. \A z \in S \ Top : Parent(z) \in S BY ParentMeans DEF TreeInv
<1> HIDE DEF S
<1>2. S \in SUBSET Paths /\ x \in S BY DEF S
<1>3. y \in S BY <1>1, <1>2, Upwards
<1> QED BY <1>3 DEF S

\* A step that leaves the file systems and the watches alone keeps the tree.
LEMMA SameTree ==
  ASSUME TreeInv, UNCHANGED <<node, ops, wdOf>>
  PROVE  TreeInv'
BY DEF TreeInv, Exists, Fresh, Inodes

\* The events of changes that were not handled.
Changes == {e \in Pending : e.kind \in Announcing \cup Removing}

\* What events announce and remove is read from the events and the table alone.
LEMMA SameNews ==
  ASSUME UNCHANGED <<Changes, map>>
  PROVE  /\ \A p : Announced(p)' <=> Announced(p)
         /\ gone' = gone => \A p : Removed(p)' <=> Removed(p)
<1>1. \A e, p : NamedBy(e, p)' <=> NamedBy(e, p) BY DEF NamedBy
<1> QED BY <1>1 DEF Announced, Removed, Changes

\* A step that leaves the table alone keeps it current, if it keeps the removals due.
LEMMA KeepTable ==
  ASSUME TypeOK, TableInv, UNCHANGED <<node, wdOf, map>>, pc' = "copy0" => pc = "copy0",
         \A p \in DirPaths : Removed(p) => Removed(p)'
  PROVE  TableInv'
<1>1. \A w : Current(w)' <=> Current(w) BY DEF Current, Exists
<1>2. \A p : HasEntry(p)' <=> HasEntry(p) BY DEF HasEntry
<1>3. \A w \in ToSet(map) : w.path \in DirPaths BY Types
<1> QED BY <1>1, <1>2, <1>3 DEF TableInv, Inodes

\* ... and so does one that leaves the events alone as well.
LEMMA SameTable ==
  ASSUME TypeOK, TableInv, UNCHANGED <<node, wdOf, map, Changes, gone>>, pc' = "copy0" => pc = "copy0"
  PROVE  TableInv'
BY SameNews, KeepTable

\* A step that leaves events, table and file system alone keeps what events say.
LEMMA SameEvents ==
  ASSUME EventInv, UNCHANGED <<node, wdOf, map, inbuf, queue, doing>>,
         pc' = "read" => inbuf = <<>>,
         pc' \in {"copy0", "watch0"} => pc \in {"copy0", "watch0"},
         pc' \in {"copy", "watch"} => pc \in {"copy", "watch"}
  PROVE  EventInv'
<1>1. Pending' = Pending /\ \A d : Event(d)' = Event(d) BY SameComing DEF Pending
<1>2. \A w, e : ChangeAt(w, e)' <=> ChangeAt(w, e) BY DEF ChangeAt, Current, Exists
<1>3. \A wd : HasWatch(wd)' <=> HasWatch(wd) BY DEF HasWatch, Inodes
<1>4. (\A e \in Pending : e.kind \in Announcing \cup Removing => \E w \in ToSet(map) : ChangeAt(w, e))'
  BY <1>1, <1>2 DEF EventInv
<1>5. (\A e \in ToSet(inbuf) \cup ToSet(queue) : e.kind = "ignored" => ~HasWatch(e.wd))'
  BY <1>3 DEF EventInv
<1>6. (/\ Ordered(inbuf) /\ Ordered(queue)
       /\ \A i, j \in DOMAIN doing : i < j => Precedes(Event(doing[i]), Event(doing[j]))
       /\ \A e \in ToSet(inbuf), f \in ToSet(queue) : Precedes(e, f)
       /\ \A e \in ToSet(inbuf) \cup ToSet(queue), d \in ToSet(doing) : Precedes(e, Event(d)))'
  BY <1>1 DEF EventInv, Ordered, Precedes
<1>7. (/\ pc = "read" => inbuf = <<>>
       /\ pc \in {"copy0", "watch0"} => inbuf = <<>> /\ queue = <<>> /\ doing = <<>>)'
  BY DEF EventInv
<1>8. (pc \in {"copy", "watch"} => /\ \A e \in Pending : e.kind \notin Announcing \cup Removing
                                   /\ \A d \in ToSet(doing) : d.kind \in OfSelf)'
  BY <1>1 DEF EventInv
<1> QED BY <1>4, <1>5, <1>6, <1>7, <1>8 DEF EventInv

\* A step that leaves the table alone keeps directories watched, if those that are to be stay so.
LEMMA KeepWatch ==
  ASSUME WatchInv, UNCHANGED <<node, wdOf, map>>, lost \subseteq lost',
         \A p \in DirPaths \cap SrcPaths :
           Exists(p) /\ (Announced(p) \/ ToBeWatched(p)) => Announced(p)' \/ ToBeWatched(p)' \/ Lost(p)'
  PROVE  WatchInv'
<1>1. \A w : Current(w)' <=> Current(w) BY DEF Current, Exists
<1>2. \A p : Lost(p) => Lost(p)' BY DEF Lost
<1> QED BY <1>1, <1>2 DEF WatchInv, Exists

\* ... and so does one that leaves the events alone as well.
LEMMA SameWatch ==
  ASSUME WatchInv, UNCHANGED <<node, wdOf, map, Changes>>, lost \subseteq lost',
         \A p \in DirPaths \cap SrcPaths :
           Exists(p) /\ ToBeWatched(p) => ToBeWatched(p)' \/ Lost(p)'
  PROVE  WatchInv'
BY SameNews, KeepWatch

\* A step that leaves the target alone keeps what it owes, if what was due stays due.
LEMMA KeepCopy ==
  ASSUME CopyInv, UNCHANGED <<node, dst>>, lost \subseteq lost',
         \A p \in SrcPaths : Removed(p) => Removed(p)',
         \A p \in SrcPaths : Announced(p) => Announced(p)' \/ \E q \in toCopy' : Under(p, q),
         toCopy \subseteq toCopy'
  PROVE  CopyInv'
<1>1. \A p : (Lost(p) => Lost(p)') /\ (Exists(p)' <=> Exists(p)) BY DEF Lost, Exists
<1>2. \A p : Alike(node, p)' <=> Alike(node, p) BY DEF Alike
<1> QED BY <1>1, <1>2 DEF CopyInv

\* ... and so does one that leaves the events and the walk alone as well.
LEMMA SameCopy ==
  ASSUME CopyInv, UNCHANGED <<node, map, Changes, gone, dst, toCopy>>, lost \subseteq lost'
  PROVE  CopyInv'
BY SameNews, KeepCopy

\* A step that leaves the file system alone keeps what is still to be reported, if the
\* directories of the entries stay watched.
LEMMA KeepDoing ==
  ASSUME DoingInv, UNCHANGED <<node, ops, doing>>, lost \subseteq lost',
         \A d \in ToSet(doing) : d.kind \notin OfSelf /\ d.path \in SrcPaths /\ wdOf[d.dir] # 0
                                   => wdOf'[d.dir] # 0
  PROVE  DoingInv'
<1>1. \A p : (Lost(p) => Lost(p)') /\ (Exists(p)' <=> Exists(p)) BY DEF Lost, Exists
<1>2. Opened' = Opened /\ Written' = Written BY DEF Opened, Written
<1>3. \A i \in DOMAIN doing : doing[i] \in ToSet(doing) BY DEF ToSet
<1> QED BY <1>1, <1>2, <1>3 DEF DoingInv

\* ... and so does one that leaves the watches alone.
LEMMA SameDoing ==
  ASSUME DoingInv, UNCHANGED <<node, ops, doing, wdOf>>, lost \subseteq lost'
  PROVE  DoingInv'
BY KeepDoing

\* A step of the worker that copies what the source holds keeps what is known of the tree
\* before the change, if before it has read of the change it copies nothing.
LEMMA KeepBefore ==
  ASSUME TypeOK, BeforeInv, Aside, UNCHANGED <<node, ops>>, lost \subseteq lost',
         pc' = "copy0" \/ pc # "copy0",
         \A p \in SrcPaths : dst'[p] = dst[p] \/ Alike(node, p)',
         pc \in {"read", "handle"} /\ ~Telling(inbuf) /\ ~heard'
           => dst' = dst /\ pc' \in {"read", "handle"} /\ ~Telling(inbuf')
  PROVE  BeforeInv'
<1>1. before' = before /\ (heard => heard') BY AsideMeans
<1>2. \A p : Lost(p) => Lost(p)' BY DEF Lost
<1>3. Opened' = Opened BY DEF Opened
<1>4. ASSUME ~heard'
      PROVE  /\ pc' \in {"read", "handle"} /\ ~Telling(inbuf')
             /\ \A p \in SrcPaths : Alike(before, p)' \/ Lost(p)'
  <2>1. pc \in {"read", "handle"} /\ ~Telling(inbuf) /\ \A p \in SrcPaths : Alike(before, p) \/ Lost(p)
    BY <1>1, <1>4 DEF BeforeInv
  <2>2. dst' = dst /\ pc' \in {"read", "handle"} /\ ~Telling(inbuf') BY <1>4, <2>1
  <2>3. \A p \in SrcPaths : Alike(before, p)' <=> Alike(before, p) BY <1>1, <2>2 DEF Alike
  <2> QED BY <1>2, <2>1, <2>2, <2>3
<1>5. ASSUME pc' # "copy0", NEW p \in SrcPaths
      PROVE  Alike(before, p)' \/ Alike(node, p)' \/ Lost(p)' \/ (~IsDir(p) /\ dst'[p] = Opened')
  <2>1. Alike(before, p) \/ Alike(node, p) \/ Lost(p) \/ (~IsDir(p) /\ dst[p] = Opened)
    BY <1>5 DEF BeforeInv
  <2>2. CASE Alike(node, p)' BY <2>2
  <2>3. CASE dst'[p] = dst[p]
    <3>1. (Alike(before, p) => Alike(before, p)') /\ (Alike(node, p) => Alike(node, p)')
      BY <1>1, <2>3 DEF Alike
    <3> QED BY <1>2, <1>3, <2>1, <2>3, <3>1
  <2> QED BY <2>2, <2>3
<1> QED BY <1>4, <1>5 DEF BeforeInv

-----------------------------------------------------------------------------
(* The steps of the worker.                                                *)

\* What readdir gives of a directory.
LEMMA ChildrenMeans ==
  ASSUME NEW p \in SrcPaths, NEW c
  PROVE  c \in Children(p) <=> c \in SrcPaths \ {Src} /\ Exists(c) /\ Parent(c) = p
<1>1. p \in Paths BY SrcMeans
<1>2. ASSUME c \in Children(p) PROVE c \in SrcPaths \ {Src} /\ Exists(c) /\ Parent(c) = p
  <2>1. c \in Paths /\ Exists(c) /\ Len(c) = Len(p) + 1 /\ Under(c, p) BY <1>2 DEF Children
  <2>2. c \notin Top /\ Parent(c) = p BY <1>1, <2>1, ChildMeans
  <2> QED BY <2>1, <2>2, SrcMeans
<1>3. ASSUME c \in SrcPaths \ {Src}, Exists(c), Parent(c) = p PROVE c \in Children(p)
  <2>1. c \in Paths \ Top BY <1>3, SrcMeans
  <2>2. Len(c) = Len(p) + 1 /\ Under(c, p) BY <1>1, <1>3, <2>1, ChildMeans
  <2> QED BY <1>3, <2>1, <2>2 DEF Children
<1> QED BY <1>2, <1>3

\* What the target is after an entry is copied.
LEMMA CopyMeans ==
  ASSUME TypeOK, TreeInv, NEW p \in SrcPaths, Exists(p),
         dst' = IF IsDir(p) THEN EnsureDir(p) ELSE CopyFile(p)
  PROVE  /\ dst' \in [SrcPaths -> Inodes]
         /\ \A x \in SrcPaths : Under(p, x) => dst'[x] # 0
         /\ \A x \in SrcPaths : ~Under(p, x) => dst'[x] = dst[x]
         /\ ~IsDir(p) => dst'[p] = node[p]
<1>1. CASE IsDir(p)
  <2>1. dst' = [x \in SrcPaths |-> IF Under(p, x) THEN 1 ELSE dst[x]] BY <1>1 DEF EnsureDir
  <2>2. \A x \in SrcPaths : dst[x] \in Inodes BY Types
  <2> QED BY <1>1, <2>1, <2>2, InodesMeans
<1>2. CASE ~IsDir(p)
  <2>1. p # Src BY <1>2, SrcMeans DEF IsDir
  <2>2. p \in Paths \ Top /\ p \in Paths BY <2>1, SrcMeans
  <2>3. Under(p, Parent(p)) /\ Parent(p) # p /\ Parent(p) \in SrcPaths BY <2>1, SrcMeans
  <2> DEFINE m == [x \in SrcPaths |-> IF Under(Parent(p), x) THEN 1 ELSE dst[x]]
  <2>4. dst' = [m EXCEPT ![p] = node[p]] BY <1>2 DEF CopyFile, EnsureDir
  <2>5. \A x \in SrcPaths : dst[x] \in Inodes BY Types
  <2>6. node[p] \in Inodes /\ node[p] # 0 BY <2>2, Types DEF Exists
  <2>7. m \in [SrcPaths -> Inodes] BY <2>5, InodesMeans
  <2>8. \A x \in SrcPaths : dst'[x] = IF x = p THEN node[p] ELSE m[x] BY <2>4, <2>7
  <2>9. dst' \in [SrcPaths -> Inodes] BY <2>4, <2>6, <2>7
  <2>10. \A x \in SrcPaths : Under(p, x) => x = p \/ Under(Parent(p), x)
    BY <2>2, SrcMeans, ParentMeans
  <2>11. \A x \in SrcPaths : Under(Parent(p), x) => Under(p, x)
    BY <2>2, <2>3, SrcMeans, UnderOrders
  <2>12. Under(p, p) BY <2>2, UnderOrders
  <2> QED BY <1>2, <2>6, <2>8, <2>9, <2>10, <2>11, <2>12
<1> QED BY <1>1, <1>2

\* A copy of an entry, with its directories, leaves a tree in the target.
LEMMA CopyKeepsTarget ==
  ASSUME TargetInv, NEW p \in SrcPaths,
         \A x \in SrcPaths : Under(p, x) => dst'[x] # 0,
         \A x \in SrcPaths : ~Under(p, x) => dst'[x] = dst[x]
  PROVE  TargetInv'
<1>1. \A x \in SrcPaths : Under(x, Src) /\ x \in Paths BY SrcMeans
<1>2. dst'[Src] # 0 BY <1>1, SrcMeans
<1>3. ASSUME NEW x \in SrcPaths \ {Src}, dst'[x] # 0 PROVE dst'[Parent(x)] # 0
  <2>1. x \in Paths \ Top /\ Parent(x) \in SrcPaths /\ Parent(x) \in Paths /\ Under(x, Parent(x)) BY SrcMeans
  <2>2. CASE Under(p, x)
    <3>1. Under(p, Parent(x)) BY <1>1, <2>1, <2>2, UnderOrders
    <3> QED BY <2>1, <3>1
  <2>3. CASE ~Under(p, x)
    <3>1. dst[x] # 0 BY <1>3, <2>3
    <3>2. dst[Parent(x)] # 0 BY <3>1 DEF TargetInv
    <3> QED BY <2>1, <3>2
  <2> QED BY <2>2, <2>3
<1> QED BY <1>2, <1>3 DEF TargetInv

\* copy_files: one entry, with the directory it lies in.
LEMMA CopyEntryKeeps ==
  ASSUME Live, NEW p \in toCopy, CopyEntry(p), Aside
  PROVE  Live'
<1> USE DEF Live
<1>0. /\ p \in SrcPaths /\ p \in Paths /\ Exists(p)
      /\ dst' = IF IsDir(p) THEN EnsureDir(p) ELSE CopyFile(p)
      /\ toCopy' = (toCopy \ {p}) \cup (IF IsDir(p) THEN Children(p) ELSE {})
      /\ copied' = (IF IsDir(p) THEN copied \cup {p} ELSE copied)
      /\ UNCHANGED <<fsvars, kernel, pc, inbuf, map, toWatch, toList, gone, full, lost>>
      /\ UNCHANGED <<toRestore, toKeep, kept, before, after, half>> /\ heard' \in BOOLEAN
  <2>1. toCopy \subseteq SrcPaths BY DEF TypeOK
  <2> QED BY <2>1, SrcMeans, AsideMeans DEF CopyEntry
<1>1. UNCHANGED <<user, node, ops, doing, wdOf, lastWd, queue, overflow, Pending, Changes>>
  BY <1>0, SameComing DEF fsvars, kernel, Pending, Changes
<1> USE DEF Working
<1>2. /\ dst' \in [SrcPaths -> Inodes]
      /\ \A x \in SrcPaths : Under(p, x) => dst'[x] # 0
      /\ \A x \in SrcPaths : ~Under(p, x) => dst'[x] = dst[x]
      /\ ~IsDir(p) => dst'[p] = node[p]
  BY <1>0, CopyMeans
<1>3. pc \in {"copy0", "copy"} BY DEF WalkInv
<1>4. \A c : IsDir(p) /\ c \in Children(p) <=> IsDir(p) /\ c \in SrcPaths \ {Src} /\ Exists(c) /\ Parent(c) = p
  BY <1>0, ChildrenMeans
<1>5. TypeOK'
  <2>1. toCopy' \subseteq SrcPaths BY <1>0, <1>4 DEF TypeOK
  <2>2. copied' \subseteq DirPaths BY <1>0 DEF TypeOK, IsDir
  <2> QED BY <1>0, <1>1, <1>2, <2>1, <2>2 DEF TypeOK, TreeTypeOK, Inodes
<1>6. TargetInv' BY <1>0, <1>2, CopyKeepsTarget
<1>7. TreeInv' BY <1>1, SameTree
<1>8. TableInv' BY <1>0, <1>1, SameTable
<1>9. WalkInv'
  <2>1. \A x \in toCopy' : Exists(x) BY <1>0, <1>4 DEF WalkInv
  <2> QED BY <1>0, <1>1, <1>3, <2>1 DEF WalkInv, Exists, HasEntry
<1>10. EventInv' BY <1>0, <1>1, <1>3, SameEvents
<1>11. WatchInv'
  <2>1. \A x \in DirPaths \cap SrcPaths : Exists(x) /\ ToBeWatched(x) => ToBeWatched(x)'
    BY <1>0 DEF ToBeWatched
  <2> QED BY <1>0, <1>1, <2>1, SameWatch
<1>12. \A x \in SrcPaths : Under(p, x) => Alike(node, x)'
  <2>1. SUFFICES ASSUME NEW x \in SrcPaths, Under(p, x) PROVE Alike(node, x)' OBVIOUS
  <2>2. x \in Paths BY SrcMeans
  <2>3. Exists(x) BY <1>0, <2>1, <2>2, ExistsUpwards
  <2>4. CASE x = p /\ ~IsDir(p) BY <1>0, <1>1, <1>2, <2>4 DEF Alike, IsDir
  <2>5. CASE x # p \/ IsDir(p)
    <3>1. IsDir(x) BY <1>0, <2>1, <2>2, <2>5, BelowDirs DEF IsDir
    <3> QED BY <1>1, <1>2, <2>1, <2>3, <3>1 DEF Alike, Exists, IsDir
  <2> QED BY <2>4, <2>5
<1>13. CopyInv'
  <2>1. SUFFICES ASSUME NEW x \in SrcPaths
                 PROVE  (\/ Alike(node, x) \/ Lost(x)
                         \/ Exists(x) /\ (Announced(x) \/ \E q \in toCopy : Under(x, q))
                         \/ ~Exists(x) /\ Removed(x))'
    BY DEF CopyInv
  <2>2. (Announced(x)' <=> Announced(x)) /\ (Removed(x)' <=> Removed(x)) BY <1>0, <1>1, SameNews
  <2>3. (Lost(x)' <=> Lost(x)) /\ (Exists(x)' <=> Exists(x)) BY <1>0, <1>1 DEF Lost, Exists
  <2>4. x \in Paths BY SrcMeans
  <2>5. CASE Under(p, x) BY <1>12, <2>5
  <2>6. CASE ~Under(p, x)
    <3>1. Alike(node, x)' <=> Alike(node, x) BY <1>1, <1>2, <2>6 DEF Alike, IsDir
    <3>2. ASSUME NEW q \in toCopy, Under(x, q), Exists(x) PROVE \E r \in toCopy' : Under(x, r)
      <4>1. CASE q # p BY <1>0, <3>2, <4>1
      <4>2. CASE q = p
        <5>1. x # p BY <2>4, <2>6, UnderOrders
        <5>2. IsDir(p) BY <1>0, <2>4, <3>2, <4>2, <5>1, BelowDirs DEF IsDir
        <5>3. PICK c \in Paths \ Top : Parent(c) = p /\ Under(x, c)
          BY <1>0, <2>4, <3>2, <4>2, <5>1, OnTheWay
        <5>4. Exists(c) BY <2>4, <3>2, <5>3, ExistsUpwards
        <5>5. c \in SrcPaths \ {Src} BY <1>0, <5>3, SrcMeans
        <5>6. c \in toCopy' BY <1>0, <1>4, <5>2, <5>3, <5>4, <5>5
        <5> QED BY <5>3, <5>6
      <4> QED BY <4>1, <4>2
    <3> QED BY <2>2, <2>3, <3>1, <3>2 DEF CopyInv
  <2> QED BY <2>5, <2>6
<1>14. (lost = {} \/ full)' BY <1>0
<1>15. DoingInv' BY <1>0, <1>1, SameDoing
<1>16. BeforeInv' BY <1>0, <1>1, <1>2, <1>3, <1>12, KeepBefore
<1> QED BY <1>5, <1>6, <1>7, <1>8, <1>9, <1>10, <1>11, <1>13, <1>14, <1>15, <1>16

\* While the worker copies or adds watches, nothing else is under way.
LEMMA WhileWalking ==
  ASSUME WalkInv, EventInv, pc \in {"copy0", "watch0", "copy", "watch"}
  PROVE  /\ \A e \in Pending : e.kind \notin Announcing \cup Removing
         /\ \A d \in ToSet(doing) : d.kind \in OfSelf
         /\ gone = NoPath
         /\ \A p : ~Announced(p) /\ ~Removed(p)
<1>1. /\ \A e \in Pending : e.kind \notin Announcing \cup Removing
      /\ \A d \in ToSet(doing) : d.kind \in OfSelf
  <2>1. pc \in {"copy0", "watch0"} => Pending = {} /\ ToSet(doing) = {}
    BY ToSetMeans DEF EventInv, Pending, Coming
  <2> QED BY <2>1 DEF EventInv
<1>2. gone = NoPath BY DEF WalkInv
<1> QED BY <1>1, <1>2 DEF Announced, Removed

\* copy_files: the walk ends.
LEMMA CopyEndsKeeps ==
  ASSUME Live, CopyEnds, Aside
  PROVE  Live'
<1> USE DEF Live, Working
<1>0. /\ toCopy = {} /\ pc \in {"copy0", "copy"}
      /\ pc = "copy0" => pc' = "watch0" /\ toWatch' = {Src}
      /\ pc = "copy" => pc' = "watch" /\ toWatch' = toWatch
      /\ UNCHANGED <<fsvars, kernel, inbuf, map, toCopy, toList, gone, dst, copied, full, lost>>
      /\ UNCHANGED <<toRestore, toKeep, kept, before, after, half>> /\ heard' \in BOOLEAN
  BY AsideMeans DEF CopyEnds
<1>1. UNCHANGED <<user, node, ops, doing, wdOf, lastWd, queue, overflow, Pending, Changes>>
  BY <1>0, SameComing DEF fsvars, kernel, Pending, Changes
<1>2. Src \in SrcPaths /\ Src \in DirPaths BY SrcMeans
<1>3. TypeOK' BY <1>0, <1>1, <1>2 DEF TypeOK, TreeTypeOK, Inodes
<1>4. TargetInv' BY <1>0 DEF TargetInv
<1>5. TreeInv' BY <1>1, SameTree
<1>6. TableInv' BY <1>0, <1>1, SameTable
<1>7. EventInv' BY <1>0, <1>1, SameEvents
<1>8. CopyInv' BY <1>0, <1>1, SameCopy
<1>9. BeforeInv'
  <2>1. CASE pc = "copy" BY <1>0, <1>1, <2>1, KeepBefore
  <2>2. CASE pc = "copy0"
    <3>1. \A p : ~Announced(p) /\ ~Removed(p) BY <2>2, WhileWalking
    <3>2. \A p \in SrcPaths : Alike(node, p) \/ Lost(p) BY <1>0, <3>1 DEF CopyInv
    <3>3. \A p : (Alike(node, p)' <=> Alike(node, p)) /\ (Lost(p)' <=> Lost(p)) BY <1>0, <1>1 DEF Alike, Lost
    <3>4. heard BY <2>2 DEF BeforeInv
    <3>5. heard' BY <3>4, AsideMeans
    <3> QED BY <3>2, <3>3, <3>5 DEF BeforeInv
  <2> QED BY <1>0, <2>1, <2>2
<1>10. WalkInv'
  <2>1. CASE pc = "copy"
    BY <1>0, <1>1, <2>1 DEF WalkInv, Exists, HasEntry
  <2>2. CASE pc = "copy0"
    <3>1. toList = {} /\ copied' = copied BY <1>0, <2>2 DEF WalkInv
    <3>2. ToSet(map) = {} BY <2>2, ToSetMeans DEF TableInv
    <3>3. Exists(Src)' BY <1>1 DEF TreeInv, Exists
    <3> QED BY <1>0, <1>1, <2>2, <3>1, <3>2, <3>3 DEF WalkInv, Exists, HasEntry
  <2> QED BY <1>0, <2>1, <2>2
<1>11. WatchInv'
  <2>1. ASSUME NEW p \in DirPaths \cap SrcPaths, Exists(p), ToBeWatched(p) PROVE ToBeWatched(p)'
    <3>1. pc = "copy0" => Under(p, Src) /\ Src \in toWatch' BY <1>0, SrcMeans
    <3> QED BY <1>0, <2>1, <3>1 DEF ToBeWatched
  <2> QED BY <1>0, <1>1, <2>1, SameWatch
<1>12. DoingInv' BY <1>0, <1>1, SameDoing
<1> QED BY <1>0, <1>3, <1>4, <1>5, <1>6, <1>7, <1>8, <1>9, <1>10, <1>11, <1>12

\* watch_files: the walk ends.
LEMMA WatchEndsKeeps ==
  ASSUME Live, WatchEnds, Aside
  PROVE  Live'
<1> USE DEF Live, Working
<1>0. /\ toCopy = {} /\ toWatch = {} /\ toList = {} /\ pc \in {"watch0", "watch"}
      /\ pc = "watch0" => pc' = "read"
      /\ pc = "watch" => pc' = "handle"
      /\ copied' = {}
      /\ UNCHANGED <<fsvars, kernel, inbuf, map, toCopy, toWatch, toList, gone, dst, full, lost>>
      /\ UNCHANGED <<toRestore, toKeep, kept, before, after, half>> /\ heard' \in BOOLEAN
  BY AsideMeans DEF WatchEnds, Watching, walk
<1>1. UNCHANGED <<user, node, ops, doing, wdOf, lastWd, queue, overflow, Pending, Changes>>
  BY <1>0, SameComing DEF fsvars, kernel, Pending, Changes
<1>2. pc = "watch0" => inbuf = <<>> /\ queue = <<>> BY DEF EventInv
<1>3. TypeOK' BY <1>0, <1>1 DEF TypeOK, TreeTypeOK, Inodes
<1>4. TargetInv' BY <1>0 DEF TargetInv
<1>5. TreeInv' BY <1>1, SameTree
<1>6. TableInv' BY <1>0, <1>1, SameTable
<1>7. EventInv' BY <1>0, <1>1, <1>2, SameEvents
<1>8. CopyInv' BY <1>0, <1>1, SameCopy
<1>9. BeforeInv' BY <1>0, <1>1, KeepBefore
<1>10. WalkInv' BY <1>0, <1>1 DEF WalkInv, Exists, HasEntry
<1>11. WatchInv'
  <2>1. \A p \in DirPaths \cap SrcPaths : ~ToBeWatched(p) BY <1>0 DEF ToBeWatched
  <2> QED BY <1>0, <1>1, <2>1, SameWatch
<1>12. DoingInv' BY <1>0, <1>1, SameDoing
<1> QED BY <1>0, <1>3, <1>4, <1>5, <1>6, <1>7, <1>8, <1>9, <1>10, <1>11, <1>12

\* read fills the buffer with the events that are queued.
LEMMA ReadKeeps ==
  ASSUME Live, Read, Aside
  PROVE  Live'
<1> USE DEF Live, Working
<1>0. /\ pc = "read" /\ pc' = "handle" /\ inbuf' = queue /\ queue' = <<>>
      /\ UNCHANGED <<fsvars, wdOf, lastWd, overflow, map, toCopy, toWatch, toList, gone, dst, copied, full, lost>>
      /\ UNCHANGED <<toRestore, toKeep, kept, before, after, half>> /\ heard' \in BOOLEAN
  BY AsideMeans DEF Read, walk
<1>1. inbuf = <<>> /\ toCopy = {} /\ toWatch = {} /\ toList = {} BY <1>0 DEF EventInv, WalkInv
<1>2. ToSet(<<>>) = {} BY ToSetMeans
<1>3. UNCHANGED <<user, node, ops, doing, Pending, Changes>> /\ \A d : Event(d)' = Event(d)
  BY <1>0, <1>1, <1>2, SameComing DEF fsvars, Pending, Changes
<1>4. TypeOK'
  <2>1. inbuf' \in Seq(Events) /\ queue' \in Seq(Events) /\ queue' = <<>> BY <1>0 DEF TypeOK
  <2>2. \A e \in ToSet(queue) : e.wd \in 1 .. lastWd BY DEF TypeOK, TreeTypeOK, ToSet
  <2>3. DOMAIN queue' = {} /\ Len(queue') = 0 BY <1>0
  <2>4. 0 <= QueueMax BY Bounds
  <2>5. TreeTypeOK' BY <1>0, <1>3, <2>3, <2>4 DEF TypeOK, TreeTypeOK, Inodes
  <2> QED BY <1>0, <1>3, <2>1, <2>2, <2>5 DEF TypeOK, Inodes
<1>5. TargetInv' BY <1>0 DEF TargetInv
<1>6. TreeInv' BY <1>0, <1>3, SameTree
<1>7. TableInv' BY <1>0, <1>3, SameTable
<1>8. EventInv'
  <2>1. \A w, e : ChangeAt(w, e)' <=> ChangeAt(w, e) BY <1>0, <1>3 DEF ChangeAt, Current, Exists
  <2>2. \A wd : HasWatch(wd)' <=> HasWatch(wd) BY <1>0 DEF HasWatch, Inodes
  <2>3. (\A e \in Pending : e.kind \in Announcing \cup Removing => \E w \in ToSet(map) : ChangeAt(w, e))'
    BY <1>0, <1>3, <2>1 DEF EventInv
  <2>4. ToSet(inbuf') = ToSet(queue) /\ ToSet(queue') = {} BY <1>0, <1>2
  <2>5. (\A e \in ToSet(inbuf) \cup ToSet(queue) : e.kind = "ignored" => ~HasWatch(e.wd))'
    BY <2>2, <2>4 DEF EventInv
  <2>6. (Ordered(inbuf) /\ Ordered(queue))'
    <3>1. Ordered(inbuf)' BY <1>0 DEF EventInv, Ordered, Precedes
    <3>2. Ordered(queue)' BY <1>0 DEF Ordered
    <3> QED BY <3>1, <3>2
  <2>7. (/\ \A i, j \in DOMAIN doing : i < j => Precedes(Event(doing[i]), Event(doing[j]))
         /\ \A e \in ToSet(inbuf), f \in ToSet(queue) : Precedes(e, f)
         /\ \A e \in ToSet(inbuf) \cup ToSet(queue), d \in ToSet(doing) : Precedes(e, Event(d)))'
    BY <1>3, <2>4 DEF EventInv, Precedes
  <2> QED BY <1>0, <2>3, <2>5, <2>6, <2>7 DEF EventInv
<1>9. CopyInv' BY <1>0, <1>3, SameCopy
<1>10. BeforeInv'
  <2>1. ~heard' => ~Telling(queue) BY <1>0, AsideMeans
  <2>2. Telling(inbuf') <=> Telling(queue) BY <1>0 DEF Telling
  <2> QED BY <1>0, <1>3, <2>1, <2>2, KeepBefore
<1>11. WalkInv' BY <1>0, <1>1, <1>3 DEF WalkInv, Exists, HasEntry
<1>12. WatchInv'
  <2>1. \A p \in DirPaths \cap SrcPaths : ~ToBeWatched(p) BY <1>0, <1>1 DEF ToBeWatched
  <2> QED BY <1>0, <1>3, <2>1, SameWatch
<1>13. DoingInv' BY <1>0, <1>3, SameDoing
<1> QED BY <1>0, <1>4, <1>5, <1>6, <1>7, <1>8, <1>9, <1>10, <1>11, <1>12, <1>13

\* The buffer is handled, and the loop reads again.
LEMMA BufferDoneKeeps ==
  ASSUME Live, BufferDone, Aside
  PROVE  Live'
<1> USE DEF Live, Working
<1>0. /\ pc = "handle" /\ pc' = "read" /\ inbuf = <<>>
      /\ UNCHANGED <<fsvars, kernel, inbuf, map, toCopy, toWatch, toList, gone, dst, copied, full, lost>>
      /\ UNCHANGED <<toRestore, toKeep, kept, before, after, half>> /\ heard' \in BOOLEAN
  BY AsideMeans DEF BufferDone, walk
<1>1. UNCHANGED <<user, node, ops, doing, wdOf, lastWd, queue, overflow, Pending, Changes>>
  BY <1>0, SameComing DEF fsvars, kernel, Pending, Changes
<1>2. toCopy = {} /\ toWatch = {} /\ toList = {} BY <1>0 DEF WalkInv
<1>3. TypeOK' BY <1>0, <1>1 DEF TypeOK, TreeTypeOK, Inodes
<1>4. TargetInv' BY <1>0 DEF TargetInv
<1>5. TreeInv' BY <1>1, SameTree
<1>6. TableInv' BY <1>0, <1>1, SameTable
<1>7. EventInv' BY <1>0, <1>1, SameEvents
<1>8. CopyInv' BY <1>0, <1>1, SameCopy
<1>9. BeforeInv'
  <2>1. Telling(inbuf') <=> Telling(inbuf) BY <1>0 DEF Telling
  <2> QED BY <1>0, <1>1, <2>1, KeepBefore
<1>10. WalkInv' BY <1>0, <1>1, <1>2 DEF WalkInv, Exists, HasEntry
<1>11. WatchInv'
  <2>1. \A p \in DirPaths \cap SrcPaths : ~ToBeWatched(p) BY <1>0, <1>2 DEF ToBeWatched
  <2> QED BY <1>0, <1>1, <2>1, SameWatch
<1>12. DoingInv' BY <1>0, <1>1, SameDoing
<1> QED BY <1>0, <1>3, <1>4, <1>5, <1>6, <1>7, <1>8, <1>9, <1>10, <1>11, <1>12

\* inotify_add_watch and the entry of one directory.
LEMMA AddWatchEntryKeeps ==
  ASSUME Live, NEW p, AddWatchEntry(p), Aside
  PROVE  Live'
<1> USE DEF Live, Working
<1>n. PICK new : new = [wd |-> lastWd + 1, path |-> p] OBVIOUS
<1>0. /\ pc \in {"watch0", "watch"} /\ toCopy = {} /\ p \in toWatch /\ Exists(p) /\ Len(map) < MaxWatches
      /\ AddWatch(p)
      /\ map' = Append(map, [wd |-> WdFor(p), path |-> p])
      /\ toWatch' = toWatch \ {p} /\ toList' = toList \cup {p}
      /\ UNCHANGED <<user, node, ops, doing, queue, overflow, pc, inbuf, toCopy, gone, dst, copied, full, lost>>
      /\ UNCHANGED <<toRestore, toKeep, kept, before, after, half>> /\ heard' \in BOOLEAN
  BY AsideMeans DEF AddWatchEntry, AddWatch, Watching, fsvars
<1>1. p \in DirPaths /\ p \in SrcPaths /\ p \in Paths
  <2>1. toWatch \cup toList \subseteq DirPaths \cap SrcPaths BY DEF TypeOK
  <2> QED BY <1>0, <2>1, SrcMeans
<1>2. /\ \A e \in Pending : e.kind \notin Announcing \cup Removing
      /\ \A d \in ToSet(doing) : d.kind \in OfSelf
      /\ gone = NoPath
      /\ \A x : ~Announced(x) /\ ~Removed(x)
  BY <1>0, WhileWalking
<1>4. \A w \in ToSet(map) : Current(w) BY <1>2 DEF TableInv
<1>5. node[p] \in Inodes /\ node[p] # 0 /\ lastWd \in Nat BY <1>0, <1>1, Types DEF Exists
<1>6. wdOf[node[p]] = 0
  <2>1. SUFFICES ASSUME wdOf[node[p]] # 0 PROVE FALSE OBVIOUS
  <2>2. PICK w \in ToSet(map) : w.wd = wdOf[node[p]] BY <1>5, <2>1 DEF TableInv
  <2>3. w.path \in Paths /\ Exists(w.path) /\ wdOf[node[w.path]] = wdOf[node[p]]
    BY <1>4, <2>2, Types DEF Current
  <2>4. node[w.path] = node[p] BY <1>5, <2>1, <2>3, Types DEF TreeInv
  <2>5. w.path = p BY <1>1, <2>3, <2>4 DEF TreeInv
  <2>6. ~Under(w.path, p) BY <1>0, <2>2 DEF WalkInv
  <2> QED BY <1>1, <2>5, <2>6, UnderOrders
<1>7. /\ wdOf' = [wdOf EXCEPT ![node[p]] = lastWd + 1]
      /\ lastWd' = lastWd + 1
      /\ map' = Append(map, new)
  BY <1>n, <1>0, <1>6 DEF AddWatch, WdFor
<1>8. new \in Entries BY <1>n, <1>1, <1>5 DEF Entries
<1>9. map \in Seq(Entries) BY DEF TypeOK
<1>10. /\ map' \in Seq(Entries) /\ ToSet(map') = ToSet(map) \cup {new}
       /\ Len(map') = Len(map) + 1 /\ Len(map) \in Nat
       /\ (\A i \in 1 .. Len(map) : map'[i] = map[i]) /\ map'[Len(map) + 1] = new
  BY <1>7, <1>8, <1>9, ToSetAppend
<1>11. wdOf \in [Inodes -> 0 .. lastWd] BY DEF TypeOK, TreeTypeOK
<1>12. \A i \in Inodes : wdOf'[i] = IF i = node[p] THEN lastWd + 1 ELSE wdOf[i] BY <1>7, <1>11
<1>3. /\ \A d \in ToSet(doing) : Event(d)' = Event(d)
      /\ UNCHANGED Pending
  <2>1. \A d \in ToSet(doing) : d \in Reports /\ d.kind \in OfSelf /\ \A x \in Paths : node[x] # d.dir
    <3>1. \A d \in ToSet(doing) : \E i \in DOMAIN doing : d = doing[i] BY DEF ToSet
    <3>2. \A d \in ToSet(doing) : d \in Reports BY Types, ToSetMeans
    <3> QED BY <1>2, <3>1, <3>2 DEF DoingInv
  <2>2. \A d \in ToSet(doing) : wdOf'[d.dir] = wdOf[d.dir] BY <1>1, <1>12, <2>1 DEF Reports
  <2>3. \A d \in ToSet(doing) : Event(d)' = Event(d) BY <2>2 DEF Event
  <2>4. ToSet(doing)' = ToSet(doing) BY <1>0
  <2>5. Coming' = Coming BY <2>3, <2>4 DEF Coming
  <2> QED BY <1>0, <2>3, <2>5 DEF Pending
<1>13. new.wd = lastWd + 1 /\ new.path = p BY <1>n
<1>14. \A w \in ToSet(map) : /\ w.wd \in Nat /\ w.wd # 0 /\ w.wd <= lastWd
                             /\ w.path \in DirPaths /\ w.path \in SrcPaths /\ w.path \in Paths
  BY Types
<1>15. \A x \in Paths : node[x] \in Inodes BY Types
<1>16. \A w \in ToSet(map') : Current(w)'
  <2>1. ASSUME NEW w \in ToSet(map) PROVE Current(w)'
    <3>1. Exists(w.path) /\ wdOf[node[w.path]] = w.wd BY <1>4 DEF Current
    <3>2. node[w.path] # node[p] BY <1>6, <1>14, <3>1
    <3>3. wdOf'[node[w.path]] = w.wd BY <1>12, <1>14, <1>15, <3>1, <3>2
    <3> QED BY <1>0, <3>1, <3>3 DEF Current, Exists
  <2>2. Current(new)'
    <3>1. wdOf'[node[p]] = new.wd BY <1>5, <1>12, <1>13
    <3> QED BY <1>0, <1>13, <3>1 DEF Current, Exists
  <2> QED BY <1>10, <2>1, <2>2
<1>17. \A x : HasEntry(x) => HasEntry(x)' BY <1>10 DEF HasEntry
<1>18. HasEntry(p)' BY <1>10, <1>13 DEF HasEntry
<1>19. TypeOK'
  <2>1. \A w \in ToSet(map') : w.wd \in 1 .. lastWd'
    <3>1. \A w \in ToSet(map) : w.wd \in 1 .. lastWd BY DEF TypeOK
    <3> QED BY <1>5, <1>7, <1>10, <1>13, <3>1
  <2>2. Len(map') <= MaxWatches BY <1>0, <1>10, OrlovMirrorAssumption
  <2>3. wdOf' \in [Inodes -> 0 .. lastWd'] BY <1>5, <1>7, <1>11
  <2>4. \A i \in DOMAIN queue : queue[i].wd \in 1 .. lastWd' /\ queue[i].cookie \in 0 .. MaxOps
    BY <1>5, <1>7 DEF TypeOK, TreeTypeOK
  <2>5. \A e \in ToSet(inbuf) : e.wd \in 1 .. lastWd' BY <1>5, <1>7 DEF TypeOK
  <2>6. TreeTypeOK' BY <1>0, <1>5, <1>7, <2>3, <2>4 DEF TypeOK, TreeTypeOK, Inodes
  <2>7. toWatch' \cup toList' \subseteq DirPaths \cap SrcPaths BY <1>0, <1>1 DEF TypeOK
  <2> QED BY <1>0, <1>10, <2>1, <2>2, <2>5, <2>6, <2>7 DEF TypeOK, Inodes
<1>20. TargetInv' BY <1>0 DEF TargetInv
<1>21. TreeInv'
  <2>1. (\A i, j \in Inodes : wdOf[i] # 0 /\ wdOf[i] = wdOf[j] => i = j)'
    <3>1. \A i \in Inodes : wdOf[i] \in Nat /\ wdOf[i] <= lastWd BY Types
    <3>2. \A i \in Inodes : wdOf[i] # lastWd + 1 BY <1>5, <3>1
    <3> QED BY <1>12, <3>2 DEF TreeInv, Inodes
  <2> QED BY <1>0, <2>1 DEF TreeInv, Exists, Fresh
<1>22. TableInv'
  <2>1. OneEach(map)'
    <3>1. DOMAIN map = 1 .. Len(map) /\ DOMAIN map' = 1 .. Len(map) + 1 BY <1>9, <1>10, LenProperties
    <3>2. \A i \in 1 .. Len(map) : map[i].wd # lastWd + 1
      <4>1. \A i \in 1 .. Len(map) : map[i] \in ToSet(map) BY <1>9, ToSetMeans
      <4>2. \A w \in ToSet(map) : w.wd # lastWd + 1 BY <1>5, <1>14
      <4> QED BY <4>1, <4>2
    <3>3. \A i \in 1 .. Len(map) + 1 : i \in 1 .. Len(map) \/ i = Len(map) + 1 BY <1>10
    <3>4. \A i, j \in 1 .. Len(map) + 1 : map'[i].wd = map'[j].wd => i = j
      BY <1>10, <1>13, <3>1, <3>2, <3>3 DEF TableInv, OneEach
    <3> QED BY <3>1, <3>4 DEF OneEach
  <2>2. ASSUME NEW w \in ToSet(map') PROVE w.path # Src => HasEntry(Parent(w.path))'
    <3>1. w \in ToSet(map) => (w.path # Src => HasEntry(Parent(w.path))) BY <1>2 DEF TableInv
    <3>2. p # Src => HasEntry(Parent(p)) BY <1>0 DEF WalkInv
    <3> QED BY <1>10, <1>13, <1>17, <3>1, <3>2
  <2>3. ASSUME NEW i \in Inodes, wdOf'[i] # 0 PROVE \E w \in ToSet(map') : w.wd = wdOf'[i]
    BY <1>10, <1>12, <1>13, <2>3 DEF TableInv
  <2> QED BY <1>0, <1>16, <2>1, <2>2, <2>3 DEF TableInv, Inodes
<1>23. WalkInv'
  <2>1. toWatch' \cup toList' = toWatch \cup toList BY <1>0
  <2>2. (\A q \in toWatch, w \in ToSet(map) : ~Under(w.path, q))'
    BY <1>0, <1>10, <1>13, <2>1 DEF WalkInv
  <2>3. (\A q \in toList, w \in ToSet(map) : Under(w.path, q) => w.path = q)'
    BY <1>0, <1>10, <1>13 DEF WalkInv
  <2>4. (\A q \in toWatch \cup toList : q # Src => HasEntry(Parent(q)))' BY <1>17, <2>1 DEF WalkInv
  <2>5. (\A q \in toList : HasEntry(q))' BY <1>0, <1>17, <1>18 DEF WalkInv
  <2>6. (\A q \in toCopy \cup toWatch \cup toList : Exists(q))' BY <1>0 DEF WalkInv, Exists
  <2>7. (\A q, r \in toWatch \cup toList : Under(q, r) => q = r)' BY <2>1 DEF WalkInv
  <2>8. (gone # NoPath => gone # Src /\ \A x \in Paths : Under(x, gone) => ~Exists(x))' BY <1>0 DEF WalkInv, Exists
  <2> QED BY <1>0, <2>2, <2>3, <2>4, <2>5, <2>6, <2>7, <2>8 DEF WalkInv
<1>24. EventInv'
  <2>1. ASSUME NEW e \in ToSet(inbuf) \cup ToSet(queue), e.kind = "ignored" PROVE ~HasWatch(e.wd)'
    <3>1. e.wd \in Nat /\ e.wd <= lastWd BY Types DEF Pending
    <3>2. ~HasWatch(e.wd) BY <2>1 DEF EventInv
    <3> QED BY <1>5, <1>12, <3>1, <3>2 DEF HasWatch, Inodes
  <2>2. (Ordered(inbuf) /\ Ordered(queue))' BY <1>0 DEF EventInv, Ordered, Precedes
  <2>3. (\A e \in Pending : e.kind \notin Announcing \cup Removing)' BY <1>2, <1>3
  <2>4. \A i \in DOMAIN doing : doing[i] \in ToSet(doing) BY DEF ToSet
  <2>5. (/\ \A i, j \in DOMAIN doing : i < j => Precedes(Event(doing[i]), Event(doing[j]))
         /\ \A e \in ToSet(inbuf), f \in ToSet(queue) : Precedes(e, f)
         /\ \A e \in ToSet(inbuf) \cup ToSet(queue), d \in ToSet(doing) : Precedes(e, Event(d)))'
    BY <1>0, <1>3, <2>4 DEF EventInv, Precedes
  <2>6. (\A d \in ToSet(doing) : d.kind \in OfSelf)' BY <1>0, <1>2
  <2>7. (\A e \in ToSet(inbuf) \cup ToSet(queue) : e.kind = "ignored" => ~HasWatch(e.wd))' BY <1>0, <2>1
  <2> QED BY <1>0, <2>2, <2>3, <2>5, <2>6, <2>7 DEF EventInv
<1>25. WatchInv'
  <2>1. SUFFICES ASSUME NEW x \in DirPaths \cap SrcPaths, Exists(x)
                 PROVE  (\E w \in ToSet(map') : w.path = x /\ Current(w)') \/ Lost(x)' \/ ToBeWatched(x)'
    BY <1>0 DEF WatchInv, Exists
  <2>2. (\E w \in ToSet(map) : w.path = x) \/ Lost(x) \/ ToBeWatched(x) BY <1>2, <2>1 DEF WatchInv
  <2>3. (\E w \in ToSet(map) : w.path = x) => \E w \in ToSet(map') : w.path = x /\ Current(w)'
    BY <1>10, <1>16
  <2>4. Lost(x) => Lost(x)' BY <1>0 DEF Lost
  <2>5. x = p => \E w \in ToSet(map') : w.path = x /\ Current(w)' BY <1>10, <1>13, <1>16
  <2>6. x # p /\ ToBeWatched(x) => ToBeWatched(x)' BY <1>0 DEF ToBeWatched
  <2> QED BY <2>2, <2>3, <2>4, <2>5, <2>6
<1>26. CopyInv'
  <2>1. \A x : (Lost(x)' <=> Lost(x)) /\ (Exists(x)' <=> Exists(x)) /\ (Alike(node, x)' <=> Alike(node, x))
    BY <1>0 DEF Lost, Exists, Alike
  <2> QED BY <1>0, <1>2, <2>1 DEF CopyInv
<1>27. BeforeInv' BY <1>0, KeepBefore
<1>28. DoingInv'
  <2>0. \A d \in ToSet(doing) : d \in Reports BY Types, ToSetMeans
  <2>1. \A d \in ToSet(doing) : d.dir \in Inodes BY <2>0 DEF Reports
  <2>2. \A d \in ToSet(doing) : wdOf[d.dir] # 0 => wdOf'[d.dir] # 0 BY <1>5, <1>12, <2>1
  <2> QED BY <1>0, <2>2, KeepDoing
<1> QED BY <1>0, <1>19, <1>20, <1>21, <1>22, <1>23, <1>24, <1>25, <1>26, <1>27, <1>28

\* The walk of watch_files reaches the directories of one it has watched.
LEMMA ListSubdirsKeeps ==
  ASSUME Live, NEW p, ListSubdirs(p), Aside
  PROVE  Live'
<1> USE DEF Live, Working
<1>0. /\ pc \in {"watch0", "watch"} /\ toCopy = {} /\ p \in toList /\ Exists(p)
      /\ toList' = toList \ {p}
      /\ toWatch' = toWatch \cup {c \in Children(p) : IsDir(c)}
      /\ UNCHANGED <<fsvars, kernel, pc, inbuf, map, toCopy, gone, dst, copied, full, lost>>
      /\ UNCHANGED <<toRestore, toKeep, kept, before, after, half>> /\ heard' \in BOOLEAN
  BY AsideMeans DEF ListSubdirs, Watching
<1>1. UNCHANGED <<user, node, ops, doing, wdOf, lastWd, queue, overflow, Pending, Changes>>
  BY <1>0, SameComing DEF fsvars, kernel, Pending, Changes
<1>2. toWatch \cup toList \subseteq DirPaths \cap SrcPaths BY DEF TypeOK
<1>3. p \in DirPaths /\ p \in SrcPaths /\ p \in Paths BY <1>0, <1>2, SrcMeans
<1> DEFINE C == {c \in Children(p) : IsDir(c)}
<1>4. \A c : c \in C <=> c \in (DirPaths \cap SrcPaths) \ {Src} /\ Exists(c) /\ Parent(c) = p
  BY <1>3, ChildrenMeans DEF IsDir
<1>5. \A c \in C : c \in Paths \ Top /\ Under(c, p) /\ ~Under(p, c)
                   /\ \A q \in Paths : Under(c, q) => c = q \/ Under(p, q)
  <2>1. SUFFICES ASSUME NEW c \in C
                 PROVE  c \in Paths \ Top /\ Under(c, p) /\ ~Under(p, c)
                        /\ \A q \in Paths : Under(c, q) => c = q \/ Under(p, q)
    OBVIOUS
  <2>2. c \in SrcPaths \ {Src} /\ Parent(c) = p BY <1>4
  <2>3. c \in Paths \ Top BY <2>2, SrcMeans
  <2>4. Under(c, p) /\ p # c /\ \A q \in Paths : Under(c, q) => c = q \/ Under(p, q)
    BY <2>2, <2>3, ParentMeans
  <2>5. ~Under(p, c) BY <1>3, <2>3, <2>4, UnderOrders
  <2> QED BY <2>3, <2>4, <2>5
<1> HIDE DEF C
<1>6. toWatch' = toWatch \cup C BY <1>0 DEF C
<1>7. \A q \in toWatch \cup toList : q \in Paths BY <1>2, SrcMeans
<1>8. HasEntry(p) /\ p \notin toWatch
  <2>1. HasEntry(p) BY <1>0 DEF WalkInv
  <2>2. p \notin toWatch BY <1>3, <2>1, UnderOrders DEF HasEntry, WalkInv
  <2> QED BY <2>1, <2>2
<1>9. TypeOK'
  <2>1. toWatch' \cup toList' \subseteq DirPaths \cap SrcPaths BY <1>0, <1>2, <1>4, <1>6
  <2> QED BY <1>0, <1>1, <2>1 DEF TypeOK, TreeTypeOK, Inodes
<1>10. TargetInv' BY <1>0 DEF TargetInv
<1>11. TreeInv' BY <1>1, SameTree
<1>12. TableInv' BY <1>0, <1>1, SameTable
<1>13. EventInv' BY <1>0, <1>1, SameEvents
<1>14. CopyInv' BY <1>0, <1>1, SameCopy
<1>15. BeforeInv' BY <1>0, <1>1, KeepBefore
<1>16. WalkInv'
  <2>1. \A x : (Exists(x)' <=> Exists(x)) /\ (HasEntry(x)' <=> HasEntry(x)) BY <1>0, <1>1 DEF Exists, HasEntry
  <2>2. \A q, r \in toWatch' \cup toList' : Under(q, r) => q = r
    <3>1. SUFFICES ASSUME NEW q \in toWatch' \cup toList', NEW r \in toWatch' \cup toList', Under(q, r)
                   PROVE  q = r
      OBVIOUS
    <3>2. /\ q \in C \/ q \in (toWatch \cup toList) \ {p}
          /\ r \in C \/ r \in (toWatch \cup toList) \ {p}
      BY <1>0, <1>6, <1>8
    <3>3. q \in Paths /\ r \in Paths BY <1>5, <1>7, <3>2
    <3>4. CASE q \in C
      <4>1. q = r \/ Under(p, r) BY <1>5, <3>1, <3>3, <3>4
      <4>2. CASE r \in C BY <1>5, <4>1, <4>2
      <4>3. CASE r \in (toWatch \cup toList) \ {p}
        <5>1. Under(p, r) => p = r BY <1>0, <4>3 DEF WalkInv
        <5> QED BY <4>1, <4>3, <5>1
      <4> QED BY <3>2, <4>2, <4>3
    <3>5. CASE q \in (toWatch \cup toList) \ {p}
      <4>1. CASE r \in C
        <5>1. Under(q, p) BY <1>3, <1>5, <3>1, <3>3, <4>1, UnderOrders
        <5>2. q = p BY <1>0, <3>5, <5>1 DEF WalkInv
        <5> QED BY <3>5, <5>2
      <4>2. CASE r \in (toWatch \cup toList) \ {p} BY <3>1, <3>5, <4>2 DEF WalkInv
      <4> QED BY <3>2, <4>1, <4>2
    <3> QED BY <3>2, <3>4, <3>5
  <2>3. \A q \in toWatch', w \in ToSet(map) : ~Under(w.path, q)
    <3>1. SUFFICES ASSUME NEW q \in C, NEW w \in ToSet(map), Under(w.path, q) PROVE FALSE
      BY <1>6 DEF WalkInv
    <3>2. w.path \in Paths BY Types
    <3>3. Under(w.path, p) BY <1>3, <1>5, <3>1, <3>2, UnderOrders
    <3>4. w.path = p BY <1>0, <3>3 DEF WalkInv
    <3> QED BY <1>5, <3>1, <3>4
  <2>4. \A q \in toWatch' \cup toList' : q # Src => HasEntry(Parent(q))
    <3>1. \A c \in C : HasEntry(Parent(c)) BY <1>4, <1>8
    <3> QED BY <1>0, <1>6, <3>1 DEF WalkInv
  <2>5. \A q \in toWatch' \cup toList' : Exists(q) BY <1>0, <1>4, <1>6 DEF WalkInv
  <2>6. /\ \A q \in toList' : HasEntry(q)
        /\ \A q \in toList', w \in ToSet(map) : Under(w.path, q) => w.path = q
    BY <1>0 DEF WalkInv
  <2> QED BY <1>0, <1>1, <2>1, <2>2, <2>3, <2>4, <2>5, <2>6 DEF WalkInv
<1>17. WatchInv'
  <2>1. ASSUME NEW x \in DirPaths \cap SrcPaths, Exists(x), ToBeWatched(x) PROVE ToBeWatched(x)'
    <3>0. x \in Paths BY SrcMeans
    <3>1. (\E q \in toWatch : Under(x, q)) => ToBeWatched(x)' BY <1>6 DEF ToBeWatched
    <3>2. ASSUME NEW q \in toList, Under(x, q), x # q PROVE ToBeWatched(x)'
      <4>1. q # p => q \in toList' BY <1>0
      <4>2. CASE q = p
        <5>1. PICK c \in Paths \ Top : Parent(c) = p /\ Under(x, c) BY <1>3, <3>0, <3>2, <4>2, OnTheWay
        <5>2. Exists(c) BY <2>1, <3>0, <5>1, ExistsUpwards
        <5>3. c \in SrcPaths \ {Src} BY <1>3, <5>1, SrcMeans
        <5>4. c \in DirPaths BY <3>0, <5>1, BelowDirs
        <5>5. c \in toWatch' BY <1>4, <1>6, <5>1, <5>2, <5>3, <5>4
        <5> QED BY <5>1, <5>5 DEF ToBeWatched
      <4> QED BY <3>2, <4>1, <4>2 DEF ToBeWatched
    <3> QED BY <1>0, <2>1, <3>1, <3>2 DEF ToBeWatched
  <2> QED BY <1>0, <1>1, <2>1, SameWatch
<1>18. DoingInv' BY <1>0, <1>1, SameDoing
<1> QED BY <1>0, <1>9, <1>10, <1>11, <1>12, <1>13, <1>14, <1>15, <1>16, <1>17, <1>18

\* A full table ends the walk, at the start the worker.
LEMMA TooManyWatchesKeeps ==
  ASSUME Live, TooManyWatches, Aside
  PROVE  TypeOK' /\ TargetInv' /\ full' /\ (pc' # "exited" => Live')
<1> USE DEF Live, Working
<1>0. /\ pc \in {"watch0", "watch"} /\ toCopy = {}
      /\ lost' = lost \cup UNION {Below(q) : q \in {r \in toWatch \cup toList : Exists(r)}}
      /\ toWatch' = {} /\ toList' = {} /\ full' = TRUE
      /\ pc' = IF pc = "watch0" THEN "exited" ELSE pc
      /\ UNCHANGED <<fsvars, kernel, inbuf, map, toCopy, gone, dst, copied>>
      /\ UNCHANGED <<toRestore, toKeep, kept, before, after, half>> /\ heard' \in BOOLEAN
  BY AsideMeans DEF TooManyWatches, GiveUp, Watching
<1>1. UNCHANGED <<user, node, ops, doing, wdOf, lastWd, queue, overflow, Pending, Changes>>
  BY <1>0, SameComing DEF fsvars, kernel, Pending, Changes
<1>2. \A q : Below(q) \subseteq SrcPaths BY DEF Below
<1>3. lost \subseteq lost' /\ lost' \subseteq SrcPaths BY <1>0, <1>2 DEF TypeOK
<1>4. TypeOK'
  <2>1. pc' \in {"exited", "watch"} /\ {} \subseteq SrcPaths /\ {} \cup {} \subseteq DirPaths \cap SrcPaths BY <1>0
  <2> QED BY <1>0, <1>1, <1>3, <2>1 DEF TypeOK, TreeTypeOK, Inodes
<1>5. TargetInv' BY <1>0 DEF TargetInv
<1>6. ASSUME pc' # "exited" PROVE Live'
  <2>0. pc = "watch" /\ pc' = "watch" BY <1>0, <1>6
  <2>1. TreeInv' BY <1>1, SameTree
  <2>2. TableInv' BY <1>0, <1>1, <2>0, SameTable
  <2>3. EventInv' BY <1>0, <1>1, <2>0, SameEvents
  <2>4. CopyInv' BY <1>0, <1>1, <1>3, SameCopy
  <2>5. BeforeInv' BY <1>0, <1>1, <1>3, <2>0, KeepBefore
  <2>8. DoingInv' BY <1>0, <1>1, <1>3, SameDoing
  <2>6. WalkInv' BY <1>0, <1>1, <2>0 DEF WalkInv, Exists, HasEntry
  <2>7. WatchInv'
    <3>1. ASSUME NEW x \in DirPaths \cap SrcPaths, ToBeWatched(x) PROVE Lost(x)'
      <4>1. PICK q \in toWatch \cup toList : Under(x, q) BY <2>0, <3>1 DEF ToBeWatched
      <4>2. Exists(q) BY <4>1 DEF WalkInv
      <4>3. x \in Below(q) BY <4>1 DEF Below
      <4>4. x \in lost' BY <1>0, <4>2, <4>3
      <4>5. Under(x, x) BY SrcMeans, UnderOrders
      <4> QED BY <4>4, <4>5 DEF Lost
    <3> QED BY <1>0, <1>1, <1>3, <3>1, SameWatch
  <2> QED BY <1>0, <1>4, <1>5, <2>1, <2>2, <2>3, <2>4, <2>5, <2>6, <2>7, <2>8
<1> QED BY <1>0, <1>4, <1>5, <1>6

\* For a user who waits no entry goes while it is visited.
LEMMA NothingFails == ASSUME Live PROVE ~CopyFails /\ ~WatchFails
BY DEF Live, Working, WalkInv, CopyFails, WatchFails

-----------------------------------------------------------------------------
(* The event loop.                                                         *)

\* An entry has a descriptor of its own.
LEMMA OneEntry ==
  ASSUME TypeOK, TableInv
  PROVE  \A v, w \in ToSet(map) : v.wd = w.wd => v = w
<1>1. map \in Seq(Entries) BY DEF TypeOK
<1>2. DOMAIN map = 1 .. Len(map) BY <1>1, LenProperties
<1> QED BY <1>1, <1>2, ToSetMeans DEF TableInv, OneEach

\* The event that is handled next, and those after it.
LEMMA HeadMeans ==
  ASSUME TypeOK, EventInv, inbuf # <<>>
  PROVE  /\ Ev \in Pending /\ Ev \in Events /\ Tail(inbuf) \in Seq(Events)
         /\ ToSet(inbuf) = {Ev} \cup ToSet(Tail(inbuf))
         /\ Ordered(Tail(inbuf))
         /\ \A e \in ToSet(Tail(inbuf)) : Precedes(Ev, e)
<1>1. inbuf \in Seq(Events) BY DEF TypeOK
<1>2. /\ Ev \in Events /\ Tail(inbuf) \in Seq(Events)
      /\ ToSet(inbuf) = {Ev} \cup ToSet(Tail(inbuf))
  BY <1>1, ToSetTail DEF Ev
<1>3. Ordered(Tail(inbuf)) /\ \A e \in ToSet(Tail(inbuf)) : Precedes(Ev, e)
  BY <1>1, OrderedTail DEF Ev, EventInv
<1> QED BY <1>2, <1>3 DEF Pending

\* The event of a change is about one path, which the table gives.
LEMMA ChangeMeans ==
  ASSUME TypeOK, TableInv, EventInv, inbuf # <<>>, Ev.kind \in Announcing \cup Removing
  PROVE  /\ Known /\ Ev.kind # "delete_self" /\ Ev.kind # "ignored"
         /\ SrcPath \in SrcPaths \ {Src} /\ Ev.isdir = IsDir(SrcPath)
         /\ HasEntry(Parent(SrcPath))
         /\ Ev.kind \in Announcing => Exists(SrcPath)
         /\ Ev.kind \in Announcing /\ Ev.isdir => \A v \in ToSet(map) : ~Under(v.path, SrcPath)
         /\ Ev.kind \in Removing => \A x \in Paths : Under(x, SrcPath) => ~Exists(x)
         /\ \A q : NamedBy(Ev, q) <=> q = SrcPath
         /\ Telling(inbuf)
<1>1. Ev \in Pending /\ Ev \in Events BY HeadMeans
<1>2. PICK w \in ToSet(map) : ChangeAt(w, Ev) BY <1>1 DEF EventInv
<1>3. map \in Seq(Entries) BY DEF TypeOK
<1>4. w.wd = Ev.wd /\ Ev.name # "" BY <1>2 DEF ChangeAt
<1>5. Known /\ map[WatchMapFind(Ev.wd)] = w
  <2>1. Known BY <1>3, <1>4, FindMeans DEF Known
  <2>2. map[WatchMapFind(Ev.wd)] \in ToSet(map) /\ map[WatchMapFind(Ev.wd)].wd = Ev.wd
    BY <1>3, <2>1, FindMeans DEF Known
  <2> QED BY <1>4, <2>1, <2>2, OneEntry
<1>6. SrcPath = At(w, Ev) BY <1>4, <1>5 DEF SrcPath, Base, At
<1>7. w.path \in DirPaths /\ Ev.name \in DirNames \cup FileNames /\ SrcPath = w.path \o <<Ev.name>>
  BY <1>1, <1>4, <1>6, Types DEF Events, At
<1>8. SrcPath \in SrcPaths BY <1>2, <1>6 DEF ChangeAt
<1>9. SrcPath # Src /\ Parent(SrcPath) = w.path
  <2>1. w.path \o <<Ev.name>> \in Paths BY <1>7, <1>8, SrcMeans
  <2>2. w.path \o <<Ev.name>> \notin Top /\ Parent(w.path \o <<Ev.name>>) = w.path
    BY <1>7, <2>1, EntryMeans
  <2>3. SrcPath \notin Top /\ Parent(SrcPath) = w.path BY <1>7, <2>2
  <2> QED BY <2>3, SrcMeans
<1>10. HasEntry(Parent(SrcPath)) BY <1>9 DEF HasEntry
<1>11. \A q : NamedBy(Ev, q) <=> q = SrcPath
  <2>1. \A v \in ToSet(map) : v.wd = Ev.wd <=> v = w BY <1>4, OneEntry
  <2> QED BY <1>6, <2>1 DEF NamedBy
<1>12. /\ Ev.isdir = IsDir(SrcPath)
       /\ Ev.kind \in Announcing => Exists(SrcPath)
       /\ Ev.kind \in Announcing /\ Ev.isdir => \A v \in ToSet(map) : ~Under(v.path, SrcPath)
       /\ Ev.kind \in Removing => \A x \in Paths : Under(x, SrcPath) => ~Exists(x)
  BY <1>2, <1>6 DEF ChangeAt
<1>13. Ev.kind # "delete_self" /\ Ev.kind # "ignored" BY DEF Announcing, Removing
<1>14. Telling(inbuf)
  <2>1. Ev \in ToSet(inbuf) BY HeadMeans
  <2>2. Ev.kind \notin OfSelf BY <1>13 DEF OfSelf
  <2> QED BY <2>1, <2>2 DEF Telling
<1> QED BY <1>5, <1>8, <1>9, <1>10, <1>11, <1>12, <1>13, <1>14

\* What is left of the events, once the first is handled.
LEMMA HandledMeans ==
  ASSUME TypeOK, EventInv, inbuf # <<>>, inbuf' = Tail(inbuf), UNCHANGED <<queue, wdOf, doing>>
  PROVE  /\ Pending' \subseteq Pending /\ Pending \subseteq Pending' \cup {Ev}
         /\ Changes' \subseteq Changes /\ Changes \subseteq Changes' \cup {Ev}
         /\ Ev.kind \notin Announcing \cup Removing => Changes' = Changes
         /\ inbuf' \in Seq(Events) /\ \A e \in ToSet(inbuf') : e \in ToSet(inbuf)
         /\ Ordered(inbuf')
         /\ Telling(inbuf') => Telling(inbuf)
<1>1. /\ inbuf' \in Seq(Events) /\ ToSet(inbuf) = {Ev} \cup ToSet(inbuf') /\ Ordered(inbuf')
  BY HeadMeans
<1>2. Pending' \subseteq Pending /\ Pending \subseteq Pending' \cup {Ev} BY <1>1, SameComing DEF Pending
<1>3. Changes' \subseteq Changes /\ Changes \subseteq Changes' \cup {Ev} BY <1>2 DEF Changes
<1>4. Ev.kind \notin Announcing \cup Removing => Changes' = Changes BY <1>3 DEF Changes
<1>5. Telling(inbuf') => Telling(inbuf) BY <1>1 DEF Telling
<1> QED BY <1>1, <1>2, <1>3, <1>4, <1>5

\* Without the event handled, the events still say what is so.
LEMMA HandledEvents ==
  ASSUME TypeOK, EventInv, inbuf # <<>>, inbuf' = Tail(inbuf), UNCHANGED <<queue, wdOf, doing>>,
         pc = "handle", pc' \in {"handle", "sweep", "copy"},
         pc' = "copy" => /\ \A e \in Pending' : e.kind \notin Announcing \cup Removing
                        /\ \A d \in ToSet(doing) : d.kind \in OfSelf,
         \A e \in Changes' : \E w \in ToSet(map') : ChangeAt(w, e)'
  PROVE  EventInv'
<1>1. Ordered(inbuf') /\ \A e \in ToSet(inbuf') : e \in ToSet(inbuf) BY HandledMeans
<1>2. (\A e \in Pending : e.kind \in Announcing \cup Removing => \E w \in ToSet(map) : ChangeAt(w, e))'
  <2>1. \A e \in Pending' : e.kind \in Announcing \cup Removing => e \in Changes' BY DEF Changes
  <2> QED BY <2>1
<1>3. (\A e \in ToSet(inbuf) \cup ToSet(queue) : e.kind = "ignored" => ~HasWatch(e.wd))'
  <2>1. \A wd : HasWatch(wd)' <=> HasWatch(wd) BY DEF HasWatch, Inodes
  <2> QED BY <1>1, <2>1 DEF EventInv
<1>4. Ordered(inbuf)' BY <1>1 DEF Ordered, Precedes
<1>5. Ordered(queue)' BY DEF EventInv, Ordered, Precedes
<1>6. (/\ \A i, j \in DOMAIN doing : i < j => Precedes(Event(doing[i]), Event(doing[j]))
       /\ \A e \in ToSet(inbuf), f \in ToSet(queue) : Precedes(e, f)
       /\ \A e \in ToSet(inbuf) \cup ToSet(queue), d \in ToSet(doing) : Precedes(e, Event(d)))'
  <2>1. \A d : Event(d)' = Event(d) BY SameComing
  <2> QED BY <1>1, <2>1 DEF EventInv, Precedes
<1> QED BY <1>2, <1>3, <1>4, <1>5, <1>6 DEF EventInv

\* A step of the event loop keeps the types.
LEMMA HandledTypes ==
  ASSUME TypeOK, EventInv, inbuf # <<>>, inbuf' = Tail(inbuf),
         UNCHANGED <<fsvars, kernel, copied, full, lost, toRestore, toKeep, kept, before, after, half>>,
         heard' \in BOOLEAN,
         pc' \in {"handle", "sweep", "copy"},
         map' \in Seq(Entries), ToSet(map') \subseteq ToSet(map), Len(map') <= MaxWatches,
         toCopy' \subseteq SrcPaths, toWatch' \cup toList' \subseteq DirPaths \cap SrcPaths,
         gone' \in (DirPaths \cap SrcPaths) \cup {NoPath}, dst' \in [SrcPaths -> Inodes]
  PROVE  TypeOK'
<1>1. UNCHANGED <<user, node, ops, doing, wdOf, lastWd, queue, overflow>> BY DEF fsvars, kernel
<1>2. inbuf' \in Seq(Events) /\ \A e \in ToSet(inbuf') : e \in ToSet(inbuf) BY <1>1, HandledMeans
<1>3. TreeTypeOK' BY <1>1 DEF TypeOK, TreeTypeOK, Inodes
<1> QED BY <1>1, <1>2, <1>3 DEF TypeOK, Inodes

\* An event of no entry, or of no descriptor in the table, is passed over.
LEMMA SkipKeeps ==
  ASSUME Live, Skip, Aside
  PROVE  Live'
<1> USE DEF Live, Working
<1>0. /\ pc = "handle" /\ inbuf # <<>> /\ inbuf' = Tail(inbuf)
      /\ ~Known \/ Ev.kind = "delete_self"
      /\ UNCHANGED <<fsvars, kernel, pc, map, toCopy, toWatch, toList, gone, dst, copied, full, lost>>
      /\ UNCHANGED <<toRestore, toKeep, kept, before, after, half>> /\ heard' \in BOOLEAN
  BY AsideMeans DEF Skip, Handling, walk
<1>1. UNCHANGED <<user, node, ops, doing, wdOf, lastWd, queue, overflow>> BY <1>0 DEF fsvars, kernel
<1>2. Ev.kind \notin Announcing \cup Removing BY <1>0, ChangeMeans
<1>3. Changes' = Changes BY <1>0, <1>1, <1>2, HandledMeans
<1>4. TypeOK'
  <2>1. ToSet(map') \subseteq ToSet(map) BY <1>0
  <2> QED BY <1>0, <2>1, HandledTypes DEF TypeOK, Inodes
<1>5. TargetInv' BY <1>0 DEF TargetInv
<1>6. TreeInv' BY <1>1, SameTree
<1>7. TableInv' BY <1>0, <1>1, <1>3, SameTable
<1>8. EventInv'
  <2>1. \A w, e : ChangeAt(w, e)' <=> ChangeAt(w, e) BY <1>0, <1>1 DEF ChangeAt, Current, Exists
  <2>2. \A e \in Changes : \E w \in ToSet(map) : ChangeAt(w, e) BY DEF Changes, EventInv
  <2>3. \A e \in Changes' : \E w \in ToSet(map') : ChangeAt(w, e)' BY <1>0, <1>3, <2>1, <2>2
  <2> QED BY <1>0, <1>1, <2>3, HandledEvents
<1>9. CopyInv' BY <1>0, <1>1, <1>3, SameCopy
<1>10. BeforeInv'
  <2>1. Telling(inbuf') => Telling(inbuf) BY <1>0, <1>1, HandledMeans
  <2> QED BY <1>0, <1>1, <2>1, KeepBefore
<1>13. DoingInv' BY <1>0, <1>1, SameDoing
<1>11. WalkInv' BY <1>0, <1>1 DEF WalkInv, Exists, HasEntry
<1>12. WatchInv'
  <2>1. \A p \in DirPaths \cap SrcPaths : Exists(p) /\ ToBeWatched(p) => ToBeWatched(p)'
    BY <1>0 DEF ToBeWatched
  <2> QED BY <1>0, <1>1, <1>3, <2>1, SameWatch
<1> QED BY <1>0, <1>4, <1>5, <1>6, <1>7, <1>8, <1>9, <1>10, <1>11, <1>12, <1>13

\* An entry goes whose directory has gone, and the kernel's watch with it.
LEMMA EntryDropped ==
  ASSUME Live, NEW i \in 1 .. Len(map), ~Current(map[i]), pc \in {"handle", "sweep"}, pc' = pc,
         map' = RemoveSwap(map, i),
         wdOf' = [j \in Inodes |-> IF wdOf[j] = map[i].wd THEN 0 ELSE wdOf[j]],
         UNCHANGED <<node, ops, gone, dst, lost, toCopy, toWatch, toList>>,
         Changes' = Changes
  PROVE  /\ map' \in Seq(Entries) /\ ToSet(map') \subseteq ToSet(map) /\ Len(map') <= MaxWatches
         /\ wdOf' \in [Inodes -> 0 .. lastWd]
         /\ TreeInv' /\ TableInv' /\ WatchInv' /\ CopyInv'
         /\ \A e \in Changes' : \E w \in ToSet(map') : ChangeAt(w, e)'
<1> USE DEF Live, Working
<1>1. PICK w0 : w0 = map[i] OBVIOUS
<1>2. map \in Seq(Entries) /\ Len(map) <= MaxWatches BY DEF TypeOK
<1>3. w0 \in ToSet(map) /\ ~Current(w0) BY <1>1, <1>2, ToSetMeans
<1>4. /\ map' \in Seq(Entries) /\ OneEach(map') /\ ToSet(map') = ToSet(map) \ {w0}
      /\ Len(map') <= MaxWatches
  <2>1. OneEach(map) BY DEF TableInv
  <2>2. /\ map' \in Seq(Entries) /\ OneEach(map') /\ ToSet(map') = ToSet(map) \ {w0}
        /\ Len(map') = Len(map) - 1 /\ Len(map) \in Nat
    BY <1>1, <1>2, <2>1, RemoveSwapMeans
  <2> QED BY <1>2, <2>2, OrlovMirrorAssumption
<1>5. wdOf' = [j \in Inodes |-> IF wdOf[j] = w0.wd THEN 0 ELSE wdOf[j]] BY <1>1
<1>6. w0.wd # 0 /\ w0.path \in DirPaths /\ w0.path \in SrcPaths BY <1>3, Types
<1>7. \A w \in ToSet(map') : w \in ToSet(map) /\ w.wd # w0.wd /\ w.wd # 0 /\ w.path \in Paths
  <2>1. \A w \in ToSet(map) : w.wd = w0.wd => w = w0 BY <1>3, OneEntry
  <2> QED BY <1>4, <2>1, Types
<1>8. \A w \in ToSet(map') : Current(w) => Current(w)'
  <2>1. \A x \in Paths : node[x] \in Inodes BY Types
  <2> QED BY <1>5, <1>7, <2>1 DEF Current, Exists
<1>9. \A e \in Changes : \E w \in ToSet(map') : ChangeAt(w, e)
  <2>1. SUFFICES ASSUME NEW e \in Changes PROVE \E w \in ToSet(map') : ChangeAt(w, e)
    OBVIOUS
  <2>2. PICK w \in ToSet(map) : ChangeAt(w, e) BY DEF Changes, EventInv
  <2>3. w # w0 BY <1>3, <2>2 DEF ChangeAt
  <2> QED BY <1>4, <2>2, <2>3
<1>10. \A e \in Changes : \A p : NamedBy(e, p)' <=> NamedBy(e, p)
  <2>1. SUFFICES ASSUME NEW e \in Changes PROVE \A w \in ToSet(map) : w.wd = e.wd => w \in ToSet(map')
    BY <1>4 DEF NamedBy
  <2>2. PICK w \in ToSet(map') : ChangeAt(w, e) BY <1>9
  <2>3. \A v \in ToSet(map) : v.wd = e.wd => v = w BY <1>7, <2>2, OneEntry DEF ChangeAt
  <2> QED BY <2>3
<1>11. \A p : (Announced(p)' <=> Announced(p)) /\ (Removed(p)' <=> Removed(p))
  BY <1>10 DEF Announced, Removed, Changes
<1>12. Removed(w0.path) BY <1>3 DEF TableInv
<1>13. \A p, q \in SrcPaths : Removed(p) /\ Under(q, p) => Removed(q)
  <2>1. SUFFICES ASSUME NEW p \in SrcPaths, NEW q \in SrcPaths, Removed(p), Under(q, p) PROVE Removed(q)
    OBVIOUS
  <2>2. \A r \in Paths : Under(p, r) => Under(q, r) BY <2>1, SrcMeans, UnderOrders
  <2>3. CASE gone # NoPath /\ Under(p, gone)
    <3>1. gone \in Paths BY <2>3, SrcMeans DEF TypeOK
    <3> QED BY <2>2, <2>3, <3>1 DEF Removed
  <2>4. ASSUME NEW e \in Pending, NEW r \in SrcPaths, e.kind \in Removing, NamedBy(e, r), Under(p, r)
        PROVE  Removed(q)
    BY <2>2, <2>4, SrcMeans DEF Removed
  <2> QED BY <2>1, <2>3, <2>4 DEF Removed
<1>14. TreeInv'
  <2>1. (\A j, k \in Inodes : wdOf[j] # 0 /\ wdOf[j] = wdOf[k] => j = k)' BY <1>5 DEF TreeInv, Inodes
  <2> QED BY <2>1 DEF TreeInv, Exists, Fresh
<1>15. TableInv'
  <2>1. ASSUME NEW w \in ToSet(map') PROVE Current(w)' \/ Removed(w.path)'
    BY <1>7, <1>8, <1>11 DEF TableInv
  <2>2. ASSUME NEW w \in ToSet(map'), w.path # Src PROVE Removed(w.path)' \/ HasEntry(Parent(w.path))'
    <3>1. Removed(w.path) \/ HasEntry(Parent(w.path)) BY <1>7, <2>2 DEF TableInv
    <3>2. ASSUME HasEntry(Parent(w.path)), ~HasEntry(Parent(w.path))' PROVE Removed(w.path)
      <4>1. Parent(w.path) = w0.path BY <1>4, <3>2 DEF HasEntry
      <4>2. w.path \in SrcPaths BY <1>7, Types
      <4>3. Under(w.path, w0.path) BY <2>2, <4>1, <4>2, SrcMeans
      <4> QED BY <1>6, <1>12, <1>13, <4>2, <4>3
    <3> QED BY <1>11, <3>1, <3>2
  <2>3. ASSUME NEW j \in Inodes, wdOf'[j] # 0 PROVE \E w \in ToSet(map') : w.wd = wdOf'[j]
    <3>1. wdOf'[j] = wdOf[j] /\ wdOf[j] # w0.wd BY <1>5, <2>3
    <3>2. PICK w \in ToSet(map) : w.wd = wdOf[j] BY <2>3, <3>1 DEF TableInv
    <3> QED BY <1>4, <3>1, <3>2
  <2> QED BY <1>4, <2>1, <2>2, <2>3 DEF TableInv, Inodes
<1>16. WatchInv'
  <2>1. SUFFICES ASSUME NEW x \in DirPaths \cap SrcPaths, Exists(x)
                 PROVE  (\E w \in ToSet(map') : w.path = x /\ Current(w)') \/ Lost(x)' \/ Announced(x)' \/ ToBeWatched(x)'
    BY DEF WatchInv, Exists
  <2>2. Lost(x)' <=> Lost(x) BY DEF Lost
  <2>3. ToBeWatched(x)' <=> ToBeWatched(x) BY DEF ToBeWatched
  <2>4. \A w \in ToSet(map) : Current(w) => w \in ToSet(map') /\ Current(w)' BY <1>3, <1>4, <1>8
  <2> QED BY <1>11, <2>1, <2>2, <2>3, <2>4 DEF WatchInv
<1>17. CopyInv'
  <2>1. \A x : (Lost(x)' <=> Lost(x)) /\ (Exists(x)' <=> Exists(x)) /\ (Alike(node, x)' <=> Alike(node, x))
    BY DEF Lost, Exists, Alike
  <2> QED BY <1>11, <2>1 DEF CopyInv
<1>18. \A e \in Changes' : \E w \in ToSet(map') : ChangeAt(w, e)'
  <2>1. SUFFICES ASSUME NEW e \in Changes PROVE \E w \in ToSet(map') : ChangeAt(w, e)'
    OBVIOUS
  <2>2. PICK w \in ToSet(map') : ChangeAt(w, e) BY <1>9
  <2>3. Current(w)' BY <1>8, <2>2 DEF ChangeAt
  <2> QED BY <1>4, <2>2, <2>3 DEF ChangeAt, Exists
<1>19. wdOf' \in [Inodes -> 0 .. lastWd]
  <2>1. \A j \in Inodes : wdOf[j] \in 0 .. lastWd BY DEF TypeOK, TreeTypeOK
  <2>2. 0 \in 0 .. lastWd BY Types
  <2> QED BY <1>5, <2>1, <2>2
<1> QED BY <1>4, <1>14, <1>15, <1>16, <1>17, <1>18, <1>19

\* IN_IGNORED takes the entry of a watch that has ended.
LEMMA HandleIgnoredKeeps ==
  ASSUME Live, HandleIgnored, Aside
  PROVE  Live'
<1> USE DEF Live, Working
<1>0. /\ pc = "handle" /\ inbuf # <<>> /\ inbuf' = Tail(inbuf) /\ Ev.kind = "ignored" /\ Known
      /\ map' = WatchMapRemove(Ev.wd)
      /\ UNCHANGED <<fsvars, kernel, pc, toCopy, toWatch, toList, gone, dst, copied, full, lost>>
      /\ UNCHANGED <<toRestore, toKeep, kept, before, after, half>> /\ heard' \in BOOLEAN
  BY AsideMeans DEF HandleIgnored, Handling, walk
<1>1. UNCHANGED <<user, node, ops, doing, wdOf, lastWd, queue, overflow>> BY <1>0 DEF fsvars, kernel
<1>2. PICK i : i = WatchMapFind(Ev.wd) OBVIOUS
<1>3. i \in 1 .. Len(map) /\ map[i] \in ToSet(map) /\ map[i].wd = Ev.wd
  <2>1. map \in Seq(Entries) BY DEF TypeOK
  <2> QED BY <1>0, <1>2, <2>1, FindMeans DEF Known
<1>4. map' = RemoveSwap(map, i) BY <1>0, <1>2 DEF WatchMapRemove, Known
<1>5. Ev \in ToSet(inbuf) BY <1>0, HeadMeans
<1>6. ~HasWatch(map[i].wd) BY <1>0, <1>3, <1>5 DEF EventInv
<1>7. ~Current(map[i])
  <2>1. map[i].path \in Paths BY <1>3, Types
  <2>2. node[map[i].path] \in Inodes BY <2>1, Types
  <2> QED BY <1>6, <2>2 DEF Current, HasWatch
<1>8. wdOf' = [j \in Inodes |-> IF wdOf[j] = map[i].wd THEN 0 ELSE wdOf[j]]
  <2>1. wdOf \in [Inodes -> 0 .. lastWd] BY DEF TypeOK, TreeTypeOK
  <2>2. \A j \in Inodes : wdOf[j] # map[i].wd BY <1>6 DEF HasWatch
  <2> QED BY <1>1, <2>1, <2>2
<1>9. Ev.kind \notin Announcing \cup Removing BY <1>0 DEF Announcing, Removing
<1>10. Changes' = Changes BY <1>0, <1>1, <1>9, HandledMeans
<1>11. /\ map' \in Seq(Entries) /\ ToSet(map') \subseteq ToSet(map) /\ Len(map') <= MaxWatches
       /\ TreeInv' /\ TableInv' /\ WatchInv' /\ CopyInv'
       /\ \A e \in Changes' : \E w \in ToSet(map') : ChangeAt(w, e)'
  BY <1>0, <1>1, <1>3, <1>4, <1>7, <1>8, <1>10, EntryDropped
<1>12. TypeOK' BY <1>0, <1>11, HandledTypes DEF TypeOK, Inodes
<1>13. TargetInv' BY <1>0 DEF TargetInv
<1>14. EventInv' BY <1>0, <1>1, <1>11, HandledEvents
<1>15. BeforeInv'
  <2>1. Telling(inbuf') => Telling(inbuf) BY <1>0, <1>1, HandledMeans
  <2> QED BY <1>0, <1>1, <2>1, KeepBefore
<1>17. DoingInv' BY <1>0, <1>1, SameDoing
<1>16. WalkInv'
  <2>1. toCopy = {} /\ toWatch = {} /\ toList = {} BY <1>0 DEF WalkInv
  <2> QED BY <1>0, <1>1, <2>1 DEF WalkInv, Exists
<1> QED BY <1>0, <1>11, <1>12, <1>13, <1>14, <1>15, <1>16, <1>17

\* What the target is after a path is removed.
LEMMA RemoveMeans ==
  ASSUME TypeOK, TargetInv, NEW p \in SrcPaths \ {Src}, dst' = RemovePath(p), toCopy' = toCopy, pc' # "copy0",
         pc # "copy0"
  PROVE  /\ dst' \in [SrcPaths -> Inodes]
         /\ \A x \in SrcPaths : dst'[x] = IF Under(x, p) THEN 0 ELSE dst[x]
         /\ TargetInv'
<1>1. dst' = [x \in SrcPaths |-> IF Under(x, p) THEN 0 ELSE dst[x]] BY DEF RemovePath
<1>2. \A x \in SrcPaths : dst[x] \in Inodes BY Types
<1>3. dst' \in [SrcPaths -> Inodes] BY <1>1, <1>2, InodesMeans
<1>4. \A x \in SrcPaths : dst'[x] = IF Under(x, p) THEN 0 ELSE dst[x] BY <1>1
<1>5. ASSUME NEW x \in SrcPaths \ {Src}, dst'[x] # 0 PROVE dst'[Parent(x)] # 0
  <2>1. x \in Paths /\ Parent(x) \in SrcPaths /\ Parent(x) \in Paths /\ Under(x, Parent(x)) BY SrcMeans
  <2>2. ~Under(x, p) /\ dst[x] # 0 BY <1>4, <1>5
  <2>3. ~Under(Parent(x), p) BY <2>1, <2>2, SrcMeans, UnderOrders
  <2> QED BY <1>4, <2>1, <2>2, <2>3 DEF TargetInv
<1>6. dst'[Src] # 0
  <2>1. ~Under(Src, p) /\ dst[Src] # 0 BY SrcMeans DEF TargetInv
  <2> QED BY <1>4, <2>1, SrcMeans
<1> QED BY <1>3, <1>4, <1>5, <1>6 DEF TargetInv

\* A file that has gone is removed from the target.
LEMMA HandleRemovalKeeps ==
  ASSUME Live, HandleRemoval, Aside
  PROVE  Live'
<1> USE DEF Live, Working
<1>p. PICK p : p = SrcPath OBVIOUS
<1>0. /\ pc = "handle" /\ inbuf # <<>> /\ inbuf' = Tail(inbuf) /\ Ev.kind \in Removing /\ ~Ev.isdir
      /\ dst' = RemovePath(p)
      /\ UNCHANGED <<fsvars, kernel, pc, map, toCopy, toWatch, toList, gone, copied, full, lost>>
      /\ UNCHANGED <<toRestore, toKeep, kept, before, after, half>> /\ heard' \in BOOLEAN
  BY <1>p, AsideMeans DEF HandleRemoval, Handling, walk, Removing
<1>1. UNCHANGED <<user, node, ops, doing, wdOf, lastWd, queue, overflow>> BY <1>0 DEF fsvars, kernel
<1>2. /\ p \in SrcPaths \ {Src} /\ ~IsDir(p) /\ p \in Paths
      /\ \A x \in Paths : Under(x, p) => ~Exists(x)
      /\ \A q : NamedBy(Ev, q) <=> q = p
      /\ Telling(inbuf)
  <2>1. Ev.kind \in Announcing \cup Removing BY <1>0
  <2> QED BY <1>p, <1>0, <2>1, ChangeMeans, SrcMeans
<1>3. /\ Changes' \subseteq Changes /\ Changes \subseteq Changes' \cup {Ev}
  BY <1>0, <1>1, HandledMeans
<1>4. \A x \in SrcPaths : Under(x, p) <=> x = p BY <1>2, BelowDirs, UnderOrders, SrcMeans DEF IsDir
<1>5. \A e, x : NamedBy(e, x)' <=> NamedBy(e, x) BY <1>0 DEF NamedBy
<1>6. \A x \in SrcPaths : x # p /\ Removed(x) => Removed(x)'
  <2>1. SUFFICES ASSUME NEW x \in SrcPaths, x # p, NEW e \in Changes, NEW q \in SrcPaths,
                        e.kind \in Removing, NamedBy(e, q), Under(x, q)
                 PROVE  Removed(x)'
    BY <1>0 DEF Removed, Changes
  <2>2. e # Ev BY <1>2, <1>4, <2>1
  <2> QED BY <1>3, <1>5, <2>1, <2>2 DEF Removed, Changes
<1>7. \A x : Announced(x) <=> Announced(x)'
  <2>1. Ev.kind \notin Announcing BY <1>0 DEF Announcing, Removing
  <2> QED BY <1>3, <1>5, <2>1 DEF Announced, Changes
<1>8. /\ dst' \in [SrcPaths -> Inodes] /\ TargetInv'
      /\ \A x \in SrcPaths : dst'[x] = IF x = p THEN 0 ELSE dst[x]
  BY <1>0, <1>2, <1>4, RemoveMeans
<1>9. TypeOK'
  <2>1. ToSet(map') \subseteq ToSet(map) BY <1>0
  <2> QED BY <1>0, <1>8, <2>1, HandledTypes DEF TypeOK, Inodes
<1>10. TreeInv' BY <1>1, SameTree
<1>11. TableInv'
  <2>1. ASSUME NEW w \in ToSet(map) PROVE w.path \in SrcPaths /\ w.path # p /\ (Removed(w.path) => Removed(w.path)')
    <3>1. w.path \in SrcPaths /\ w.path \in DirPaths BY Types
    <3> QED BY <1>2, <1>6, <3>1 DEF IsDir
  <2>2. \A w : Current(w)' <=> Current(w) BY <1>1 DEF Current, Exists
  <2>3. \A x : HasEntry(x)' <=> HasEntry(x) BY <1>0 DEF HasEntry
  <2> QED BY <1>0, <1>1, <2>1, <2>2, <2>3 DEF TableInv, Inodes
<1>12. EventInv'
  <2>1. \A w, e : ChangeAt(w, e)' <=> ChangeAt(w, e) BY <1>0, <1>1 DEF ChangeAt, Current, Exists
  <2>2. \A e \in Changes : \E w \in ToSet(map) : ChangeAt(w, e) BY DEF Changes, EventInv
  <2>3. \A e \in Changes' : \E w \in ToSet(map') : ChangeAt(w, e)' BY <1>0, <1>3, <2>1, <2>2
  <2> QED BY <1>0, <1>1, <2>3, HandledEvents
<1>a. Alike(node, p)'
  <2>1. node[p] = 0 BY <1>2, UnderOrders DEF Exists
  <2> QED BY <1>1, <1>2, <1>8, <2>1 DEF Alike, IsDir
<1>13. CopyInv'
  <2>1. \A x : (Lost(x)' <=> Lost(x)) /\ (Exists(x)' <=> Exists(x)) BY <1>0, <1>1 DEF Lost, Exists
  <2>2. \A x \in SrcPaths \ {p} : Alike(node, x)' <=> Alike(node, x) BY <1>1, <1>8 DEF Alike
  <2> QED BY <1>0, <1>6, <1>7, <1>a, <2>1, <2>2 DEF CopyInv
<1>14. BeforeInv' BY <1>0, <1>1, <1>2, <1>8, <1>a, KeepBefore
<1>17. DoingInv' BY <1>0, <1>1, SameDoing
<1>15. WalkInv' BY <1>0, <1>1 DEF WalkInv, Exists, HasEntry
<1>16. WatchInv'
  <2>1. \A x \in DirPaths \cap SrcPaths : ToBeWatched(x) => ToBeWatched(x)'
    BY <1>0 DEF ToBeWatched
  <2> QED BY <1>0, <1>1, <1>7, <2>1, KeepWatch
<1> QED BY <1>0, <1>8, <1>9, <1>10, <1>11, <1>12, <1>13, <1>14, <1>15, <1>16, <1>17

\* A directory that has gone: its entries are to be swept.
LEMMA HandleDirRemovalKeeps ==
  ASSUME Live, HandleDirRemoval, Aside
  PROVE  Live'
<1> USE DEF Live, Working
<1>p. PICK p : p = SrcPath OBVIOUS
<1>0. /\ pc = "handle" /\ inbuf # <<>> /\ inbuf' = Tail(inbuf) /\ Ev.kind \in Removing /\ Ev.isdir
      /\ pc' = "sweep" /\ gone' = p
      /\ UNCHANGED <<fsvars, kernel, map, toCopy, toWatch, toList, dst, copied, full, lost>>
      /\ UNCHANGED <<toRestore, toKeep, kept, before, after, half>> /\ heard' \in BOOLEAN
  BY <1>p, AsideMeans DEF HandleDirRemoval, Handling, Removing
<1>1. UNCHANGED <<user, node, ops, doing, wdOf, lastWd, queue, overflow>> BY <1>0 DEF fsvars, kernel
<1>2. /\ p \in SrcPaths \ {Src} /\ p \in DirPaths /\ p \in Paths
      /\ \A x \in Paths : Under(x, p) => ~Exists(x)
      /\ \A q : NamedBy(Ev, q) <=> q = p
      /\ Telling(inbuf)
  <2>1. Ev.kind \in Announcing \cup Removing BY <1>0
  <2> QED BY <1>p, <1>0, <2>1, ChangeMeans, SrcMeans DEF IsDir
<1>3. /\ Changes' \subseteq Changes /\ Changes \subseteq Changes' \cup {Ev}
  BY <1>0, <1>1, HandledMeans
<1>4. gone = NoPath /\ gone' # NoPath
  <2>1. p # NoPath
    <3>1. Len(p) # 0 BY <1>2, PathMeans
    <3> QED BY <3>1 DEF NoPath
  <2> QED BY <1>0, <2>1 DEF WalkInv
<1>5. \A e, x : NamedBy(e, x)' <=> NamedBy(e, x) BY <1>0 DEF NamedBy
<1>6. \A x : Removed(x) => Removed(x)'
  <2>1. SUFFICES ASSUME NEW x, NEW e \in Changes, NEW q \in SrcPaths,
                        e.kind \in Removing, NamedBy(e, q), Under(x, q)
                 PROVE  Removed(x)'
    BY <1>4 DEF Removed, Changes
  <2>2. CASE e = Ev BY <1>0, <1>2, <1>4, <2>1, <2>2 DEF Removed
  <2>3. CASE e # Ev BY <1>3, <1>5, <2>1, <2>3 DEF Removed, Changes
  <2> QED BY <2>2, <2>3
<1>7. \A x : Announced(x) <=> Announced(x)'
  <2>1. Ev.kind \notin Announcing BY <1>0 DEF Announcing, Removing
  <2> QED BY <1>3, <1>5, <2>1 DEF Announced, Changes
<1>9. TypeOK'
  <2>1. ToSet(map') \subseteq ToSet(map) BY <1>0
  <2> QED BY <1>0, <1>2, <2>1, HandledTypes DEF TypeOK, Inodes
<1>10. TreeInv' BY <1>1, SameTree
<1>11. TableInv' BY <1>0, <1>1, <1>6, KeepTable
<1>12. EventInv'
  <2>1. \A w, e : ChangeAt(w, e)' <=> ChangeAt(w, e) BY <1>0, <1>1 DEF ChangeAt, Current, Exists
  <2>2. \A e \in Changes : \E w \in ToSet(map) : ChangeAt(w, e) BY DEF Changes, EventInv
  <2>3. \A e \in Changes' : \E w \in ToSet(map') : ChangeAt(w, e)' BY <1>0, <1>3, <2>1, <2>2
  <2> QED BY <1>0, <1>1, <2>3, HandledEvents
<1>13. CopyInv' BY <1>0, <1>1, <1>6, <1>7, KeepCopy
<1>14. BeforeInv' BY <1>0, <1>1, <1>2, KeepBefore
<1>18. DoingInv' BY <1>0, <1>1, SameDoing
<1>15. WalkInv'
  <2>1. toCopy = {} /\ toWatch = {} /\ toList = {} BY <1>0 DEF WalkInv
  <2> QED BY <1>0, <1>1, <1>2, <1>4, <2>1 DEF WalkInv, Exists
<1>16. WatchInv'
  <2>1. \A x \in DirPaths \cap SrcPaths : ToBeWatched(x) => ToBeWatched(x)'
    BY <1>0 DEF ToBeWatched
  <2> QED BY <1>0, <1>1, <1>7, <2>1, KeepWatch
<1>17. TargetInv' BY <1>0 DEF TargetInv
<1> QED BY <1>0, <1>9, <1>10, <1>11, <1>12, <1>13, <1>14, <1>15, <1>16, <1>17, <1>18

\* A directory that is new is to be copied and watched.
LEMMA HandleNewDirKeeps ==
  ASSUME Live, HandleNewDir, Aside
  PROVE  Live'
<1> USE DEF Live, Working
<1>p. PICK p : p = SrcPath OBVIOUS
<1>0. /\ pc = "handle" /\ inbuf # <<>> /\ inbuf' = Tail(inbuf) /\ Ev.kind \in Announcing /\ Ev.isdir
      /\ toCopy' = {p} /\ toWatch' = {p} /\ pc' = "copy"
      /\ UNCHANGED <<fsvars, kernel, map, toList, gone, dst, copied, full, lost>>
      /\ UNCHANGED <<toRestore, toKeep, kept, before, after, half>> /\ heard' \in BOOLEAN
  BY <1>p, AsideMeans DEF HandleNewDir, Handling, Announcing
<1>1. UNCHANGED <<user, node, ops, doing, wdOf, lastWd, queue, overflow>> BY <1>0 DEF fsvars, kernel
<1>2. /\ p \in SrcPaths \ {Src} /\ p \in DirPaths /\ p \in Paths
      /\ HasEntry(Parent(p)) /\ Exists(p)
      /\ \A v \in ToSet(map) : ~Under(v.path, p)
      /\ \A q : NamedBy(Ev, q) <=> q = p
      /\ Telling(inbuf)
  <2>1. Ev.kind \in Announcing \cup Removing BY <1>0
  <2> QED BY <1>p, <1>0, <2>1, ChangeMeans, SrcMeans DEF IsDir
<1>3. /\ Changes' = {} /\ Changes \subseteq {Ev}
      /\ \A d \in ToSet(doing) : d.kind \in OfSelf
  <2>0. \A e : Precedes(Ev, e) => e.kind \notin Announcing \cup Removing BY <1>0 DEF Precedes
  <2>1. \A e \in ToSet(inbuf') : e.kind \notin Announcing \cup Removing BY <1>0, <2>0, HeadMeans
  <2>2. Ev \in ToSet(inbuf) BY <1>0, HeadMeans
  <2>3. \A e \in ToSet(queue') : e.kind \notin Announcing \cup Removing
    BY <1>0, <1>1, <2>0, <2>2 DEF EventInv
  <2>4. \A d \in ToSet(doing) : Event(d).kind \notin Announcing \cup Removing BY <2>0, <2>2 DEF EventInv
  <2>5. \A d \in ToSet(doing) : d.kind \in OfSelf
    <3>1. \A d \in ToSet(doing) : d \in Reports BY Types, ToSetMeans
    <3>2. \A d \in ToSet(doing) : Event(d).kind = (IF d.kind = "write" THEN "modify" ELSE d.kind)
      BY DEF Event
    <3> QED BY <2>4, <3>1, <3>2 DEF Reports, Announcing, Removing, OfSelf
  <2>6. \A e \in Coming' : e.kind \notin Announcing \cup Removing
    <3>1. Coming' = Coming BY <1>1, SameComing
    <3> QED BY <2>4, <3>1 DEF Coming
  <2>7. Changes' = {} BY <2>1, <2>3, <2>6 DEF Changes, Pending
  <2> QED BY <1>0, <1>1, <2>5, <2>7, HandledMeans
<1>4. gone = NoPath /\ toCopy = {} /\ toWatch = {} /\ toList = {} BY <1>0 DEF WalkInv
<1>5. \A x : ~Removed(x)
  <2>1. Ev.kind \notin Removing BY <1>0 DEF Announcing, Removing
  <2> QED BY <1>3, <1>4, <2>1 DEF Removed, Changes
<1>6. \A x : Announced(x) => Under(x, p) BY <1>2, <1>3 DEF Announced, Changes
<1>7. TypeOK'
  <2>1. ToSet(map') \subseteq ToSet(map) BY <1>0
  <2>2. toCopy' \subseteq SrcPaths /\ toWatch' \cup toList' \subseteq DirPaths \cap SrcPaths
    BY <1>0, <1>2, <1>4
  <2> QED BY <1>0, <2>1, <2>2, HandledTypes DEF TypeOK, Inodes
<1>8. TreeInv' BY <1>1, SameTree
<1>9. TableInv' BY <1>0, <1>1, <1>5, KeepTable
<1>10. EventInv'
  <2>1. \A e \in Pending' : e.kind \notin Announcing \cup Removing BY <1>3 DEF Changes
  <2>2. \A e \in Changes' : \E w \in ToSet(map') : ChangeAt(w, e)' BY <1>3
  <2> QED BY <1>0, <1>1, <1>3, <2>1, <2>2, HandledEvents
<1>11. CopyInv'
  <2>1. \A x \in SrcPaths : Announced(x) => \E q \in toCopy' : Under(x, q) BY <1>0, <1>6
  <2> QED BY <1>0, <1>1, <1>4, <1>5, <2>1, KeepCopy
<1>12. BeforeInv' BY <1>0, <1>1, <1>2, KeepBefore
<1>16. DoingInv' BY <1>0, <1>1, SameDoing
<1>13. WalkInv'
  <2>1. \A x : (Exists(x)' <=> Exists(x)) /\ (HasEntry(x)' <=> HasEntry(x)) BY <1>0, <1>1 DEF Exists, HasEntry
  <2> QED BY <1>0, <1>1, <1>2, <1>4, <2>1 DEF WalkInv
<1>14. WatchInv'
  <2>1. \A x \in DirPaths \cap SrcPaths : Announced(x) => ToBeWatched(x)' BY <1>0, <1>6 DEF ToBeWatched
  <2>2. \A x \in DirPaths \cap SrcPaths : ~ToBeWatched(x) BY <1>0, <1>4 DEF ToBeWatched
  <2> QED BY <1>0, <1>1, <2>1, <2>2, KeepWatch
<1>15. TargetInv'
  <2>1. dst[Src] # 0 BY <1>0 DEF TargetInv
  <2> QED BY <1>0, <2>1 DEF TargetInv
<1> QED BY <1>0, <1>7, <1>8, <1>9, <1>10, <1>11, <1>12, <1>13, <1>14, <1>15, <1>16

\* A file that is new or was written is copied.
LEMMA HandleFileKeeps ==
  ASSUME Live, HandleFile, Aside
  PROVE  Live'
<1> USE DEF Live, Working
<1>p. PICK p : p = SrcPath OBVIOUS
<1>0. /\ pc = "handle" /\ inbuf # <<>> /\ inbuf' = Tail(inbuf) /\ Ev.kind \in Announcing
      /\ Ev.isdir => ~Exists(p)
      /\ dst' = IF Exists(p) THEN CopyFile(p) ELSE dst
      /\ UNCHANGED <<fsvars, kernel, pc, map, toCopy, toWatch, toList, gone, copied, full, lost>>
      /\ UNCHANGED <<toRestore, toKeep, kept, before, after, half>> /\ heard' \in BOOLEAN
  BY <1>p, AsideMeans DEF HandleFile, Handling, walk, Announcing
<1>1. UNCHANGED <<user, node, ops, doing, wdOf, lastWd, queue, overflow>> BY <1>0 DEF fsvars, kernel
<1>2. /\ p \in SrcPaths \ {Src} /\ p \in Paths /\ Exists(p) /\ Ev.isdir = IsDir(p)
      /\ \A q : NamedBy(Ev, q) <=> q = p
      /\ Telling(inbuf)
  <2>1. Ev.kind \in Announcing \cup Removing BY <1>0
  <2> QED BY <1>p, <1>0, <2>1, ChangeMeans, SrcMeans
<1>3. ~IsDir(p) /\ dst' = CopyFile(p) BY <1>0, <1>2
<1>4. /\ Changes' \subseteq Changes /\ Changes \subseteq Changes' \cup {Ev}
  BY <1>0, <1>1, HandledMeans
<1>5. \A x \in SrcPaths : Under(x, p) <=> x = p BY <1>2, <1>3, BelowDirs, UnderOrders, SrcMeans DEF IsDir
<1>6. \A e, x : NamedBy(e, x)' <=> NamedBy(e, x) BY <1>0 DEF NamedBy
<1>7. \A x \in SrcPaths : x # p /\ Announced(x) => Announced(x)'
  <2>1. SUFFICES ASSUME NEW x \in SrcPaths, x # p, NEW e \in Changes, NEW q \in SrcPaths,
                        e.kind \in Announcing, NamedBy(e, q), Under(x, q)
                 PROVE  Announced(x)'
    BY DEF Announced, Changes
  <2>2. e # Ev BY <1>2, <1>5, <2>1
  <2> QED BY <1>4, <1>6, <2>1, <2>2 DEF Announced, Changes
<1>8. \A x : Removed(x) <=> Removed(x)'
  <2>1. Ev.kind \notin Removing BY <1>0 DEF Announcing, Removing
  <2> QED BY <1>0, <1>4, <1>6, <2>1 DEF Removed, Changes
<1>9. /\ dst' \in [SrcPaths -> Inodes]
      /\ \A x \in SrcPaths : Under(p, x) => dst'[x] # 0
      /\ \A x \in SrcPaths : ~Under(p, x) => dst'[x] = dst[x]
      /\ dst'[p] = node[p]
  BY <1>2, <1>3, CopyMeans
<1>10. TargetInv' BY <1>2, <1>9, CopyKeepsTarget
<1>11. TypeOK'
  <2>1. ToSet(map') \subseteq ToSet(map) BY <1>0
  <2> QED BY <1>0, <1>9, <2>1, HandledTypes DEF TypeOK, Inodes
<1>12. TreeInv' BY <1>1, SameTree
<1>13. TableInv' BY <1>0, <1>1, <1>8, KeepTable
<1>14. EventInv'
  <2>1. \A w, e : ChangeAt(w, e)' <=> ChangeAt(w, e) BY <1>0, <1>1 DEF ChangeAt, Current, Exists
  <2>2. \A e \in Changes : \E w \in ToSet(map) : ChangeAt(w, e) BY DEF Changes, EventInv
  <2>3. \A e \in Changes' : \E w \in ToSet(map') : ChangeAt(w, e)' BY <1>0, <1>4, <2>1, <2>2
  <2> QED BY <1>0, <1>1, <2>3, HandledEvents
<1>a. \A x \in SrcPaths : Under(p, x) => Alike(node, x)'
  <2>1. SUFFICES ASSUME NEW x \in SrcPaths, Under(p, x) PROVE Alike(node, x)' OBVIOUS
  <2>2. x \in Paths BY SrcMeans
  <2>3. Exists(x) BY <1>2, <2>1, <2>2, ExistsUpwards
  <2>4. CASE x = p BY <1>1, <1>3, <1>9, <2>4 DEF Alike, IsDir
  <2>5. CASE x # p
    <3>1. IsDir(x) BY <1>2, <2>1, <2>2, <2>5, BelowDirs DEF IsDir
    <3> QED BY <1>1, <1>9, <2>1, <2>3, <3>1 DEF Alike, Exists, IsDir
  <2> QED BY <2>4, <2>5
<1>15. CopyInv'
  <2>1. SUFFICES ASSUME NEW x \in SrcPaths
                 PROVE  (\/ Alike(node, x) \/ Lost(x)
                         \/ Exists(x) /\ (Announced(x) \/ \E q \in toCopy : Under(x, q))
                         \/ ~Exists(x) /\ Removed(x))'
    BY DEF CopyInv
  <2>2. (Lost(x)' <=> Lost(x)) /\ (Exists(x)' <=> Exists(x)) BY <1>0, <1>1 DEF Lost, Exists
  <2>3. x \in Paths BY SrcMeans
  <2>4. CASE Under(p, x) BY <1>a, <2>4
  <2>5. CASE ~Under(p, x)
    <3>1. Alike(node, x)' <=> Alike(node, x) BY <1>1, <1>9, <2>5 DEF Alike, IsDir
    <3>2. x # p BY <2>3, <2>5, UnderOrders
    <3> QED BY <1>0, <1>7, <1>8, <2>2, <3>1, <3>2 DEF CopyInv
  <2> QED BY <2>4, <2>5
<1>16. BeforeInv' BY <1>0, <1>1, <1>2, <1>9, <1>a, KeepBefore
<1>19. DoingInv' BY <1>0, <1>1, SameDoing
<1>17. WalkInv' BY <1>0, <1>1 DEF WalkInv, Exists, HasEntry
<1>18. WatchInv'
  <2>1. \A x \in DirPaths \cap SrcPaths : ToBeWatched(x) => ToBeWatched(x)'
    BY <1>0 DEF ToBeWatched
  <2>2. \A x \in DirPaths \cap SrcPaths : Announced(x) => Announced(x)' BY <1>3, <1>7 DEF IsDir
  <2> QED BY <1>0, <1>1, <2>1, <2>2, KeepWatch
<1> QED BY <1>0, <1>10, <1>11, <1>12, <1>13, <1>14, <1>15, <1>16, <1>17, <1>18, <1>19

\* The sweep has ended: the directory is removed from the target.
LEMMA RemoveDirKeeps ==
  ASSUME Live, RemoveDir, Aside
  PROVE  Live'
<1> USE DEF Live, Working
<1>0. /\ pc = "sweep" /\ pc' = "handle" /\ gone' = NoPath
      /\ \A w \in ToSet(map) : ~Under(w.path, gone)
      /\ dst' = RemovePath(gone)
      /\ UNCHANGED <<fsvars, kernel, inbuf, map, toCopy, toWatch, toList, copied, full, lost>>
      /\ UNCHANGED <<toRestore, toKeep, kept, before, after, half>> /\ heard' \in BOOLEAN
  BY AsideMeans DEF RemoveDir
<1>1. UNCHANGED <<user, node, ops, doing, wdOf, lastWd, queue, overflow, Pending, Changes>>
  BY <1>0, SameComing DEF fsvars, kernel, Pending, Changes
<1>2. /\ gone \in SrcPaths \ {Src} /\ gone # NoPath
      /\ \A x \in Paths : Under(x, gone) => ~Exists(x)
  BY <1>0 DEF WalkInv, TypeOK
<1>3. \A e, x : NamedBy(e, x)' <=> NamedBy(e, x) BY <1>0 DEF NamedBy
<1>4. \A x : ~Under(x, gone) /\ Removed(x) => Removed(x)' BY <1>1, <1>3 DEF Removed
<1>5. \A x : Announced(x) <=> Announced(x)' BY <1>1, <1>3 DEF Announced
<1>6. /\ dst' \in [SrcPaths -> Inodes] /\ TargetInv'
      /\ \A x \in SrcPaths : dst'[x] = IF Under(x, gone) THEN 0 ELSE dst[x]
  BY <1>0, <1>2, RemoveMeans
<1>7. TypeOK' BY <1>0, <1>1, <1>6 DEF TypeOK, TreeTypeOK, Inodes
<1>8. TreeInv' BY <1>1, SameTree
<1>9. TableInv'
  <2>1. \A w : Current(w)' <=> Current(w) BY <1>1 DEF Current, Exists
  <2>2. \A x : HasEntry(x)' <=> HasEntry(x) BY <1>0 DEF HasEntry
  <2>3. \A w \in ToSet(map) : Removed(w.path) => Removed(w.path)' BY <1>0, <1>4
  <2> QED BY <1>0, <1>1, <2>1, <2>2, <2>3 DEF TableInv, Inodes
<1>10. EventInv' BY <1>0, <1>1, SameEvents
<1>a. \A x \in SrcPaths : Under(x, gone) => Alike(node, x)'
  <2>1. \A x \in SrcPaths : Under(x, gone) => node[x] = 0 BY <1>2, SrcMeans DEF Exists
  <2> QED BY <1>1, <1>6, <2>1 DEF Alike
<1>11. CopyInv'
  <2>1. \A x : (Lost(x)' <=> Lost(x)) /\ (Exists(x)' <=> Exists(x)) BY <1>0, <1>1 DEF Lost, Exists
  <2>2. \A x \in SrcPaths : ~Under(x, gone) => (Alike(node, x)' <=> Alike(node, x)) BY <1>1, <1>6 DEF Alike
  <2> QED BY <1>0, <1>4, <1>5, <1>a, <2>1, <2>2 DEF CopyInv
<1>12. BeforeInv' BY <1>0, <1>1, <1>6, <1>a, KeepBefore
<1>15. DoingInv' BY <1>0, <1>1, SameDoing
<1>13. WalkInv' BY <1>0, <1>1 DEF WalkInv, Exists, HasEntry
<1>14. WatchInv'
  <2>1. \A x \in DirPaths \cap SrcPaths : ToBeWatched(x) => ToBeWatched(x)'
    BY <1>0 DEF ToBeWatched
  <2> QED BY <1>0, <1>1, <1>5, <2>1, KeepWatch
<1> QED BY <1>0, <1>6, <1>7, <1>8, <1>9, <1>10, <1>11, <1>12, <1>13, <1>14, <1>15

\* The sweep takes one entry, and its watch with it.
LEMMA RemoveWatchUnderKeeps ==
  ASSUME Live, RemoveWatchUnder, Aside, ~overflow'
  PROVE  Live'
<1> USE DEF Live, Working
<1>1. PICK i : i = SelectInSeq(map, LAMBDA w : Under(w.path, gone)) OBVIOUS
<1>0. /\ pc = "sweep" /\ i # 0
      /\ RemoveWatch(map[i].wd)
      /\ map' = RemoveSwap(map, i)
      /\ lost' = lost \cup {w.path : w \in {v \in ToSet(map') : v.wd = map[i].wd /\ ~Under(v.path, gone)}}
      /\ UNCHANGED <<user, node, ops, doing, lastWd, pc, inbuf, toCopy, toWatch, toList, gone, dst, copied, full>>
      /\ UNCHANGED <<toRestore, toKeep, kept, before, after, half>> /\ heard' \in BOOLEAN
  BY <1>1, AsideMeans DEF RemoveWatchUnder, walk, fsvars
<1>2. map \in Seq(Entries) BY DEF TypeOK
<1>3. i \in 1 .. Len(map) /\ map[i] \in ToSet(map) /\ Under(map[i].path, gone)
  BY <1>0, <1>1, <1>2, FindUnder
<1>4. /\ map[i].wd \in Nat /\ map[i].wd # 0 /\ map[i].wd \in 1 .. lastWd /\ map[i].path \in Paths
  BY <1>3, Types DEF TypeOK
<1>5. ~Current(map[i])
  <2>1. \A x \in Paths : Under(x, gone) => ~Exists(x) BY <1>0 DEF WalkInv
  <2> QED BY <1>3, <1>4, <2>1 DEF Current
<1>6. wdOf' = [j \in Inodes |-> IF wdOf[j] = map[i].wd THEN 0 ELSE wdOf[j]]
  BY <1>0 DEF RemoveWatch
<1>7. lost' = lost
  <2>1. OneEach(map) BY DEF TableInv
  <2>2. ToSet(map') = ToSet(map) \ {map[i]} BY <1>0, <1>2, <1>3, <2>1, RemoveSwapMeans
  <2>3. \A v \in ToSet(map') : v.wd # map[i].wd BY <1>3, <2>2, OneEntry
  <2> QED BY <1>0, <2>3
<1>8. /\ queue' \in Seq(Events) /\ Len(queue') <= QueueMax /\ ToSet(queue') \subseteq ToSet(queue) \cup {Ignored(map[i].wd)}
      /\ ToSet(queue) \subseteq ToSet(queue') /\ overflow' = overflow
      /\ queue' = queue \/ queue' = Append(queue, Ignored(map[i].wd))
  <2>1. Now \in KernelStates /\ Now.queue = queue /\ Now.overflow = overflow /\ Len(queue) <= QueueMax
    BY NowMeans
  <2> DEFINE k == Post(Now, Ignored(map[i].wd))
  <2>2. Ignored(map[i].wd) \in Events /\ Ignored(map[i].wd).wd # 0 BY <1>4, IgnoredMeans
  <2>3. CASE HasWatch(map[i].wd)
    <3>1. queue' = k.queue /\ overflow' = k.overflow BY <1>0, <2>3 DEF RemoveWatch, Emit
    <3>2. /\ k \in KernelStates /\ (Now.overflow => k.overflow)
          /\ ~k.overflow => /\ ToSet(k.queue) = ToSet(Now.queue) \cup {Ignored(map[i].wd)}
                            /\ k.queue = Now.queue \/ k.queue = Append(Now.queue, Ignored(map[i].wd))
          /\ Len(k.queue) <= QueueMax
      BY <2>1, <2>2, PostMeans
    <3> HIDE DEF k
    <3>3. k.queue \in Seq(Events) /\ k.overflow \in BOOLEAN BY <3>2 DEF KernelStates
    <3>4. overflow \in BOOLEAN BY DEF TypeOK, TreeTypeOK
    <3> QED BY <2>1, <3>1, <3>2, <3>3, <3>4
  <2>4. CASE ~HasWatch(map[i].wd)
    <3>1. queue' = queue /\ overflow' = overflow BY <1>0, <2>1, <2>4 DEF RemoveWatch, Emit
    <3> QED BY <2>1, <3>1 DEF KernelStates
  <2> QED BY <2>3, <2>4
<1>9. Ignored(map[i].wd).kind = "ignored" /\ Ignored(map[i].wd).wd = map[i].wd /\ Ignored(map[i].wd).cookie = 0
  BY <1>4, IgnoredMeans
<1>10. "ignored" \notin Announcing \cup Removing BY DEF Announcing, Removing
<1>a. \A d \in ToSet(doing) : d \in Reports /\ d.dir \in Inodes /\ (d.kind \notin OfSelf => wdOf[d.dir] # map[i].wd)
  <2>1. SUFFICES ASSUME NEW d \in ToSet(doing)
                 PROVE  /\ d \in Reports /\ d.dir \in Inodes
                        /\ d.kind \notin OfSelf => wdOf[d.dir] # map[i].wd
    OBVIOUS
  <2>2. d \in Reports BY Types, ToSetMeans
  <2>3. /\ d.dir \in Inodes /\ Event(d).wd = wdOf[d.dir]
        /\ Event(d).kind = (IF d.kind = "write" THEN "modify" ELSE d.kind)
    BY <2>2, ReportMeans
  <2>4. d.kind \notin OfSelf => Event(d).kind \in Announcing \cup Removing
    BY <2>2, <2>3 DEF Reports, OfSelf, Announcing, Removing
  <2>5. SUFFICES ASSUME d.kind \notin OfSelf, wdOf[d.dir] = map[i].wd PROVE FALSE BY <2>2, <2>3
  <2>6. Event(d) \in Pending BY <1>4, <2>3, <2>5 DEF Pending, Coming
  <2>7. PICK w \in ToSet(map) : ChangeAt(w, Event(d)) BY <2>4, <2>5, <2>6 DEF EventInv
  <2>8. w.wd = map[i].wd /\ Current(w) BY <2>3, <2>5, <2>7 DEF ChangeAt
  <2> QED BY <1>3, <1>5, <2>8, OneEntry
<1>b. \A d \in ToSet(doing) : /\ wdOf[d.dir] # map[i].wd => Event(d)' = Event(d)
                              /\ wdOf[d.dir] = map[i].wd => Event(d)'.wd = 0
                              /\ Event(d)'.kind = Event(d).kind /\ Event(d)'.isdir = Event(d).isdir
  BY <1>6, <1>a DEF Event
<1>11. Changes' = Changes
  <2>1. \A e \in ToSet(queue') \ ToSet(queue) : e.kind \notin Announcing \cup Removing BY <1>8, <1>9, <1>10
  <2>2. \A d \in ToSet(doing) : Event(d).kind \in Announcing \cup Removing => Event(d)' = Event(d)
    <3>1. \A d \in ToSet(doing) : Event(d).kind \in Announcing \cup Removing => d.kind \notin OfSelf
      BY DEF Event, OfSelf, Announcing, Removing
    <3> QED BY <1>a, <1>b, <3>1
  <2>3. \A e : e.kind \in Announcing \cup Removing => (e \in Coming' <=> e \in Coming)
    <3>1. ToSet(doing)' = ToSet(doing) BY <1>0
    <3> QED BY <1>b, <2>2, <3>1 DEF Coming
  <2> QED BY <1>0, <1>8, <2>1, <2>3 DEF Changes, Pending
<1>12. /\ map' \in Seq(Entries) /\ ToSet(map') \subseteq ToSet(map) /\ Len(map') <= MaxWatches
       /\ wdOf' \in [Inodes -> 0 .. lastWd]
       /\ TreeInv' /\ TableInv' /\ WatchInv' /\ CopyInv'
       /\ \A e \in Changes' : \E w \in ToSet(map') : ChangeAt(w, e)'
  BY <1>0, <1>3, <1>5, <1>6, <1>7, <1>11, EntryDropped
<1>13. TypeOK'
  <2>1. \A e \in ToSet(queue) : e.wd \in 1 .. lastWd /\ e.cookie \in 0 .. MaxOps
    BY DEF TypeOK, TreeTypeOK, ToSet
  <2>2. 0 \in 0 .. MaxOps BY Bounds
  <2>3. \A e \in ToSet(queue') : e.wd \in 1 .. lastWd /\ e.cookie \in 0 .. MaxOps
    BY <1>4, <1>8, <1>9, <2>1, <2>2
  <2>4. \A j \in DOMAIN queue' : queue'[j].wd \in 1 .. lastWd /\ queue'[j].cookie \in 0 .. MaxOps
    BY <2>3 DEF ToSet
  <2>5. TreeTypeOK' BY <1>0, <1>8, <1>12, <2>4 DEF TypeOK, TreeTypeOK, Inodes
  <2> QED BY <1>0, <1>7, <1>8, <1>12, <2>5 DEF TypeOK, Inodes
<1>14. TargetInv' BY <1>0 DEF TargetInv
<1>15. EventInv'
  <2>1. \A e \in ToSet(queue') : e \in ToSet(queue) \/ e = Ignored(map[i].wd) BY <1>8
  <2>2. \A e \in ToSet(inbuf') : e \in ToSet(inbuf) BY <1>0
  <2>3. ASSUME NEW e \in ToSet(inbuf') \cup ToSet(queue'), e.kind = "ignored" PROVE ~HasWatch(e.wd)'
    <3>1. CASE e.wd = map[i].wd BY <1>4, <1>6, <3>1 DEF HasWatch, Inodes
    <3>2. CASE e \in ToSet(inbuf) \cup ToSet(queue)
      <4>0. e \in Pending BY <3>2 DEF Pending
      <4>1. ~HasWatch(e.wd) /\ e.wd # 0 BY <2>3, <3>2, <4>0, Types DEF EventInv
      <4> QED BY <1>6, <4>1 DEF HasWatch, Inodes
    <3> QED BY <1>9, <2>1, <2>2, <2>3, <3>1, <3>2
  <2>4. \A e \in Pending' : e.kind \in Announcing \cup Removing => \E w \in ToSet(map') : ChangeAt(w, e)'
    BY <1>12 DEF Changes
  <2>5. Ordered(inbuf)' BY <1>0 DEF EventInv, Ordered, Precedes
  <2>6. \A e : Precedes(Ignored(map[i].wd), e) /\ Precedes(e, Ignored(map[i].wd))
    BY <1>9, <1>10 DEF Precedes
  <2>7. Ordered(queue')
    <3>1. queue \in Seq(Events) /\ Ignored(map[i].wd) \in Events BY <1>4, IgnoredMeans, Types
    <3>2. Ordered(queue) BY DEF EventInv
    <3>3. MayFollow(Ignored(map[i].wd), queue) BY <2>6 DEF MayFollow
    <3> QED BY <1>8, <3>1, <3>2, <3>3, OrderedAppend
  <2>8. Ordered(queue)' BY <2>7 DEF Ordered, Precedes
  <2>9. (/\ \A e \in ToSet(inbuf), f \in ToSet(queue) : Precedes(e, f)
         /\ \A e \in ToSet(inbuf) \cup ToSet(queue), d \in ToSet(doing) : Precedes(e, Event(d)))'
    <3>1. \A e \in ToSet(inbuf'), f \in ToSet(queue') : Precedes(e, f) BY <2>1, <2>2, <2>6 DEF EventInv
    <3>2. \A e, d : Precedes(e, Event(d)) /\ d \in ToSet(doing) => Precedes(e, Event(d)')
      BY <1>b DEF Precedes
    <3>3. \A e \in ToSet(inbuf') \cup ToSet(queue'), d \in ToSet(doing) : Precedes(e, Event(d)')
      BY <2>1, <2>2, <2>6, <3>2 DEF EventInv
    <3>4. ToSet(doing)' = ToSet(doing) BY <1>0
    <3> QED BY <3>1, <3>3, <3>4 DEF Precedes
  <2>10. (\A j, k \in DOMAIN doing : j < k => Precedes(Event(doing[j]), Event(doing[k])))'
    <3>1. \A j \in DOMAIN doing : doing[j] \in ToSet(doing) BY DEF ToSet
    <3>2. \A j, k \in DOMAIN doing : j < k => Precedes(Event(doing[j]), Event(doing[k])) BY DEF EventInv
    <3> QED BY <1>0, <1>b, <3>1, <3>2 DEF Precedes
  <2> QED BY <1>0, <2>3, <2>4, <2>5, <2>8, <2>9, <2>10 DEF EventInv
<1>16. BeforeInv' BY <1>0, <1>7, KeepBefore
<1>18. DoingInv' BY <1>0, <1>4, <1>6, <1>7, <1>a, KeepDoing
<1>17. WalkInv'
  <2>1. toCopy = {} /\ toWatch = {} /\ toList = {} BY <1>0 DEF WalkInv
  <2> QED BY <1>0, <2>1 DEF WalkInv, Exists
<1> QED BY <1>0, <1>7, <1>12, <1>13, <1>14, <1>15, <1>16, <1>17, <1>18

-----------------------------------------------------------------------------
(* A step of the worker.                                                   *)

\* Every step of the worker keeps the invariant, or ends the worker.
LEMMA WorkerKeeps ==
  ASSUME Live, Worker, Aside, ~overflow', pc \notin {"restoring", "restored"}
  PROVE  /\ TypeOK' /\ TargetInv' /\ (lost = {} \/ full)'
         /\ pc' # "exited" => Live'
         /\ pc' \notin {"restoring", "restored"}
         /\ pc' = "exited" => toCopy' = {} /\ pc \in {"watch0", "exited"}
<1>1. ASSUME NEW p \in toCopy, CopyEntry(p)
      PROVE  Live' /\ pc' = pc
  BY <1>1, CopyEntryKeeps DEF CopyEntry
<1>2. CopyEnds => Live' /\ pc' \in {"watch0", "watch"} BY CopyEndsKeeps DEF CopyEnds
<1>3. ASSUME NEW p, AddWatchEntry(p) PROVE Live' /\ pc' = pc BY <1>3, AddWatchEntryKeeps DEF AddWatchEntry
<1>4. ASSUME NEW p, ListSubdirs(p) PROVE Live' /\ pc' = pc BY <1>4, ListSubdirsKeeps DEF ListSubdirs
<1>5. TooManyWatches => /\ TypeOK' /\ TargetInv' /\ full' /\ (pc' # "exited" => Live')
                        /\ pc' \in {"exited", pc} /\ toCopy' = {}
                        /\ (pc' = "exited" => pc \in {"watch0", "exited"})
  BY TooManyWatchesKeeps DEF TooManyWatches, GiveUp, Watching
<1>6. WatchEnds => Live' /\ pc' \in {"read", "handle"} BY WatchEndsKeeps DEF WatchEnds
<1>7. Read => Live' /\ pc' = "handle" BY ReadKeeps DEF Read
<1>8. BufferDone => Live' /\ pc' = "read" BY BufferDoneKeeps DEF BufferDone
<1>9. Skip => Live' /\ pc' = pc BY SkipKeeps DEF Skip
<1>10. HandleIgnored => Live' /\ pc' = pc BY HandleIgnoredKeeps DEF HandleIgnored
<1>11. HandleRemoval => Live' /\ pc' = pc BY HandleRemovalKeeps DEF HandleRemoval
<1>12. HandleDirRemoval => Live' /\ pc' = "sweep" BY HandleDirRemovalKeeps DEF HandleDirRemoval
<1>13. RemoveWatchUnder => Live' /\ pc' = pc BY RemoveWatchUnderKeeps DEF RemoveWatchUnder
<1>14. RemoveDir => Live' /\ pc' = "handle" BY RemoveDirKeeps DEF RemoveDir
<1>15. HandleNewDir => Live' /\ pc' = "copy" BY HandleNewDirKeeps DEF HandleNewDir
<1>16. HandleFile => Live' /\ pc' = pc BY HandleFileKeeps DEF HandleFile
<1>17. ~CopyFails /\ ~WatchFails BY NothingFails
<1>18. Live' => TypeOK' /\ TargetInv' /\ (lost = {} \/ full)' BY DEF Live
<1>19. Live' => (pc' = "exited" => toCopy' = {}) BY DEF Live, Working, WalkInv
<1> QED BY <1>1, <1>2, <1>3, <1>4, <1>5, <1>6, <1>7, <1>8, <1>9, <1>10, <1>11, <1>12, <1>13,
           <1>14, <1>15, <1>16, <1>17, <1>18, <1>19 DEF Worker

-----------------------------------------------------------------------------
(* The user, while the worker is idle.                                     *)

\* A path above one of the source, but the roots, lies in the source itself.
LEMMA InSrc ==
  ASSUME NEW p \in Paths \ Top, NEW x \in SrcPaths, Under(x, p)
  PROVE  p \in SrcPaths \ {Src}
<1>1. x \in Paths /\ Under(x, Src) /\ Src \in Paths /\ Src \in Top BY SrcMeans
<1>2. Under(Src, p) \/ Under(p, Src) BY <1>1, UnderOrders
<1>3. p # Src BY <1>1
<1>4. ~Under(Src, p) BY <1>1, <1>3, BelowDirs
<1>5. Under(p, Src) BY <1>2, <1>4
<1> QED BY <1>1, <1>3, <1>5, SrcMeans

\* What lies under a path that was lost was lost as well.
LEMMA LostBelow ==
  ASSUME TypeOK, NEW p \in SrcPaths, NEW x \in Paths, Lost(p), Under(x, p)
  PROVE  Lost(x)
<1>1. PICK q \in lost : Under(p, q) BY DEF Lost
<1>2. q \in SrcPaths BY DEF TypeOK
<1>3. Under(x, q) BY <1>1, <1>2, SrcMeans, UnderOrders
<1> QED BY <1>3 DEF Lost

\* The worker is idle: nothing is due, so the table and the target are as they should be.
LEMMA IdleMeans ==
  ASSUME Live, Idle
  PROVE  /\ pc = "read" /\ queue = <<>> /\ inbuf = <<>> /\ doing = <<>> /\ Pending = {}
         /\ toCopy = {} /\ toWatch = {} /\ toList = {} /\ gone = NoPath /\ copied = {}
         /\ \A w \in ToSet(map) : Current(w) /\ (w.path # Src => HasEntry(Parent(w.path)))
         /\ \A p \in DirPaths \cap SrcPaths : Exists(p) => HasEntry(p) \/ Lost(p)
         /\ \A p \in SrcPaths : Alike(node, p) \/ Lost(p)
         /\ dst[Src] # 0
<1> USE DEF Live, Working
<1>1. pc = "read" /\ queue = <<>> /\ doing = <<>> BY DEF Idle
<1>2. inbuf = <<>> BY <1>1 DEF EventInv
<1>3. Pending = {} BY <1>1, <1>2, ToSetMeans DEF Pending, Coming
<1>4. toCopy = {} /\ toWatch = {} /\ toList = {} /\ gone = NoPath /\ copied = {} BY <1>1 DEF WalkInv
<1>5. \A p : ~Announced(p) /\ ~Removed(p) BY <1>3, <1>4 DEF Announced, Removed
<1>6. \A p : ~ToBeWatched(p) BY <1>1, <1>4 DEF ToBeWatched
<1>7. \A w \in ToSet(map) : Current(w) /\ (w.path # Src => HasEntry(Parent(w.path))) BY <1>5 DEF TableInv
<1>8. \A p \in DirPaths \cap SrcPaths : Exists(p) => HasEntry(p) \/ Lost(p)
  BY <1>5, <1>6 DEF WatchInv, HasEntry
<1>9. \A p \in SrcPaths : Alike(node, p) \/ Lost(p) BY <1>4, <1>5 DEF CopyInv
<1>10. dst[Src] # 0 BY <1>1 DEF TargetInv
<1> QED BY <1>1, <1>2, <1>3, <1>4, <1>7, <1>8, <1>9, <1>10

\* What a change leaves as it is.
OneChange ==
  /\ UNCHANGED <<user, wdOf, lastWd, queue, overflow, pc, inbuf, map, toCopy, toWatch, toList, gone, dst,
                 copied, full, lost, toRestore, toKeep, kept, after, half>>
  /\ before' = node /\ heard' = FALSE /\ ops' = ops + 1 /\ ops' <= MaxOps

\* What a change, and what the kernel will report of it, must be for the invariant to survive it.
LEMMA ChangeKeeps ==
  ASSUME Live, Idle, OneChange,
         node' \in [Paths -> Inodes], TreeInv',
         doing' \in Seq(Reports), DoingInv',
         \A i, j \in DOMAIN doing' : i < j => Precedes(Event(doing'[i]), Event(doing'[j])),
         \A d \in ToSet(doing') : \A e :
           e = Event(d) /\ e.wd # 0 /\ e.kind \in Announcing \cup Removing
             => \E w \in ToSet(map) : ChangeAt(w, e)',
         \A w \in ToSet(map) : Current(w)' \/ Removed(w.path)',
         \A p \in DirPaths \cap SrcPaths :
           Exists(p)' => (\E w \in ToSet(map) : w.path = p /\ Current(w)') \/ Lost(p) \/ Announced(p)',
         \A p \in SrcPaths :
           \/ node'[p] = node[p] \/ Lost(p)
           \/ Exists(p)' /\ Announced(p)'
           \/ ~Exists(p)' /\ Removed(p)'
  PROVE  Live'
<1> USE DEF Live, Working
<1>0. /\ UNCHANGED <<user, wdOf, lastWd, queue, overflow, pc, inbuf, map, toCopy, toWatch, toList, gone, dst,
                     copied, full, lost, toRestore, toKeep, kept, after, half>>
      /\ before' = node /\ heard' = FALSE /\ ops' = ops + 1 /\ ops' <= MaxOps
  BY DEF OneChange
<1>1. /\ pc = "read" /\ queue = <<>> /\ inbuf = <<>>
      /\ toCopy = {} /\ toWatch = {} /\ toList = {} /\ gone = NoPath /\ copied = {}
      /\ \A w \in ToSet(map) : w.path # Src => HasEntry(Parent(w.path))
      /\ \A p \in SrcPaths : Alike(node, p) \/ Lost(p)
      /\ dst[Src] # 0
  BY IdleMeans
<1>a. \A d : Event(d)' = Event(d) BY <1>0 DEF Event
<1>b. ToSet(inbuf') = {} /\ ToSet(queue') = {} BY <1>0, <1>1, ToSetMeans
<1>2. \A e \in Pending' : e.wd # 0 /\ \E d \in ToSet(doing') : e = Event(d)
  <2>1. \A e \in Coming' : e.wd # 0 /\ \E d \in ToSet(doing') : e = Event(d) BY <1>a DEF Coming
  <2>2. Pending' = Coming' BY <1>b DEF Pending
  <2> QED BY <2>1, <2>2
<1>3. TypeOK'
  <2>1. ops' \in 0 .. MaxOps BY <1>0, Types, Bounds
  <2>2. TreeTypeOK' BY <1>0, <2>1 DEF TypeOK, TreeTypeOK, Inodes
  <2>3. node \in [Paths -> Inodes] /\ heard' \in BOOLEAN BY <1>0 DEF TypeOK, TreeTypeOK
  <2> QED BY <1>0, <2>2, <2>3 DEF TypeOK, Inodes
<1>4. TargetInv' BY <1>0, <1>1 DEF TargetInv
<1>5. TableInv'
  <2>1. \A p : HasEntry(p)' <=> HasEntry(p) BY <1>0 DEF HasEntry
  <2>2. \A i \in Inodes : wdOf'[i] # 0 => \E w \in ToSet(map) : w.wd = wdOf'[i] BY <1>0 DEF TableInv
  <2>3. OneEach(map) BY DEF TableInv
  <2> QED BY <1>0, <1>1, <2>1, <2>2, <2>3 DEF TableInv, Inodes, OneEach
<1>6. WalkInv' BY <1>0, <1>1 DEF WalkInv
<1>7. EventInv'
  <2>1. Ordered(inbuf)' /\ Ordered(queue)' BY <1>0 DEF EventInv, Ordered, Precedes
  <2>2. (\A e \in Pending : e.kind \in Announcing \cup Removing => \E w \in ToSet(map) : ChangeAt(w, e))'
    <3>1. SUFFICES ASSUME NEW e \in Pending', e.kind \in Announcing \cup Removing
                   PROVE  \E w \in ToSet(map) : ChangeAt(w, e)'
      BY <1>0
    <3> QED BY <1>2, <3>1
  <2>3. (\A i, j \in DOMAIN doing : i < j => Precedes(Event(doing[i]), Event(doing[j])))'
    BY <1>a DEF Precedes
  <2> QED BY <1>0, <1>1, <1>b, <2>1, <2>2, <2>3 DEF EventInv
<1>8. \A p : Lost(p)' <=> Lost(p) BY <1>0 DEF Lost
<1>9. WatchInv' BY <1>0, <1>8 DEF WatchInv
<1>10. CopyInv'
  <2>1. \A p \in SrcPaths : node'[p] = node[p] => (Alike(node, p)' <=> Alike(node, p)) BY <1>0 DEF Alike
  <2> QED BY <1>1, <1>8, <2>1 DEF CopyInv
<1>11. BeforeInv'
  <2>1. \A p : Alike(before, p)' <=> Alike(node, p) BY <1>0 DEF Alike
  <2>2. ~Telling(inbuf)' BY <1>b DEF Telling
  <2> QED BY <1>0, <1>1, <1>8, <2>1, <2>2 DEF BeforeInv
<1> QED BY <1>0, <1>3, <1>4, <1>5, <1>6, <1>7, <1>9, <1>10, <1>11

\* The event of an entry: its directory is watched, or what happens there is lost.
About(e, p) ==
  /\ e \in Events /\ e.name # ""
  /\ e.wd = 0 => (p \in SrcPaths => Lost(p))
  /\ e.wd # 0 =>
       /\ p \in SrcPaths
       /\ \E w \in ToSet(map) : w.path = Parent(p) /\ w.wd = e.wd /\ At(w, e) = p

\* What the kernel reports of an entry names it by the table, if its directory is watched.
LEMMA EventAbout ==
  ASSUME TypeOK, TreeInv, TableInv,
         \A w \in ToSet(map) : Current(w),
         \A p \in DirPaths \cap SrcPaths : Exists(p) => HasEntry(p) \/ Lost(p),
         NEW p \in Paths \ Top, NEW cookie \in 0 .. MaxOps,
         NEW kind \in {"create", "modify", "write", "close_write", "delete", "moved_from", "moved_to"},
         Exists(Parent(p)), NEW d, d = ReportOf(kind, p, cookie)
  PROVE  /\ d \in Reports /\ d.kind = kind /\ d.path = p /\ d.dir = node[Parent(p)]
         /\ Event(d).kind = (IF kind = "write" THEN "modify" ELSE kind) /\ Event(d).isdir = IsDir(p)
         /\ Event(d).wd = wdOf[node[Parent(p)]]
         /\ About(Event(d), p)
<1>1. /\ Parent(p) \in DirPaths /\ Parent(p) \in Paths /\ Under(p, Parent(p))
      /\ Name(p) \in DirNames \cup FileNames /\ p = Parent(p) \o <<Name(p)>>
  BY ParentMeans
<1>2. node[Parent(p)] \in Inodes BY <1>1, Types
<1>3. d = [dir |-> node[Parent(p)], kind |-> kind, path |-> p, cookie |-> cookie] BY DEF ReportOf, Report
<1>4. d \in Reports /\ d.kind = kind /\ d.path = p /\ d.dir = node[Parent(p)] BY <1>2, <1>3 DEF Reports
<1>5. kind \notin OfSelf BY DEF OfSelf
<1>6. PICK e : e = Event(d) OBVIOUS
<1>7. /\ e \in Events /\ e.wd = wdOf[node[Parent(p)]] /\ e.kind = (IF kind = "write" THEN "modify" ELSE kind)
      /\ e.name = Name(p) /\ e.isdir = IsDir(p)
  <2>1. /\ Event(d) \in Events /\ Event(d).wd = wdOf[d.dir]
        /\ Event(d).kind = (IF d.kind = "write" THEN "modify" ELSE d.kind)
        /\ Event(d).name = (IF d.kind \in OfSelf THEN "" ELSE Name(d.path))
        /\ Event(d).isdir = (d.kind \notin OfSelf /\ IsDir(d.path))
    BY <1>4, ReportMeans
  <2>2. (d.kind \notin OfSelf /\ IsDir(d.path)) = IsDir(p) BY <1>4, <1>5 DEF IsDir
  <2> QED BY <1>4, <1>5, <1>6, <2>1, <2>2
<1>8. e.name # "" BY <1>1, <1>7, TreeAssumption
<1>9. ASSUME e.wd # 0
      PROVE  /\ p \in SrcPaths
             /\ \E w \in ToSet(map) : w.path = Parent(p) /\ w.wd = e.wd /\ At(w, e) = p
  <2>1. PICK w \in ToSet(map) : w.wd = e.wd BY <1>2, <1>7, <1>9 DEF TableInv
  <2>2. w.path \in Paths /\ w.path \in SrcPaths BY Types
  <2>3. Exists(w.path) /\ wdOf[node[w.path]] = e.wd BY <2>1 DEF Current
  <2>4. node[w.path] = node[Parent(p)] BY <1>2, <1>7, <1>9, <2>2, <2>3, Types DEF TreeInv
  <2>5. w.path = Parent(p) BY <1>1, <2>2, <2>3, <2>4 DEF TreeInv
  <2>6. At(w, e) = p BY <1>1, <1>7, <2>5 DEF At
  <2>7. p \in SrcPaths BY <2>2, <2>5, SrcMeans
  <2> QED BY <2>1, <2>5, <2>6, <2>7
<1>10. ASSUME e.wd = 0, p \in SrcPaths PROVE Lost(p)
  <2>1. p # Src /\ Parent(p) \in SrcPaths BY <1>10, SrcMeans
  <2>2. ~HasEntry(Parent(p))
    <3>1. SUFFICES ASSUME NEW w \in ToSet(map), w.path = Parent(p) PROVE FALSE
      BY DEF HasEntry
    <3>2. w.wd = 0 BY <1>7, <1>10, <3>1 DEF Current
    <3> QED BY <3>2, Types
  <2>3. Lost(Parent(p)) BY <1>1, <2>1, <2>2
  <2> QED BY <1>1, <2>1, <2>3, LostBelow
<1>11. About(e, p) BY <1>7, <1>8, <1>9, <1>10 DEF About
<1> QED BY <1>4, <1>6, <1>7, <1>11

\* An event about an entry of a watched directory that stays, when the change is made.
LEMMA ChangeSeen ==
  ASSUME NEW p \in Paths \ Top, Exists(Parent(p)), NEW e \in Events,
         e.wd # 0, e.kind \in Announcing \cup Removing, e.isdir = IsDir(p),
         NEW w \in ToSet(map), w.path = Parent(p), w.wd = e.wd, At(w, e) = p, e.name # "", p \in SrcPaths,
         Current(w)', UNCHANGED <<map, gone>>,
         e.kind \in Announcing => Exists(p)',
         e.kind \in Announcing /\ e.isdir => \A v \in ToSet(map) : ~Under(v.path, p),
         e.kind \in Removing => \A x \in Paths : Under(x, p) => ~Exists(x)'
  PROVE  /\ \E v \in ToSet(map) : ChangeAt(v, e)'
         /\ e \in Pending' /\ e.kind \in Announcing => \A x : Under(x, p) => Announced(x)'
         /\ e \in Pending' /\ e.kind \in Removing => \A x : Under(x, p) => Removed(x)'
<1>1. ChangeAt(w, e)' BY DEF ChangeAt
<1>2. NamedBy(e, p)' BY DEF NamedBy
<1> QED BY <1>1, <1>2 DEF Announced, Removed

\* The fields of the kernel's state.
Recorded(k) == "queue" \in DOMAIN k /\ "overflow" \in DOMAIN k

\* What was dropped stays dropped.
LEMMA PostKeeps ==
  \A k, e : Recorded(k) => Recorded(Post(k, e)) /\ Post(k, e).overflow \in {k.overflow, TRUE}
<1> SUFFICES ASSUME NEW k, NEW e, Recorded(k)
             PROVE  Recorded(Post(k, e)) /\ Post(k, e).overflow \in {k.overflow, TRUE}
  OBVIOUS
<1>1. "queue" \in DOMAIN k /\ "overflow" \in DOMAIN k BY DEF Recorded
<1>2. \/ Post(k, e) = k
      \/ Post(k, e) = [k EXCEPT !.overflow = TRUE]
      \/ Post(k, e) = [k EXCEPT !.queue = Append(k.queue, e)]
  BY DEF Post
<1>3. Recorded([k EXCEPT !.overflow = TRUE]) /\ [k EXCEPT !.overflow = TRUE].overflow = TRUE
  BY <1>1 DEF Recorded
<1>4. /\ Recorded([k EXCEPT !.queue = Append(k.queue, e)])
      /\ [k EXCEPT !.queue = Append(k.queue, e)].overflow = k.overflow
  BY <1>1 DEF Recorded
<1> QED BY <1>2, <1>3, <1>4

\* Without an overflow there was none before.
LEMMA EmitKeeps ==
  ASSUME NEW k, Emit(k), k.overflow \in {overflow, TRUE}, ~overflow'
  PROVE  overflow' = overflow
BY DEF Emit

\* The kernel's report of a change takes no overflow back.
LEMMA ProceedDrops ==
  ASSUME Proceed, ~overflow' PROVE overflow' = overflow
<1>1. Recorded(Now) /\ Now.overflow = overflow BY DEF Now, Recorded
<1>2. \A e : Post(Now, e).overflow \in {overflow, TRUE} BY <1>1, PostKeeps
<1>3. PICK e : Emit(Post(Now, e)) \/ Emit(Now)
  <2>1. Emit(Post(Now, Event(Head(doing)))) \/ Emit(Now) BY DEF Proceed
  <2> QED BY <2>1
<1>4. CASE Emit(Post(Now, e)) BY <1>2, <1>4, EmitKeeps
<1>5. CASE Emit(Now) BY <1>1, <1>5, EmitKeeps
<1> QED BY <1>3, <1>4, <1>5

\* No step takes an overflow back.
LEMMA OverflowStays ==
  ASSUME [Next]_vars, ~overflow'
  PROVE  overflow' = overflow
<1>1. CASE User
  <2>1. CASE Proceed BY <2>1, ProceedDrops
  <2>2. CASE ~Proceed BY <1>1, <2>2 DEF User, Turn, kernel
  <2> QED BY <2>1, <2>2
<1>2. CASE WorkerStep
  <2>1. RemoveWatchUnder => overflow' = overflow
    <3>1. SUFFICES ASSUME NEW wd, RemoveWatch(wd) PROVE overflow' = overflow
      BY DEF RemoveWatchUnder
    <3>2. Recorded(Now) /\ Now.overflow = overflow BY DEF Now, Recorded
    <3>3. \A e : Post(Now, e).overflow \in {overflow, TRUE} BY <3>2, PostKeeps
    <3>4. PICK k : Emit(k) /\ k.overflow \in {overflow, TRUE} BY <3>1, <3>2, <3>3 DEF RemoveWatch
    <3> QED BY <3>4, EmitKeeps
  <2>2. (\E p \in toCopy : CopyEntry(p)) \/ CopyFails \/ CopyEnds => overflow' = overflow
    BY DEF CopyEntry, CopyFails, CopyEnds, kernel
  <2>3. (\E p \in DirPaths : AddWatchEntry(p) \/ ListSubdirs(p)) => overflow' = overflow
    BY DEF AddWatchEntry, AddWatch, ListSubdirs, kernel
  <2>4. TooManyWatches \/ WatchFails \/ WatchEnds \/ Read \/ BufferDone => overflow' = overflow
    BY DEF TooManyWatches, WatchFails, WatchEnds, Read, BufferDone, kernel
  <2>5. Skip \/ HandleIgnored \/ HandleRemoval \/ HandleDirRemoval => overflow' = overflow
    BY DEF Skip, HandleIgnored, HandleRemoval, HandleDirRemoval, kernel
  <2>6. RemoveDir \/ HandleNewDir \/ HandleFile => overflow' = overflow
    BY DEF RemoveDir, HandleNewDir, HandleFile, kernel
  <2> QED BY <1>2, <2>1, <2>2, <2>3, <2>4, <2>5, <2>6 DEF Worker, WorkerStep
<1>3. CASE Stop \/ RestoreStep
  BY <1>3 DEF Stop, RestoreStep, RestoreDir, RestoreFile, RemoveOthers, RestoreEnds, Restoring, kernel
<1>4. CASE UNCHANGED vars BY <1>4 DEF vars, kernel
<1> QED BY <1>1, <1>2, <1>3, <1>4 DEF Next

\* A user who waits changes one thing when the worker is idle, or a change goes on.
LEMMA UserMeans ==
  ASSUME Live, Attentive, User, ~overflow'
  PROVE  \/ /\ Idle /\ OneChange
            /\ \E op, p, q : p \in Paths \ Top /\ q \in Paths \ Top /\ Change(op, p, q)
         \/ /\ Proceed
            /\ UNCHANGED <<pc, inbuf, map, toCopy, toWatch, toList, gone, dst, copied, full, lost,
                           toRestore, toKeep, kept, before, after, half, heard>>
<1> USE DEF Live, Working
<1>1. UNCHANGED <<pc, inbuf, map, toCopy, toWatch, toList, gone, dst, copied, full, toRestore, toKeep, kept, after, half>>
  BY DEF User, walk, restore
<1>2. CASE Proceed /\ lost' = lost \cup {x \in {Head(doing).path} \cap SrcPaths : Head(doing).kind = "write" /\ Unseen(x)}
           /\ UNCHANGED <<before, heard>>
  <2>1. ASSUME Head(doing).kind = "write" PROVE copied = {}
    <3>1. doing # <<>> /\ doing \in Seq(Reports) BY <1>2, Types DEF Proceed
    <3>2. Head(doing) \in ToSet(doing) BY <3>1, ToSetTail
    <3>3. pc \notin {"copy0", "watch0", "copy", "watch"} BY <2>1, <3>2, WhileWalking DEF OfSelf
    <3> QED BY <3>3 DEF WalkInv
  <2>2. lost' = lost BY <1>2, <2>1 DEF Unseen
  <2> QED BY <1>1, <1>2, <2>2
<1>3. ASSUME NEW op \in user.kinds, NEW p \in Touched, NEW q \in Touched,
             Turn(op, Idle, Unmoved), Change(op, p, q),
             lost' = lost \cup {x \in {p, q} \cap SrcPaths : Unseen(x)},
             before' = (IF Attentive THEN node ELSE before), heard' = ~Attentive
      PROVE  Idle /\ OneChange /\ p \in Paths \ Top /\ q \in Paths \ Top
  <2>1. Idle BY <1>3 DEF Turn, Attentive
  <2>2. p \in Paths \ Top /\ q \in Paths \ Top BY DEF Touched
  <2>3. lost' = lost
    <3>1. copied = {} BY <2>1, IdleMeans
    <3> QED BY <1>3, <3>1 DEF Unseen
  <2>4. ops' = ops + 1 /\ ops' <= MaxOps
    <3>1. ops < user.changes /\ ops' = ops + 1 BY <1>3 DEF Turn
    <3>2. ops \in Nat /\ user \in Users BY Types DEF TypeOK, TreeTypeOK
    <3>3. user.changes \in 0 .. MaxOps BY <3>2, TreeAssumption
    <3> QED BY <3>1, <3>2, <3>3, Bounds
  <2>5. UNCHANGED <<user, wdOf, lastWd, queue, overflow>> BY <1>3 DEF Turn, kernel
  <2>6. before' = node /\ heard' = FALSE BY <1>3
  <2>7. OneChange BY <1>1, <2>3, <2>4, <2>5, <2>6 DEF OneChange
  <2> QED BY <2>1, <2>2, <2>7
<1> QED BY <1>2, <1>3 DEF User

\* A file is a path and no directory.
LEMMA FilesAreNotDirs == \A p \in FilePaths : p \in Paths \ Top /\ p \notin DirPaths /\ IsDir(p) = FALSE
<1> SUFFICES ASSUME NEW p \in FilePaths PROVE p \in Paths \ Top /\ p \notin DirPaths /\ IsDir(p) = FALSE OBVIOUS
<1>1. p \in Paths BY DEF Paths
<1>2. Len(p) # 1 /\ p[Len(p)] \in FileNames BY FileMeans
<1>3. p[Len(p)] \notin DirNames BY <1>2, TreeAssumption
<1>4. p \in Paths \ Top /\ p \notin DirPaths BY <1>1, <1>2, <1>3, PathMeans
<1>5. IsDir(p) = FALSE BY <1>4 DEF IsDir
<1> QED BY <1>4, <1>5

\* A new entry in a directory that is there leaves a tree.
LEMMA NodeAppears ==
  ASSUME Live, OneChange, NEW p \in Paths \ Top, Exists(Parent(p)),
         node' = [node EXCEPT ![p] = Fresh]
  PROVE  /\ node' \in [Paths -> Inodes] /\ TreeInv' /\ Exists(p)'
         /\ node'[p] = Opened' /\ \A x \in Paths : node'[x] < Written'
         /\ \A x \in Paths \ {p} : node'[x] = node[x]
<1> USE DEF Live, Working
<1>1. node \in [Paths -> Inodes] BY DEF TypeOK, TreeTypeOK
<1>2. ops \in Nat /\ ops' = ops + 1 /\ ops' <= MaxOps /\ wdOf' = wdOf BY Types DEF OneChange
<1>3. /\ Fresh \in Inodes /\ Fresh # 0 /\ Fresh \in Nat /\ Fresh' = Fresh + 2
      /\ Opened' = Fresh /\ Written' = Fresh + 1
  BY <1>2, Bounds DEF Fresh, Inodes, Opened, Written
<1>4. \A x \in Paths : node'[x] = IF x = p THEN Fresh ELSE node[x] BY <1>1
<1>5. node' \in [Paths -> Inodes] BY <1>1, <1>3
<1>6. \A x \in Paths : node[x] \in Nat /\ node[x] < Fresh /\ node[x] # Fresh
  <2>1. \A x \in Paths : node[x] \in Nat /\ node[x] < Fresh BY Types DEF TreeInv
  <2> QED BY <1>3, <2>1
<1>7. \A x \in Paths : Exists(x) => Exists(x)' BY <1>3, <1>4 DEF Exists
<1>8. Exists(p)' BY <1>3, <1>4 DEF Exists
<1>9. \A x \in Paths : node'[x] < Written' /\ node'[x] < Fresh' BY <1>3, <1>4, <1>6
<1>10. \A x \in Paths \ Top : Exists(x)' => Exists(Parent(x))'
  <2>1. SUFFICES ASSUME NEW x \in Paths \ Top, Exists(x)' PROVE Exists(Parent(x))'
    OBVIOUS
  <2>2. Parent(x) \in Paths BY ParentMeans
  <2>3. x # p => Exists(x) BY <1>4, <2>1 DEF Exists
  <2>4. Exists(Parent(x)) BY <2>3 DEF TreeInv
  <2> QED BY <1>7, <2>2, <2>4
<1>11. \A x, y \in Paths : Exists(x)' /\ node'[x] = node'[y] => x = y
  <2>1. \A x, y \in Paths : Exists(x) /\ node[x] = node[y] => x = y BY DEF TreeInv
  <2> QED BY <1>3, <1>4, <1>6, <2>1 DEF Exists
<1>12. Exists(Src)' /\ Exists(Out)'
  <2>1. Src \in Paths /\ Out \in Paths BY SrcMeans
  <2> QED BY <1>7, <2>1 DEF TreeInv
<1>13. (\A i, j \in Inodes : wdOf[i] # 0 /\ wdOf[i] = wdOf[j] => i = j)' BY <1>2 DEF TreeInv, Inodes
<1>14. TreeInv' BY <1>9, <1>10, <1>11, <1>12, <1>13 DEF TreeInv
<1> QED BY <1>3, <1>4, <1>5, <1>8, <1>9, <1>14

\* A file, or a directory that is empty, goes, and leaves a tree.
LEMMA NodeGoes ==
  ASSUME Live, OneChange, NEW p \in Paths \ Top, \A x \in Paths : Under(x, p) /\ x # p => ~Exists(x),
         node' = [node EXCEPT ![p] = 0]
  PROVE  /\ node' \in [Paths -> Inodes] /\ TreeInv'
         /\ \A x \in Paths : Under(x, p) => ~Exists(x)'
         /\ \A x \in Paths \ {p} : node'[x] = node[x]
<1> USE DEF Live, Working
<1>1. node \in [Paths -> Inodes] BY DEF TypeOK, TreeTypeOK
<1>2. ops \in Nat /\ ops' = ops + 1 /\ wdOf' = wdOf BY Types DEF OneChange
<1>3. Fresh' = Fresh + 2 /\ Fresh \in Nat BY <1>2, Bounds DEF Fresh
<1>4. \A x \in Paths : node'[x] = IF x = p THEN 0 ELSE node[x] BY <1>1
<1>5. node' \in [Paths -> Inodes] BY <1>1, InodesMeans
<1>6. \A x \in Paths : Exists(x)' <=> Exists(x) /\ x # p BY <1>4 DEF Exists
<1>7. \A x \in Paths : node'[x] < Fresh'
  <2>1. \A x \in Paths : node[x] \in Nat /\ node[x] < Fresh BY Types DEF TreeInv
  <2> QED BY <1>3, <1>4, <2>1
<1>8. \A x \in Paths \ Top : Exists(x)' => Exists(Parent(x))'
  <2>1. SUFFICES ASSUME NEW x \in Paths \ Top, Exists(x)' PROVE Exists(Parent(x))'
    OBVIOUS
  <2>2. Parent(x) \in Paths /\ Under(x, Parent(x)) /\ Parent(x) # x BY ParentMeans
  <2>3. Exists(x) BY <1>6, <2>1
  <2>4. Exists(Parent(x)) BY <2>3 DEF TreeInv
  <2>5. Parent(x) # p BY <2>2, <2>3
  <2> QED BY <1>6, <2>2, <2>4, <2>5
<1>9. \A x, y \in Paths : Exists(x)' /\ node'[x] = node'[y] => x = y
  <2>1. \A x, y \in Paths : Exists(x) /\ node[x] = node[y] => x = y BY DEF TreeInv
  <2> QED BY <1>4, <1>6, <2>1 DEF Exists
<1>10. Exists(Src)' /\ Exists(Out)'
  <2>1. Src \in Paths /\ Out \in Paths /\ Src \in Top /\ Out \in Top BY SrcMeans DEF Top
  <2> QED BY <1>6, <2>1 DEF TreeInv
<1>11. (\A i, j \in Inodes : wdOf[i] # 0 /\ wdOf[i] = wdOf[j] => i = j)' BY <1>2 DEF TreeInv, Inodes
<1>12. TreeInv' BY <1>7, <1>8, <1>9, <1>10, <1>11 DEF TreeInv
<1> QED BY <1>4, <1>5, <1>6, <1>12

\* What is told of a change in one report,
LEMMA OneReport ==
  ASSUME NEW a \in Reports
  PROVE  <<a>> \in Seq(Reports) /\ DOMAIN <<a>> = {1} /\ <<a>>[1] = a /\ ToSet(<<a>>) = {a}
<1>1. <<a>> \in Seq(Reports) /\ DOMAIN <<a>> = {1} /\ <<a>>[1] = a OBVIOUS
<1> QED BY <1>1 DEF ToSet

\* ... in two,
LEMMA TwoReports ==
  ASSUME NEW a \in Reports, NEW b \in Reports
  PROVE  /\ <<a, b>> \in Seq(Reports) /\ DOMAIN <<a, b>> = {1, 2} /\ <<a, b>>[1] = a /\ <<a, b>>[2] = b
         /\ ToSet(<<a, b>>) = {a, b}
<1>1. <<a, b>> \in Seq(Reports) /\ DOMAIN <<a, b>> = {1, 2} /\ <<a, b>>[1] = a /\ <<a, b>>[2] = b OBVIOUS
<1> QED BY <1>1 DEF ToSet

\* ... or three reports.
LEMMA ThreeReports ==
  ASSUME NEW a \in Reports, NEW b \in Reports, NEW c \in Reports, NEW s, s = <<a, b, c>>
  PROVE  /\ s \in Seq(Reports) /\ DOMAIN s = {1, 2, 3} /\ Len(s) = 3
         /\ s[1] = a /\ s[2] = b /\ s[3] = c /\ ToSet(s) = {a, b, c}
<1>1. /\ s \in Seq(Reports) /\ DOMAIN s = {1, 2, 3} /\ Len(s) = 3
      /\ s[1] = a /\ s[2] = b /\ s[3] = c
  OBVIOUS
<1> QED BY <1>1 DEF ToSet

\* What the kernel will report to the worker is pending.
LEMMA Told ==
  ASSUME OneChange, NEW d \in ToSet(doing'), NEW e, e = Event(d), e.wd # 0
  PROVE  e \in Pending'
<1>1. Event(d)' = Event(d) BY DEF Event, OneChange
<1>2. e \in Coming' BY <1>1 DEF Coming
<1> QED BY <1>2 DEF Pending

\* What the kernel will report of entries, without a file's being written.
LEMMA EntriesDoing ==
  ASSUME OneChange, doing' \in Seq(Reports),
         \A d \in ToSet(doing') :
           /\ d.kind \notin OfSelf /\ d.kind # "write"
           /\ Exists(Parent(d.path))' /\ d.dir = node'[Parent(d.path)]
           /\ d.path \in SrcPaths => wdOf[d.dir] # 0 \/ Lost(d.path)
  PROVE  DoingInv'
<1>1. \A i \in DOMAIN doing' : doing'[i] \in ToSet(doing') BY DEF ToSet
<1>2. wdOf' = wdOf /\ \A p : Lost(p)' <=> Lost(p) BY DEF OneChange, Lost
<1> QED BY <1>1, <1>2 DEF DoingInv

\* Who opens a file: it is created, or its content goes; then it is written and closed.
LEMMA WriteKeeps ==
  ASSUME Live, Idle, OneChange, NEW p, Write(p)
  PROVE  Live'
<1>1. /\ p \in FilePaths /\ Exists(Parent(p))
      /\ node' = [node EXCEPT ![p] = Fresh]
  BY DEF Write
<1>2. p \in Paths \ Top /\ p \in Paths /\ p \notin DirPaths /\ IsDir(p) = FALSE /\ Parent(p) \in Paths /\ Parent(p) # p
      /\ Under(p, p)
  BY <1>1, FilesAreNotDirs, ParentMeans, UnderOrders
<1>3. /\ node' \in [Paths -> Inodes] /\ TreeInv' /\ Exists(p)'
      /\ node'[p] = Opened' /\ \A x \in Paths : node'[x] < Written'
      /\ \A x \in Paths \ {p} : node'[x] = node[x]
  BY <1>1, <1>2, NodeAppears
<1>4. PICK k \in {"create", "modify"} : k = IF Exists(p) THEN "modify" ELSE "create" OBVIOUS
<1>5. PICK c : c = ReportOf(k, p, 0) OBVIOUS
<1>6. PICK d : d = ReportOf("write", p, 0) OBVIOUS
<1>7. PICK f : f = ReportOf("close_write", p, 0) OBVIOUS
<1>8. doing' = <<c, d, f>> BY <1>4, <1>5, <1>6, <1>7 DEF Write
<1>9. /\ TypeOK /\ TreeInv /\ TableInv
      /\ \A w \in ToSet(map) : Current(w)
      /\ \A x \in DirPaths \cap SrcPaths : Exists(x) => HasEntry(x) \/ Lost(x)
  BY IdleMeans DEF Live, Working
<1>10. 0 \in 0 .. MaxOps BY Bounds
<1>11. \A x \in {c, d, f} :
         /\ x \in Reports /\ x.path = p /\ x.dir = node[Parent(p)]
         /\ Event(x).kind \in Announcing /\ Event(x).isdir = FALSE
         /\ Event(x).wd = wdOf[node[Parent(p)]] /\ About(Event(x), p)
  <2>1. /\ c \in Reports /\ c.path = p /\ c.dir = node[Parent(p)] /\ c.kind = k
        /\ Event(c).kind = k /\ Event(c).isdir = IsDir(p)
        /\ Event(c).wd = wdOf[node[Parent(p)]] /\ About(Event(c), p)
    BY <1>1, <1>2, <1>5, <1>9, <1>10, EventAbout
  <2>2. /\ d \in Reports /\ d.path = p /\ d.dir = node[Parent(p)]
        /\ Event(d).kind = "modify" /\ Event(d).isdir = IsDir(p)
        /\ Event(d).wd = wdOf[node[Parent(p)]] /\ About(Event(d), p)
    BY <1>1, <1>2, <1>6, <1>9, <1>10, EventAbout
  <2>3. /\ f \in Reports /\ f.path = p /\ f.dir = node[Parent(p)]
        /\ Event(f).kind = "close_write" /\ Event(f).isdir = IsDir(p)
        /\ Event(f).wd = wdOf[node[Parent(p)]] /\ About(Event(f), p)
    BY <1>1, <1>2, <1>7, <1>9, <1>10, EventAbout
  <2> QED BY <1>2, <1>4, <2>1, <2>2, <2>3 DEF Announcing
<1>12. c.kind = k /\ d.kind = "write" /\ f.kind = "close_write" /\ f = [d EXCEPT !.kind = "close_write"]
  BY <1>5, <1>6, <1>7 DEF ReportOf, Report
<1>13. /\ doing' \in Seq(Reports) /\ DOMAIN doing' = {1, 2, 3} /\ Len(doing') = 3
       /\ doing'[1] = c /\ doing'[2] = d /\ doing'[3] = f /\ ToSet(doing') = {c, d, f}
  <2>1. c \in Reports /\ d \in Reports /\ f \in Reports BY <1>11
  <2> QED BY <1>8, <2>1, ThreeReports
<1>14. UNCHANGED <<map, gone, lastWd, wdOf, lost>> BY DEF OneChange
<1>15. DoingInv'
  <2>1. Exists(Parent(p))' /\ node'[Parent(p)] = node[Parent(p)] BY <1>1, <1>2, <1>3 DEF Exists
  <2>2. p \in SrcPaths => wdOf[node[Parent(p)]] # 0 \/ Lost(p)
    <3>1. About(Event(c), p) /\ Event(c).wd = wdOf[node[Parent(p)]] BY <1>11
    <3> QED BY <3>1 DEF About
  <2>3. Lost(p)' <=> Lost(p) BY <1>14 DEF Lost
  <2>4. \A i \in DOMAIN doing' :
          /\ doing'[i].kind \notin OfSelf
          /\ doing'[i].path = p /\ doing'[i].dir = node[Parent(p)]
          /\ doing'[i].kind = "write" => i = 2
    BY <1>4, <1>11, <1>12, <1>13 DEF OfSelf
  <2>5. \A j \in DOMAIN doing' : 2 < j => doing'[j] = [doing'[2] EXCEPT !.kind = "close_write"] BY <1>12, <1>13
  <2> QED BY <1>2, <1>3, <1>13, <1>14, <2>1, <2>2, <2>3, <2>4, <2>5 DEF DoingInv
<1>16. \A i, j \in DOMAIN doing' : i < j => Precedes(Event(doing'[i]), Event(doing'[j]))
  <2>1. \A i \in DOMAIN doing' : Event(doing'[i]).isdir = FALSE BY <1>11, <1>13
  <2> QED BY <2>1 DEF Precedes
<1>17. \A w \in ToSet(map) : Current(w)'
  <2>1. SUFFICES ASSUME NEW w \in ToSet(map) PROVE Current(w)' OBVIOUS
  <2>2. Current(w) /\ w.path \in DirPaths /\ w.path \in Paths BY <1>9, Types
  <2>3. node'[w.path] = node[w.path] BY <1>2, <1>3, <2>2
  <2> QED BY <1>14, <2>2, <2>3 DEF Current, Exists
<1>18. ASSUME NEW x \in {c, d, f}, NEW e, e = Event(x), e.wd # 0
       PROVE  /\ \E w \in ToSet(map) : ChangeAt(w, e)'
              /\ \A y : Under(y, p) => Announced(y)'
  <2>1. e \in Pending' BY <1>13, <1>18, Told
  <2>2. e.kind \in Announcing /\ e.isdir = IsDir(p) /\ About(e, p) BY <1>2, <1>11, <1>18
  <2>3. e \in Events /\ e.name # "" /\ p \in SrcPaths /\ e.kind \notin Removing
    BY <1>18, <2>2 DEF About, Announcing, Removing
  <2>4. PICK w \in ToSet(map) : w.path = Parent(p) /\ w.wd = e.wd /\ At(w, e) = p BY <1>18, <2>2 DEF About
  <2>5. Current(w)' BY <1>17
  <2> QED BY <1>1, <1>2, <1>3, <1>14, <1>18, <2>1, <2>2, <2>3, <2>4, <2>5, ChangeSeen
<1>19. p \in SrcPaths => Lost(p) \/ Announced(p)'
  <2>1. About(Event(f), p) BY <1>11
  <2>2. PICK e : e = Event(f) OBVIOUS
  <2> QED BY <1>2, <1>18, <2>1, <2>2 DEF About
<1>20. \A x \in DirPaths \cap SrcPaths :
         Exists(x)' => (\E w \in ToSet(map) : w.path = x /\ Current(w)') \/ Lost(x)
  <2>1. SUFFICES ASSUME NEW x \in DirPaths \cap SrcPaths, Exists(x)'
                 PROVE  (\E w \in ToSet(map) : w.path = x /\ Current(w)') \/ Lost(x)
    OBVIOUS
  <2>2. x \in Paths /\ x # p BY <1>2, SrcMeans
  <2>3. Exists(x) BY <1>3, <2>1, <2>2 DEF Exists
  <2>4. HasEntry(x) \/ Lost(x) BY <1>9, <2>3
  <2> QED BY <1>17, <2>4 DEF HasEntry
<1>21. \A x \in SrcPaths : node'[x] = node[x] \/ Lost(x) \/ (Exists(x)' /\ Announced(x)')
  BY <1>3, <1>19, SrcMeans
<1>22. \A x \in ToSet(doing') : \A e :
         e = Event(x) /\ e.wd # 0 /\ e.kind \in Announcing \cup Removing => \E w \in ToSet(map) : ChangeAt(w, e)'
  BY <1>13, <1>18
<1> QED BY <1>3, <1>13, <1>15, <1>16, <1>17, <1>20, <1>21, <1>22, ChangeKeeps

\* The user removes a file.
LEMMA UnlinkKeeps ==
  ASSUME Live, Idle, OneChange, NEW p, Unlink(p)
  PROVE  Live'
<1>0. /\ p \in FilePaths /\ Exists(p)
      /\ node' = [node EXCEPT ![p] = 0]
  BY DEF Unlink
<1>1. p \in Paths \ Top /\ p \in Paths /\ p \notin DirPaths /\ IsDir(p) = FALSE /\ Parent(p) \in Paths /\ Parent(p) # p
      /\ Under(p, p)
  BY <1>0, FilesAreNotDirs, ParentMeans, UnderOrders
<1>2. /\ TypeOK /\ TreeInv /\ TableInv
      /\ \A w \in ToSet(map) : Current(w)
      /\ \A x \in DirPaths \cap SrcPaths : Exists(x) => HasEntry(x) \/ Lost(x)
  BY IdleMeans DEF Live, Working
<1>3. Exists(Parent(p)) BY <1>0, <1>1, <1>2 DEF TreeInv
<1>4. \A x \in Paths : Under(x, p) /\ x # p => ~Exists(x) BY <1>1, BelowDirs
<1>5. /\ node' \in [Paths -> Inodes] /\ TreeInv'
      /\ \A x \in Paths : Under(x, p) => ~Exists(x)'
      /\ \A x \in Paths \ {p} : node'[x] = node[x]
  BY <1>0, <1>1, <1>4, NodeGoes
<1>6. PICK d : d = ReportOf("delete", p, 0) OBVIOUS
<1>7. PICK e : e = Event(d) OBVIOUS
<1>8. 0 \in 0 .. MaxOps BY Bounds
<1>9. /\ d \in Reports /\ d.kind = "delete" /\ d.path = p /\ d.dir = node[Parent(p)]
      /\ e.kind = "delete" /\ e.isdir = IsDir(p) /\ e.wd = wdOf[node[Parent(p)]] /\ About(e, p)
  BY <1>1, <1>2, <1>3, <1>6, <1>7, <1>8, EventAbout
<1>10. e \in Events /\ e.kind \in Removing /\ e.kind \notin Announcing BY <1>9 DEF About, Removing, Announcing
<1>11. doing' \in Seq(Reports) /\ DOMAIN doing' = {1} /\ doing'[1] = d /\ ToSet(doing') = {d}
  <2>1. doing' = <<d>> BY <1>6 DEF Unlink
  <2> QED BY <1>9, <2>1, OneReport
<1>12. UNCHANGED <<map, gone, lastWd, wdOf, lost>> BY DEF OneChange
<1>13. DoingInv'
  <2>1. Exists(Parent(p))' /\ node'[Parent(p)] = node[Parent(p)] BY <1>1, <1>3, <1>5 DEF Exists
  <2>2. p \in SrcPaths => wdOf[node[Parent(p)]] # 0 \/ Lost(p) BY <1>9 DEF About
  <2> QED BY <1>9, <1>11, <2>1, <2>2, EntriesDoing DEF OfSelf
<1>14. \A w \in ToSet(map) : Current(w)'
  <2>1. SUFFICES ASSUME NEW w \in ToSet(map) PROVE Current(w)' OBVIOUS
  <2>2. Current(w) /\ w.path \in DirPaths /\ w.path \in Paths BY <1>2, Types
  <2>3. node'[w.path] = node[w.path] BY <1>1, <1>5, <2>2
  <2> QED BY <1>12, <2>2, <2>3 DEF Current, Exists
<1>15. e.wd # 0 => (\E w \in ToSet(map) : ChangeAt(w, e)') /\ (\A x : Under(x, p) => Removed(x)')
  <2>1. SUFFICES ASSUME e.wd # 0
                 PROVE  (\E w \in ToSet(map) : ChangeAt(w, e)') /\ (\A x : Under(x, p) => Removed(x)')
    OBVIOUS
  <2>2. p \in SrcPaths /\ e.name # "" /\ e \in Pending' BY <1>7, <1>9, <1>11, <2>1, Told DEF About
  <2>3. PICK w \in ToSet(map) : w.path = Parent(p) /\ w.wd = e.wd /\ At(w, e) = p BY <1>9, <2>1 DEF About
  <2> QED BY <1>1, <1>3, <1>5, <1>9, <1>10, <1>12, <1>14, <2>1, <2>2, <2>3, ChangeSeen
<1>16. p \in SrcPaths => Lost(p) \/ Removed(p)' BY <1>1, <1>9, <1>15 DEF About
<1>17. \A x \in ToSet(doing') : \A y :
         y = Event(x) /\ y.wd # 0 /\ y.kind \in Announcing \cup Removing => \E w \in ToSet(map) : ChangeAt(w, y)'
  BY <1>7, <1>11, <1>15
<1>18. \A x \in DirPaths \cap SrcPaths :
         Exists(x)' => (\E w \in ToSet(map) : w.path = x /\ Current(w)') \/ Lost(x)
  <2>1. SUFFICES ASSUME NEW x \in DirPaths \cap SrcPaths, Exists(x)'
                 PROVE  (\E w \in ToSet(map) : w.path = x /\ Current(w)') \/ Lost(x)
    OBVIOUS
  <2>2. x \in Paths /\ x # p BY <1>1, SrcMeans
  <2>3. Exists(x) BY <1>5, <2>1, <2>2 DEF Exists
  <2>4. HasEntry(x) \/ Lost(x) BY <1>2, <2>3
  <2> QED BY <1>14, <2>4 DEF HasEntry
<1>19. \A x \in SrcPaths : node'[x] = node[x] \/ Lost(x) \/ (~Exists(x)' /\ Removed(x)')
  BY <1>1, <1>5, <1>16, SrcMeans
<1>20. \A i, j \in DOMAIN doing' : i < j => Precedes(Event(doing'[i]), Event(doing'[j])) BY <1>11
<1> QED BY <1>5, <1>11, <1>13, <1>14, <1>17, <1>18, <1>19, <1>20, ChangeKeeps

\* The user makes a directory.
LEMMA MkDirKeeps ==
  ASSUME Live, Idle, OneChange, NEW p, MkDir(p)
  PROVE  Live'
<1>0. /\ p \in DirPaths /\ Exists(Parent(p)) /\ ~Exists(p)
      /\ node' = [node EXCEPT ![p] = Fresh]
  BY DEF MkDir
<1>1. p \in Paths \ Top /\ p \in Paths
  <2>1. p # Src /\ p # Out BY <1>0 DEF Live, Working, TreeInv
  <2> QED BY <1>0, <2>1, SrcMeans DEF Top
<1>2. /\ TypeOK /\ TreeInv /\ TableInv
      /\ \A w \in ToSet(map) : Current(w)
      /\ \A x \in DirPaths \cap SrcPaths : Exists(x) => HasEntry(x) \/ Lost(x)
  BY IdleMeans DEF Live, Working
<1>3. Exists(Parent(p)) /\ Parent(p) \in Paths /\ Parent(p) # p /\ Under(p, p)
  BY <1>0, <1>1, ParentMeans, UnderOrders
<1>5. /\ node' \in [Paths -> Inodes] /\ TreeInv' /\ Exists(p)'
      /\ \A x \in Paths \ {p} : node'[x] = node[x]
  BY <1>0, <1>1, NodeAppears
<1>6. PICK d : d = ReportOf("create", p, 0) OBVIOUS
<1>7. PICK e : e = Event(d) OBVIOUS
<1>8. 0 \in 0 .. MaxOps BY Bounds
<1>9. /\ d \in Reports /\ d.kind = "create" /\ d.path = p /\ d.dir = node[Parent(p)]
      /\ e.kind = "create" /\ e.isdir = IsDir(p) /\ e.wd = wdOf[node[Parent(p)]] /\ About(e, p)
  BY <1>1, <1>2, <1>3, <1>6, <1>7, <1>8, EventAbout
<1>10. e \in Events /\ e.kind \in Announcing /\ e.kind \notin Removing BY <1>9 DEF About, Removing, Announcing
<1>11. doing' \in Seq(Reports) /\ DOMAIN doing' = {1} /\ doing'[1] = d /\ ToSet(doing') = {d}
  <2>1. doing' = <<d>> BY <1>6 DEF MkDir
  <2> QED BY <1>9, <2>1, OneReport
<1>12. UNCHANGED <<map, gone, lastWd, wdOf, lost>> BY DEF OneChange
<1>13. DoingInv'
  <2>1. Exists(Parent(p))' /\ node'[Parent(p)] = node[Parent(p)] BY <1>1, <1>3, <1>5 DEF Exists
  <2>2. p \in SrcPaths => wdOf[node[Parent(p)]] # 0 \/ Lost(p) BY <1>9 DEF About
  <2> QED BY <1>9, <1>11, <2>1, <2>2, EntriesDoing DEF OfSelf
<1>14. \A w \in ToSet(map) : Current(w)' /\ ~Under(w.path, p)
  <2>1. SUFFICES ASSUME NEW w \in ToSet(map) PROVE Current(w)' /\ ~Under(w.path, p) OBVIOUS
  <2>2. Current(w) /\ w.path \in Paths BY <1>2, Types
  <2>3. w.path # p BY <1>0, <2>2 DEF Current
  <2>4. node'[w.path] = node[w.path] BY <1>5, <2>2, <2>3
  <2>5. ~Under(w.path, p) BY <1>0, <1>1, <1>2, <2>2, ExistsUpwards DEF Current
  <2> QED BY <1>12, <2>2, <2>4, <2>5 DEF Current, Exists
<1>15. e.wd # 0 => (\E w \in ToSet(map) : ChangeAt(w, e)') /\ (\A x : Under(x, p) => Announced(x)')
  <2>1. SUFFICES ASSUME e.wd # 0
                 PROVE  (\E w \in ToSet(map) : ChangeAt(w, e)') /\ (\A x : Under(x, p) => Announced(x)')
    OBVIOUS
  <2>2. p \in SrcPaths /\ e.name # "" /\ e \in Pending' BY <1>7, <1>9, <1>11, <2>1, Told DEF About
  <2>3. PICK w \in ToSet(map) : w.path = Parent(p) /\ w.wd = e.wd /\ At(w, e) = p BY <1>9, <2>1 DEF About
  <2> QED BY <1>1, <1>3, <1>5, <1>9, <1>10, <1>12, <1>14, <2>1, <2>2, <2>3, ChangeSeen
<1>16. p \in SrcPaths => Lost(p) \/ Announced(p)' BY <1>3, <1>9, <1>15 DEF About
<1>17. \A x \in ToSet(doing') : \A y :
         y = Event(x) /\ y.wd # 0 /\ y.kind \in Announcing \cup Removing => \E w \in ToSet(map) : ChangeAt(w, y)'
  BY <1>7, <1>11, <1>15
<1>18. \A x \in DirPaths \cap SrcPaths :
         Exists(x)' => (\E w \in ToSet(map) : w.path = x /\ Current(w)') \/ Lost(x) \/ Announced(x)'
  <2>1. SUFFICES ASSUME NEW x \in DirPaths \cap SrcPaths, Exists(x)', x # p
                 PROVE  (\E w \in ToSet(map) : w.path = x /\ Current(w)') \/ Lost(x)
    BY <1>16
  <2>2. x \in Paths BY SrcMeans
  <2>3. Exists(x) BY <1>5, <2>1, <2>2 DEF Exists
  <2>4. HasEntry(x) \/ Lost(x) BY <1>2, <2>3
  <2> QED BY <1>14, <2>4 DEF HasEntry
<1>19. \A x \in SrcPaths : node'[x] = node[x] \/ Lost(x) \/ (Exists(x)' /\ Announced(x)')
  BY <1>1, <1>5, <1>16, SrcMeans
<1>20. \A i, j \in DOMAIN doing' : i < j => Precedes(Event(doing'[i]), Event(doing'[j])) BY <1>11
<1> QED BY <1>5, <1>11, <1>13, <1>14, <1>17, <1>18, <1>19, <1>20, ChangeKeeps

\* The user removes a directory: its own watch will end with it.
LEMMA RmDirKeeps ==
  ASSUME Live, Idle, OneChange, NEW p \in Paths \ Top, RmDir(p)
  PROVE  Live'
<1> DEFINE n == node[p]
<1>c. PICK c : c = Report(n, "delete_self", p, 0) OBVIOUS
<1>d. PICK d : d = Report(n, "ignored", p, 0) OBVIOUS
<1>f. PICK f : f = ReportOf("delete", p, 0) OBVIOUS
<1>0. /\ p \in DirPaths /\ Exists(p) /\ Children(p) = {}
      /\ node' = [node EXCEPT ![p] = 0]
  BY DEF RmDir
<1>1. /\ TypeOK /\ TreeInv /\ TableInv
      /\ \A w \in ToSet(map) : Current(w)
      /\ \A x \in DirPaths \cap SrcPaths : Exists(x) => HasEntry(x) \/ Lost(x)
  BY IdleMeans DEF Live, Working
<1>2. Exists(Parent(p)) /\ Parent(p) \in Paths /\ Parent(p) # p BY <1>0, <1>1, ParentMeans DEF TreeInv
<1>3. \A x \in Paths : Under(x, p) /\ x # p => ~Exists(x)
  <2>1. SUFFICES ASSUME NEW x \in Paths, Under(x, p), x # p, Exists(x) PROVE FALSE OBVIOUS
  <2>2. PICK y \in Paths \ Top : Parent(y) = p /\ Under(x, y) BY <2>1, OnTheWay
  <2>3. Exists(y) BY <1>1, <2>1, <2>2, ExistsUpwards
  <2>4. Len(y) = Len(p) + 1 /\ Under(y, p) BY <2>2, ChildMeans
  <2> QED BY <1>0, <2>3, <2>4 DEF Children
<1>4. n \in Inodes /\ n # 0 BY <1>0, <1>1, Types DEF Exists
<1>5. /\ node' \in [Paths -> Inodes] /\ TreeInv'
      /\ \A x \in Paths : Under(x, p) => ~Exists(x)'
      /\ \A x \in Paths \ {p} : node'[x] = node[x]
  BY <1>0, <1>3, NodeGoes
<1>6. \A x \in Paths : node'[x] # n
  <2>1. ~Exists(p)' BY <1>5, UnderOrders
  <2>2. \A x \in Paths \ {p} : node[x] # n BY <1>0, <1>1 DEF TreeInv
  <2> QED BY <1>4, <1>5, <2>1, <2>2 DEF Exists
<1> HIDE DEF n
<1>7. 0 \in 0 .. MaxOps BY Bounds
<1>8. PICK e : e = Event(f) OBVIOUS
<1>9. /\ f \in Reports /\ f.kind = "delete" /\ f.path = p /\ f.dir = node[Parent(p)]
      /\ e.kind = "delete" /\ e.isdir = IsDir(p) /\ e.wd = wdOf[node[Parent(p)]] /\ About(e, p)
  BY <1>1, <1>2, <1>f, <1>7, <1>8, EventAbout
<1>10. e \in Events /\ e.kind \in Removing /\ e.kind \notin Announcing BY <1>9 DEF About, Removing, Announcing
<1>11. \A x \in {c, d} :
         /\ x \in Reports /\ x.kind \in OfSelf /\ x.dir = n
         /\ Event(x).kind \notin Announcing \cup Removing
  <2>1. c \in Reports /\ c.kind = "delete_self" /\ c.dir = n BY <1>c, <1>4, <1>7 DEF Report, Reports
  <2>2. d \in Reports /\ d.kind = "ignored" /\ d.dir = n BY <1>d, <1>4, <1>7 DEF Report, Reports
  <2>3. Event(c).kind = "delete_self" /\ Event(d).kind = "ignored" BY <1>1, <2>1, <2>2, ReportMeans
  <2> QED BY <2>1, <2>2, <2>3 DEF OfSelf, Announcing, Removing
<1>12. doing' \in {<<c, d, f>>, <<f, c, d>>} BY <1>c, <1>d, <1>f DEF RmDir, n
<1>13. doing' \in Seq(Reports) /\ ToSet(doing') = {c, d, f} /\ \A i \in DOMAIN doing' : doing'[i] \in {c, d, f}
  <2>1. c \in Reports /\ d \in Reports /\ f \in Reports BY <1>9, <1>11
  <2>2. \A s : s = <<c, d, f>> => s \in Seq(Reports) /\ ToSet(s) = {c, d, f} BY <2>1, ThreeReports
  <2>3. \A s : s = <<f, c, d>> => s \in Seq(Reports) /\ ToSet(s) = {f, c, d} BY <2>1, ThreeReports
  <2>4. \A i \in DOMAIN doing' : doing'[i] \in ToSet(doing') BY DEF ToSet
  <2> QED BY <1>12, <2>2, <2>3, <2>4
<1>14. UNCHANGED <<map, gone, lastWd, wdOf, lost>> BY DEF OneChange
<1>15. DoingInv'
  <2>1. Exists(Parent(p))' /\ node'[Parent(p)] = node[Parent(p)] BY <1>2, <1>5 DEF Exists
  <2>2. p \in SrcPaths => wdOf[node[Parent(p)]] # 0 \/ Lost(p) BY <1>9 DEF About
  <2>3. Lost(p)' <=> Lost(p) BY <1>14 DEF Lost
  <2>4. \A i \in DOMAIN doing' : doing'[i].kind # "write" BY <1>9, <1>11, <1>13 DEF OfSelf
  <2>5. ASSUME NEW i \in DOMAIN doing', doing'[i].kind \notin OfSelf PROVE doing'[i] = f BY <1>11, <1>13, <2>5
  <2>6. ASSUME NEW i \in DOMAIN doing', doing'[i].kind \in OfSelf PROVE doing'[i].dir = n
    BY <1>9, <1>11, <1>13, <2>6 DEF OfSelf
  <2> QED BY <1>6, <1>9, <1>14, <2>1, <2>2, <2>3, <2>4, <2>5, <2>6 DEF DoingInv
<1>16. \A i, j \in DOMAIN doing' : i < j => Precedes(Event(doing'[i]), Event(doing'[j]))
  <2>1. \A x \in {c, d, f} : Event(x).kind \notin Announcing BY <1>8, <1>10, <1>11
  <2> QED BY <1>13, <2>1 DEF Precedes
<1>17. \A w \in ToSet(map) : w.path # p => Current(w)'
  <2>1. SUFFICES ASSUME NEW w \in ToSet(map), w.path # p PROVE Current(w)' OBVIOUS
  <2>2. Current(w) /\ w.path \in Paths BY <1>1, Types
  <2>3. node'[w.path] = node[w.path] BY <1>5, <2>1, <2>2
  <2> QED BY <1>14, <2>2, <2>3 DEF Current, Exists
<1>18. e.wd # 0 => (\E w \in ToSet(map) : ChangeAt(w, e)') /\ (\A x : Under(x, p) => Removed(x)')
  <2>1. SUFFICES ASSUME e.wd # 0
                 PROVE  (\E w \in ToSet(map) : ChangeAt(w, e)') /\ (\A x : Under(x, p) => Removed(x)')
    OBVIOUS
  <2>2. p \in SrcPaths /\ e.name # "" /\ e \in Pending' BY <1>8, <1>9, <1>13, <2>1, Told DEF About
  <2>3. PICK w \in ToSet(map) : w.path = Parent(p) /\ w.wd = e.wd /\ At(w, e) = p BY <1>9, <2>1 DEF About
  <2>4. Current(w)' BY <1>2, <1>17, <2>3
  <2> QED BY <1>2, <1>5, <1>9, <1>10, <1>14, <2>1, <2>2, <2>3, <2>4, ChangeSeen
<1>19. Under(p, p) BY UnderOrders
<1>20. p \in SrcPaths => Lost(p) \/ Removed(p)' BY <1>9, <1>18, <1>19 DEF About
<1>21. \A w \in ToSet(map) : Current(w)' \/ Removed(w.path)'
  <2>1. SUFFICES ASSUME NEW w \in ToSet(map), w.path = p PROVE Removed(p)' BY <1>17
  <2>2. p # Src BY SrcMeans
  <2>3. PICK v \in ToSet(map) : v.path = Parent(p) BY <2>1, <2>2, IdleMeans DEF HasEntry
  <2>4. Current(v) /\ v.wd # 0 BY <1>1, Types
  <2>5. e.wd # 0 BY <1>9, <2>3, <2>4 DEF Current
  <2> QED BY <1>18, <1>19, <2>5
<1>22. \A x \in ToSet(doing') : \A y :
         y = Event(x) /\ y.wd # 0 /\ y.kind \in Announcing \cup Removing => \E w \in ToSet(map) : ChangeAt(w, y)'
  BY <1>8, <1>11, <1>13, <1>18
<1>23. \A x \in DirPaths \cap SrcPaths :
         Exists(x)' => (\E w \in ToSet(map) : w.path = x /\ Current(w)') \/ Lost(x)
  <2>1. SUFFICES ASSUME NEW x \in DirPaths \cap SrcPaths, Exists(x)'
                 PROVE  (\E w \in ToSet(map) : w.path = x /\ Current(w)') \/ Lost(x)
    OBVIOUS
  <2>2. x \in Paths /\ x # p BY <1>5, <1>19, <2>1, SrcMeans
  <2>3. Exists(x) BY <1>5, <2>1, <2>2 DEF Exists
  <2>4. HasEntry(x) \/ Lost(x) BY <1>1, <2>3
  <2> QED BY <1>17, <2>2, <2>4 DEF HasEntry
<1>24. \A x \in SrcPaths : node'[x] = node[x] \/ Lost(x) \/ (~Exists(x)' /\ Removed(x)')
  BY <1>5, <1>19, <1>20, SrcMeans
<1> QED BY <1>5, <1>13, <1>15, <1>16, <1>21, <1>22, <1>23, <1>24, ChangeKeeps

\* A path that moves to where it is stays.
LEMMA MovedToItself == \A p, q \in Paths : Moved(q, q, p) = p
<1> SUFFICES ASSUME NEW p \in Paths, NEW q \in Paths PROVE Moved(q, q, p) = p OBVIOUS
<1>1. p \in Seq(Names) /\ q \in Seq(Names) /\ Len(p) \in Nat /\ Len(q) \in Nat BY PathMeans
<1>2. /\ Moved(q, q, p) \in Seq(Names) /\ Len(Moved(q, q, p)) = Len(p)
      /\ \A i \in 1 .. Len(p) : Moved(q, q, p)[i] = p[i]
  <2>1. Under(q, q) BY UnderOrders
  <2>2. /\ Moved(q, q, p) \in Seq(Names) /\ Len(Moved(q, q, p)) = Len(p) + (Len(q) - Len(q))
        /\ \A i \in 1 .. Len(p) : Moved(q, q, p)[i] = p[i]
    BY <2>1, MovedIs
  <2> QED BY <1>1, <2>2
<1> QED BY <1>1, <1>2

\* What a rename does to the tree.
LEMMA RenameMeans ==
  ASSUME Live, OneChange, NEW op, NEW p \in Paths \ Top, NEW q \in Paths \ Top, Rename(op, p, q)
  PROVE  /\ node' \in [Paths -> Inodes] /\ TreeInv' /\ Exists(q)'
         /\ \A x \in Paths : Under(x, p) => ~Exists(x)' /\ ~Under(x, q)
         /\ \A x \in Paths : Under(x, q) /\ ~Exists(x)' => node'[x] = node[x]
         /\ \A x \in DirPaths : Under(x, q) => ~Exists(x)
         /\ \A x \in Paths : ~Under(x, p) /\ ~Under(x, q) => node'[x] = node[x]
         /\ ~Under(Parent(q), p) /\ ~Under(Parent(q), q) /\ ~Under(Parent(p), p)
<1> USE DEF Live, Working
<1> DEFINE moves == {x \in Paths : Exists(x) /\ Under(x, p)}
<1>0. /\ Exists(p) /\ Exists(Parent(q)) /\ p # q /\ ~Under(q, p)
      /\ IsDir(p) <=> IsDir(q)
      /\ IsDir(q) => ~Exists(q)
      /\ \A x \in moves : Moved(x, p, q) \in Paths
      /\ node' = [x \in Paths |->
                    IF Under(x, q) /\ Moved(x, q, p) \in moves THEN node[Moved(x, q, p)]
                    ELSE IF x \in moves THEN 0 ELSE node[x]]
      /\ wdOf' = wdOf
  BY DEF Rename, OneChange
<1>1. TypeOK /\ TreeInv /\ p \in Paths /\ q \in Paths /\ p \in moves BY <1>0, UnderOrders
<1>2. \A x \in Paths : Under(x, q) => x = q \/ (IsDir(q) /\ ~Exists(x))
  <2>1. SUFFICES ASSUME NEW x \in Paths, Under(x, q), x # q PROVE IsDir(q) /\ ~Exists(x) OBVIOUS
  <2>2. IsDir(q) BY <1>1, <2>1, BelowDirs DEF IsDir
  <2> QED BY <1>0, <1>1, <2>1, <2>2, ExistsUpwards
<1>3. ~Under(p, q) BY <1>0, <1>1, <1>2
<1>4. \A x \in Paths : ~(Under(x, p) /\ Under(x, q)) BY <1>0, <1>1, <1>3, UnderOrders
<1>5. \A x \in Paths : node[x] \in Inodes /\ node[x] \in Nat /\ node[x] < Fresh BY <1>1, Types DEF TreeInv
<1>6. \A x \in Paths : Under(x, p) => node'[x] = 0 BY <1>0, <1>4 DEF Exists
<1>7. \A x \in Paths : ~Under(x, p) /\ ~Under(x, q) => node'[x] = node[x] BY <1>0
<1>8. Moved(q, q, p) = p /\ Under(q, q) BY <1>1, MovedToItself, UnderOrders
<1>9. node'[q] = node[p] /\ Exists(q)' BY <1>0, <1>1, <1>8 DEF Exists
<1>10. \A x \in Paths : Under(x, q) => IF Moved(x, q, p) \in moves THEN node'[x] = node[Moved(x, q, p)]
                                       ELSE node'[x] = 0 /\ node[x] = 0
  <2>1. SUFFICES ASSUME NEW x \in Paths, Under(x, q)
                 PROVE  IF Moved(x, q, p) \in moves THEN node'[x] = node[Moved(x, q, p)]
                        ELSE node'[x] = 0 /\ node[x] = 0
    OBVIOUS
  <2>2. CASE Moved(x, q, p) \in moves BY <1>0, <2>1, <2>2
  <2>3. CASE Moved(x, q, p) \notin moves
    <3>1. x # q BY <1>1, <1>8, <2>3
    <3>2. node[x] = 0 BY <1>2, <2>1, <3>1 DEF Exists
    <3>3. node'[x] = IF x \in moves THEN 0 ELSE node[x] BY <1>0, <2>3
    <3> QED BY <2>3, <3>2, <3>3
  <2> QED BY <2>2, <2>3
<1>11. \A x \in Paths : Under(x, q) /\ Exists(x)' =>
         LET y == Moved(x, q, p) IN
         /\ y \in Paths /\ Exists(y) /\ Under(y, p) /\ node'[x] = node[y] /\ Moved(y, p, q) = x
         /\ x # q => y # p /\ Under(Parent(x), q) /\ Parent(y) = Moved(Parent(x), q, p)
  <2>1. SUFFICES ASSUME NEW x \in Paths, Under(x, q), Exists(x)', NEW y, y = Moved(x, q, p)
                 PROVE  /\ y \in Paths /\ Exists(y) /\ Under(y, p) /\ node'[x] = node[y] /\ Moved(y, p, q) = x
                        /\ x # q => y # p /\ Under(Parent(x), q) /\ Parent(y) = Moved(Parent(x), q, p)
    OBVIOUS
  <2>2. y \in moves /\ node'[x] = node[y] BY <1>10, <2>1 DEF Exists
  <2>3. y \in Paths /\ Exists(y) /\ Under(y, p) BY <2>2
  <2> QED BY <2>1, <2>2, <2>3, MovedMeans
<1>12. \A x \in Paths : node'[x] \in Inodes /\ node'[x] \in Nat /\ node'[x] < Fresh
  <2>1. SUFFICES ASSUME NEW x \in Paths PROVE node'[x] \in Inodes /\ node'[x] \in Nat /\ node'[x] < Fresh
    OBVIOUS
  <2>2. 0 \in Inodes /\ 0 < Fresh BY <1>1, InodesMeans, Types, Bounds DEF Fresh
  <2>3. CASE Under(x, q)
    <3>1. Moved(x, q, p) \in moves => Moved(x, q, p) \in Paths OBVIOUS
    <3> QED BY <1>5, <1>10, <2>2, <2>3, <3>1
  <2>4. CASE ~Under(x, q) BY <1>5, <1>6, <1>7, <2>2, <2>4
  <2> QED BY <2>3, <2>4
<1>13. node' \in [Paths -> Inodes]
  <2>1. node' = [x \in Paths |-> node'[x]] BY <1>0
  <2> QED BY <1>12, <2>1
<1>14. \A x \in Paths : node'[x] < Fresh'
  <2>1. ops \in Nat /\ ops' = ops + 1 BY <1>1, Types DEF OneChange
  <2>2. Fresh' = Fresh + 2 /\ Fresh \in Nat BY <2>1, Bounds DEF Fresh
  <2> QED BY <1>12, <2>2
<1>15. ~Under(Parent(q), p) /\ ~Under(Parent(q), q) /\ ~Under(Parent(p), p)
  <2>1. /\ Parent(p) \in Paths /\ Under(p, Parent(p)) /\ Parent(p) # p
        /\ Parent(q) \in Paths /\ Under(q, Parent(q)) /\ Parent(q) # q
    BY ParentMeans
  <2> QED BY <1>0, <1>1, <2>1, UnderOrders
<1> HIDE DEF moves
<1>16. \A x \in Paths \ Top : Exists(x)' => Exists(Parent(x))'
  <2>1. SUFFICES ASSUME NEW x \in Paths \ Top, Exists(x)' PROVE Exists(Parent(x))'
    OBVIOUS
  <2>2. Parent(x) \in Paths /\ Under(x, Parent(x)) BY ParentMeans
  <2>3. CASE x = q
    <3>1. node'[Parent(q)] = node[Parent(q)] BY <1>7, <1>15, <2>2, <2>3
    <3> QED BY <1>0, <2>3, <3>1 DEF Exists
  <2>4. CASE Under(x, q) /\ x # q
    <3>1. PICK y : y = Moved(x, q, p) OBVIOUS
    <3>2. /\ y \in Paths /\ Exists(y) /\ Under(y, p) /\ y # p
          /\ Under(Parent(x), q) /\ Parent(y) = Moved(Parent(x), q, p)
      BY <1>11, <2>1, <2>4, <3>1
    <3>3. y \notin Top BY <1>1, <3>2, BelowDirs
    <3>4. Parent(y) \in Paths /\ Under(Parent(y), p) BY <1>1, <3>2, <3>3, ParentMeans
    <3>5. Exists(Parent(y)) BY <1>1, <3>2, <3>3 DEF TreeInv
    <3>6. Parent(y) \in moves BY <3>4, <3>5 DEF moves
    <3>7. node'[Parent(x)] = node[Parent(y)] BY <1>10, <2>2, <3>2, <3>6
    <3> QED BY <3>5, <3>7 DEF Exists
  <2>5. CASE ~Under(x, q)
    <3>1. ~Under(x, p) BY <1>6, <2>1 DEF Exists
    <3>2. ~Under(Parent(x), p) /\ ~Under(Parent(x), q) BY <1>1, <2>2, <2>5, <3>1, UnderOrders
    <3>3. node'[x] = node[x] /\ node'[Parent(x)] = node[Parent(x)] BY <1>7, <2>2, <2>5, <3>1, <3>2
    <3>4. Exists(x) BY <2>1, <3>3 DEF Exists
    <3>5. Exists(Parent(x)) BY <1>1, <3>4 DEF TreeInv
    <3> QED BY <3>3, <3>5 DEF Exists
  <2> QED BY <2>3, <2>4, <2>5
<1>17. \A x, y \in Paths : Exists(x)' /\ node'[x] = node'[y] => x = y
  <2>1. SUFFICES ASSUME NEW x \in Paths, NEW y \in Paths, Exists(x)', Exists(y)', node'[x] = node'[y]
                 PROVE  x = y
    BY DEF Exists
  <2>2. \A u, v \in Paths : Exists(u) /\ node[u] = node[v] => u = v BY <1>1 DEF TreeInv
  <2>3. \A z \in Paths : Exists(z)' /\ ~Under(z, q) => node'[z] = node[z] /\ ~Under(z, p)
    BY <1>6, <1>7 DEF Exists
  <2>4. CASE Under(x, q) /\ Under(y, q)
    <3>1. PICK u, v : u = Moved(x, q, p) /\ v = Moved(y, q, p) OBVIOUS
    <3>2. u \in Paths /\ Exists(u) /\ node'[x] = node[u] /\ Moved(u, p, q) = x BY <1>11, <2>1, <2>4, <3>1
    <3>3. v \in Paths /\ Exists(v) /\ node'[y] = node[v] /\ Moved(v, p, q) = y BY <1>11, <2>1, <2>4, <3>1
    <3>4. u = v BY <2>1, <2>2, <3>2, <3>3
    <3> QED BY <3>2, <3>3, <3>4
  <2>5. CASE Under(x, q) /\ ~Under(y, q)
    <3>1. PICK u : u = Moved(x, q, p) OBVIOUS
    <3>2. u \in Paths /\ Exists(u) /\ node'[x] = node[u] /\ Under(u, p) BY <1>11, <2>1, <2>5, <3>1
    <3>3. node'[y] = node[y] /\ ~Under(y, p) BY <2>1, <2>3, <2>5
    <3>4. u = y BY <2>1, <2>2, <3>2, <3>3
    <3> QED BY <3>2, <3>3, <3>4
  <2>6. CASE ~Under(x, q) /\ Under(y, q)
    <3>1. PICK u : u = Moved(y, q, p) OBVIOUS
    <3>2. u \in Paths /\ Exists(u) /\ node'[y] = node[u] /\ Under(u, p) BY <1>11, <2>1, <2>6, <3>1
    <3>3. node'[x] = node[x] /\ ~Under(x, p) BY <2>1, <2>3, <2>6
    <3>4. u = x BY <2>1, <2>2, <3>2, <3>3
    <3> QED BY <3>2, <3>3, <3>4
  <2>7. CASE ~Under(x, q) /\ ~Under(y, q)
    <3>1. node'[x] = node[x] /\ node'[y] = node[y] BY <2>1, <2>3, <2>7
    <3> QED BY <2>1, <2>2, <3>1 DEF Exists
  <2> QED BY <2>4, <2>5, <2>6, <2>7
<1>18. Exists(Src)' /\ Exists(Out)'
  <2>1. Src \in Paths /\ Out \in Paths /\ Src \in Top /\ Out \in Top BY SrcMeans DEF Top
  <2>2. \A r \in Top : \A s \in Paths \ Top : r \in Paths => ~Under(r, s)
    BY BelowDirs
  <2>3. node'[Src] = node[Src] /\ node'[Out] = node[Out] BY <1>7, <2>1, <2>2
  <2> QED BY <1>1, <2>3 DEF TreeInv, Exists
<1>19. (\A i, j \in Inodes : wdOf[i] # 0 /\ wdOf[i] = wdOf[j] => i = j)' BY <1>0, <1>1 DEF TreeInv, Inodes
<1>20. TreeInv' BY <1>14, <1>16, <1>17, <1>18, <1>19 DEF TreeInv
<1>21. \A x \in DirPaths : Under(x, q) => ~Exists(x)
  <2>1. SUFFICES ASSUME NEW x \in DirPaths, Under(x, q) PROVE ~Exists(x) OBVIOUS
  <2>2. x \in Paths BY SrcMeans
  <2> QED BY <1>0, <1>2, <2>1, <2>2 DEF IsDir
<1>22. \A x \in Paths : Under(x, q) /\ ~Exists(x)' => node'[x] = node[x]
  <2>1. SUFFICES ASSUME NEW x \in Paths, Under(x, q), ~Exists(x)' PROVE node'[x] = node[x] OBVIOUS
  <2>2. Moved(x, q, p) \notin moves
    <3>1. SUFFICES ASSUME Moved(x, q, p) \in moves PROVE FALSE OBVIOUS
    <3>2. node'[x] = node[Moved(x, q, p)] BY <1>10, <2>1, <3>1
    <3>3. node[Moved(x, q, p)] # 0 BY <3>1 DEF moves, Exists
    <3> QED BY <2>1, <3>2, <3>3 DEF Exists
  <2> QED BY <1>10, <2>1, <2>2
<1>23. \A x \in Paths : Under(x, p) => ~Exists(x)' /\ ~Under(x, q) BY <1>4, <1>6 DEF Exists
<1> QED BY <1>7, <1>9, <1>13, <1>15, <1>20, <1>21, <1>22, <1>23

\* The user renames, moves out or moves in a file or a directory.
LEMMA RenameKeeps ==
  ASSUME Live, Idle, OneChange, NEW op, NEW p \in Paths \ Top, NEW q \in Paths \ Top, Rename(op, p, q)
  PROVE  Live'
<1>0. /\ Exists(p) /\ Exists(Parent(q)) /\ (IsDir(p) <=> IsDir(q))
      /\ doing' = <<ReportOf("moved_from", p, ops + 1), ReportOf("moved_to", q, ops + 1)>>
  BY DEF Rename
<1>1. /\ TypeOK /\ TreeInv /\ TableInv /\ p \in Paths /\ q \in Paths
      /\ \A w \in ToSet(map) : Current(w)
      /\ \A x \in DirPaths \cap SrcPaths : Exists(x) => HasEntry(x) \/ Lost(x)
  BY IdleMeans DEF Live, Working
<1>2. Exists(Parent(p)) /\ Exists(Parent(q)) BY <1>0, <1>1 DEF TreeInv
<1>3. /\ node' \in [Paths -> Inodes] /\ TreeInv' /\ Exists(q)'
      /\ \A x \in Paths : Under(x, p) => ~Exists(x)' /\ ~Under(x, q)
      /\ \A x \in Paths : Under(x, q) /\ ~Exists(x)' => node'[x] = node[x]
      /\ \A x \in DirPaths : Under(x, q) => ~Exists(x)
      /\ \A x \in Paths : ~Under(x, p) /\ ~Under(x, q) => node'[x] = node[x]
      /\ ~Under(Parent(q), p) /\ ~Under(Parent(q), q) /\ ~Under(Parent(p), p)
  BY RenameMeans
<1>4. /\ Parent(p) \in Paths /\ Under(p, Parent(p)) /\ Under(p, p)
      /\ Parent(q) \in Paths /\ Under(q, Parent(q)) /\ Under(q, q)
  BY <1>1, ParentMeans, UnderOrders
<1>5. PICK a : a = ReportOf("moved_from", p, ops + 1) OBVIOUS
<1>6. PICK b : b = ReportOf("moved_to", q, ops + 1) OBVIOUS
<1>7. PICK c : c = Event(a) OBVIOUS
<1>8. PICK d : d = Event(b) OBVIOUS
<1>9. ops + 1 \in 0 .. MaxOps BY <1>1, Types, Bounds DEF OneChange
<1>10. /\ a \in Reports /\ a.kind = "moved_from" /\ a.path = p /\ a.dir = node[Parent(p)]
       /\ c.kind = "moved_from" /\ c.isdir = IsDir(p) /\ c.wd = wdOf[node[Parent(p)]] /\ About(c, p)
  BY <1>1, <1>2, <1>5, <1>7, <1>9, EventAbout
<1>11. /\ b \in Reports /\ b.kind = "moved_to" /\ b.path = q /\ b.dir = node[Parent(q)]
       /\ d.kind = "moved_to" /\ d.isdir = IsDir(q) /\ d.wd = wdOf[node[Parent(q)]] /\ About(d, q)
  BY <1>1, <1>2, <1>6, <1>8, <1>9, EventAbout
<1>12. /\ c \in Events /\ c.kind \in Removing /\ c.kind \notin Announcing
       /\ d \in Events /\ d.kind \in Announcing /\ d.kind \notin Removing
  BY <1>10, <1>11 DEF About, Removing, Announcing
<1>13. /\ doing' \in Seq(Reports) /\ DOMAIN doing' = {1, 2} /\ doing'[1] = a /\ doing'[2] = b
       /\ ToSet(doing') = {a, b}
  BY <1>0, <1>5, <1>6, <1>10, <1>11, TwoReports
<1>14. UNCHANGED <<map, gone, lastWd, wdOf, lost>> BY DEF OneChange
<1>a. DoingInv'
  <2>1. /\ Exists(Parent(p))' /\ node'[Parent(p)] = node[Parent(p)]
        /\ Exists(Parent(q))' /\ node'[Parent(q)] = node[Parent(q)]
    <3>1. ~Under(Parent(p), q)
      <4>1. Parent(p) \in DirPaths BY ParentMeans
      <4> QED BY <1>2, <1>3, <4>1
    <3> QED BY <1>2, <1>3, <1>4, <3>1 DEF Exists
  <2>2. p \in SrcPaths => wdOf[node[Parent(p)]] # 0 \/ Lost(p) BY <1>10 DEF About
  <2>3. q \in SrcPaths => wdOf[node[Parent(q)]] # 0 \/ Lost(q) BY <1>11 DEF About
  <2> QED BY <1>10, <1>11, <1>13, <2>1, <2>2, <2>3, EntriesDoing DEF OfSelf
<1>b. \A i, j \in DOMAIN doing' : i < j => Precedes(Event(doing'[i]), Event(doing'[j]))
  BY <1>7, <1>12, <1>13 DEF Precedes
<1>15. \A w \in ToSet(map) : ~Under(w.path, q) /\ (~Under(w.path, p) => Current(w)')
  <2>1. SUFFICES ASSUME NEW w \in ToSet(map) PROVE ~Under(w.path, q) /\ (~Under(w.path, p) => Current(w)') OBVIOUS
  <2>2. Current(w) /\ w.path \in Paths /\ w.path \in DirPaths BY <1>1, Types
  <2>3. ~Under(w.path, q) BY <1>3, <2>2 DEF Current
  <2>4. ~Under(w.path, p) => node'[w.path] = node[w.path] BY <1>3, <2>2, <2>3
  <2> QED BY <1>14, <2>2, <2>3, <2>4 DEF Current, Exists
<1>16. c.wd # 0 => (\E w \in ToSet(map) : ChangeAt(w, c)') /\ (\A x : Under(x, p) => Removed(x)')
  <2>1. SUFFICES ASSUME c.wd # 0
                 PROVE  (\E w \in ToSet(map) : ChangeAt(w, c)') /\ (\A x : Under(x, p) => Removed(x)')
    OBVIOUS
  <2>2. p \in SrcPaths /\ c.name # "" /\ c \in Pending' BY <1>7, <1>10, <1>13, <2>1, Told DEF About
  <2>3. PICK w \in ToSet(map) : w.path = Parent(p) /\ w.wd = c.wd /\ At(w, c) = p BY <1>10, <2>1 DEF About
  <2>4. Current(w)' BY <1>3, <1>15, <2>3
  <2> QED BY <1>2, <1>3, <1>10, <1>12, <1>14, <2>1, <2>2, <2>3, <2>4, ChangeSeen
<1>17. d.wd # 0 => (\E w \in ToSet(map) : ChangeAt(w, d)') /\ (\A x : Under(x, q) => Announced(x)')
  <2>1. SUFFICES ASSUME d.wd # 0
                 PROVE  (\E w \in ToSet(map) : ChangeAt(w, d)') /\ (\A x : Under(x, q) => Announced(x)')
    OBVIOUS
  <2>2. q \in SrcPaths /\ d.name # "" /\ d \in Pending' BY <1>8, <1>11, <1>13, <2>1, Told DEF About
  <2>3. PICK w \in ToSet(map) : w.path = Parent(q) /\ w.wd = d.wd /\ At(w, d) = q BY <1>11, <2>1 DEF About
  <2>4. Current(w)' BY <1>3, <1>15, <2>3
  <2> QED BY <1>2, <1>3, <1>11, <1>12, <1>14, <1>15, <2>1, <2>2, <2>3, <2>4, ChangeSeen
<1>18. \A x \in SrcPaths : Under(x, p) => Lost(x) \/ Removed(x)'
  <2>1. SUFFICES ASSUME NEW x \in SrcPaths, Under(x, p) PROVE Lost(x) \/ Removed(x)' OBVIOUS
  <2>2. p \in SrcPaths /\ x \in Paths BY <2>1, InSrc, SrcMeans
  <2>3. CASE c.wd = 0 BY <1>1, <1>10, <2>1, <2>2, <2>3, LostBelow DEF About
  <2>4. CASE c.wd # 0 BY <1>16, <2>1, <2>4
  <2> QED BY <2>3, <2>4
<1>19. \A x \in SrcPaths : Under(x, q) => Lost(x) \/ Announced(x)'
  <2>1. SUFFICES ASSUME NEW x \in SrcPaths, Under(x, q) PROVE Lost(x) \/ Announced(x)' OBVIOUS
  <2>2. q \in SrcPaths /\ x \in Paths BY <2>1, InSrc, SrcMeans
  <2>3. CASE d.wd = 0 BY <1>1, <1>11, <2>1, <2>2, <2>3, LostBelow DEF About
  <2>4. CASE d.wd # 0 BY <1>17, <2>1, <2>4
  <2> QED BY <2>3, <2>4
<1>20. \A w \in ToSet(map) : Current(w)' \/ Removed(w.path)'
  <2>1. SUFFICES ASSUME NEW w \in ToSet(map), Under(w.path, p) PROVE Removed(w.path)' BY <1>15
  <2> DEFINE S == {v.path : v \in ToSet(map)}
  <2>2. S \in SUBSET Paths BY <1>1, Types
  <2>3. \A x \in S \ Top : Parent(x) \in S BY <1>1, SrcMeans, IdleMeans DEF HasEntry
  <2>4. w.path \in S /\ w.path \in Paths BY <1>1, Types
  <2>5. Under(w.path, Parent(p)) BY <1>1, <1>4, <2>1, <2>4, UnderOrders
  <2> HIDE DEF S
  <2>6. Parent(p) \in S BY <1>4, <2>2, <2>3, <2>4, <2>5, Upwards
  <2>7. PICK v \in ToSet(map) : v.path = Parent(p) BY <2>6 DEF S
  <2>8. Current(v) /\ v.wd # 0 BY <1>1, Types
  <2>9. c.wd # 0 BY <1>10, <2>7, <2>8 DEF Current
  <2> QED BY <1>16, <2>1, <2>9
<1>21. \A x \in ToSet(doing') : \A y :
         y = Event(x) /\ y.wd # 0 /\ y.kind \in Announcing \cup Removing => \E w \in ToSet(map) : ChangeAt(w, y)'
  BY <1>7, <1>8, <1>13, <1>16, <1>17
<1>22. \A x \in DirPaths \cap SrcPaths :
         Exists(x)' => (\E w \in ToSet(map) : w.path = x /\ Current(w)') \/ Lost(x) \/ Announced(x)'
  <2>1. SUFFICES ASSUME NEW x \in DirPaths \cap SrcPaths, Exists(x)', ~Under(x, q)
                 PROVE  (\E w \in ToSet(map) : w.path = x /\ Current(w)') \/ Lost(x)
    BY <1>19
  <2>2. x \in Paths /\ ~Under(x, p) BY <1>3, <2>1, SrcMeans
  <2>3. Exists(x) BY <1>3, <2>1, <2>2 DEF Exists
  <2>4. HasEntry(x) \/ Lost(x) BY <1>1, <2>3
  <2> QED BY <1>15, <2>2, <2>4 DEF HasEntry
<1>23. \A x \in SrcPaths :
         \/ node'[x] = node[x] \/ Lost(x)
         \/ Exists(x)' /\ Announced(x)'
         \/ ~Exists(x)' /\ Removed(x)'
  <2>1. SUFFICES ASSUME NEW x \in SrcPaths, node'[x] # node[x], ~Lost(x)
                 PROVE  (Exists(x)' /\ Announced(x)') \/ (~Exists(x)' /\ Removed(x)')
    OBVIOUS
  <2>2. x \in Paths BY SrcMeans
  <2>3. CASE Under(x, p) BY <1>3, <1>18, <2>1, <2>2, <2>3
  <2>4. CASE Under(x, q) BY <1>3, <1>19, <2>1, <2>2, <2>4
  <2> QED BY <1>3, <2>1, <2>2, <2>3, <2>4
<1> QED BY <1>3, <1>13, <1>20, <1>21, <1>22, <1>23, <1>a, <1>b, ChangeKeeps

\* A change that goes on, and what the worker and its histories keep meanwhile.
Onward ==
  /\ Proceed /\ ~overflow'
  /\ UNCHANGED <<pc, inbuf, map, toCopy, toWatch, toList, gone, dst, copied, full, lost,
                 toRestore, toKeep, kept, before, after, half, heard>>

\* There are a source and another directory, so what has been opened has a number.
LEMMA OpenedMeans ==
  ASSUME TypeOK
  PROVE  /\ Opened \in Nat /\ Opened # 0 /\ Written \in Inodes /\ Written \in Nat
         /\ Opened < Written /\ Written < Fresh
<1>1. Initial \in Seq(Paths) /\ Src \in ToSet(Initial) /\ Out \in ToSet(Initial)
  BY TreeAssumption DEF Top
<1>2. PICK i \in 1 .. Len(Initial) : Initial[i] = Src BY <1>1, ToSetMeans
<1>3. PICK j \in 1 .. Len(Initial) : Initial[j] = Out BY <1>1, ToSetMeans
<1>4. Src # Out
  <2>1. Src[1] = "src" /\ Out[1] = "out" BY DEF Src, Out
  <2> QED BY <2>1
<1>5. i # j BY <1>2, <1>3, <1>4
<1>6. Len(Initial) \in Nat /\ MaxOps \in Nat /\ Len(Initial) >= 2 BY <1>2, <1>3, <1>5, Bounds
<1>7. ops \in 0 .. MaxOps BY DEF TypeOK, TreeTypeOK
<1> QED BY <1>6, <1>7 DEF Opened, Written, Fresh, Inodes

\* What comes next of a change, and what follows it.
LEMMA NextReport ==
  ASSUME TypeOK, Onward
  PROVE  /\ doing # <<>> /\ doing' \in Seq(Reports) /\ Len(doing') = Len(doing) - 1 /\ Len(doing) \in Nat
         /\ DOMAIN doing = 1 .. Len(doing) /\ DOMAIN doing' = 1 .. Len(doing')
         /\ 1 \in DOMAIN doing /\ Head(doing) = doing[1] /\ Head(doing) \in Reports
         /\ ToSet(doing) = {Head(doing)} \cup ToSet(doing')
         /\ \A i \in DOMAIN doing' : i + 1 \in DOMAIN doing /\ 1 < i + 1 /\ doing'[i] = doing[i + 1]
         /\ \A i, j \in DOMAIN doing' : i < j => i + 1 < j + 1
         /\ \A x \in ToSet(doing') : x \in Reports /\ \E j \in DOMAIN doing : 1 < j /\ x = doing[j]
<1>1. doing # <<>> /\ doing' = Tail(doing) /\ doing \in Seq(Reports) BY Types DEF Onward, Proceed
<1>2. /\ Head(doing) \in Reports /\ doing' \in Seq(Reports) /\ Head(doing) = doing[1]
      /\ ToSet(doing) = {Head(doing)} \cup ToSet(doing')
      /\ Len(doing) \in Nat \ {0} /\ Len(doing') = Len(doing) - 1
      /\ \A i \in 1 .. Len(doing') : doing'[i] = doing[i + 1]
  BY <1>1, ToSetTail
<1>3. DOMAIN doing = 1 .. Len(doing) /\ DOMAIN doing' = 1 .. Len(doing') BY <1>1, <1>2, LenProperties
<1>4. 1 \in 1 .. Len(doing) /\ \A i \in 1 .. Len(doing') : i + 1 \in 1 .. Len(doing) /\ 1 < i + 1 BY <1>2
<1>5. \A i, j \in 1 .. Len(doing') : i < j => i + 1 < j + 1 BY <1>2
<1>6. ASSUME NEW x \in ToSet(doing')
      PROVE  x \in Reports /\ \E j \in DOMAIN doing : 1 < j /\ x = doing[j]
  <2>1. x \in Reports BY <1>2, ToSetMeans
  <2>2. PICK i \in 1 .. Len(doing') : x = doing'[i] BY <1>2, ToSetMeans
  <2> QED BY <1>2, <1>3, <1>4, <2>1, <2>2
<1> QED BY <1>1, <1>2, <1>3, <1>4, <1>5, <1>6

\* What the kernel does with it.
LEMMA NextPosted ==
  ASSUME TypeOK, Onward, NEW d, d = Head(doing), NEW e, e = Event(d)
  PROVE  /\ e \in Events /\ e.wd = wdOf[d.dir] /\ e.wd \in Nat /\ e.wd <= lastWd
         /\ e.kind = (IF d.kind = "write" THEN "modify" ELSE d.kind)
         /\ e.cookie \in 0 .. MaxOps
         /\ UNCHANGED <<user, ops, lastWd, overflow>>
         /\ queue' \in Seq(Events) /\ Len(queue') <= QueueMax
         /\ queue' = queue \/ (e.wd # 0 /\ queue' = Append(queue, e))
         /\ e.wd # 0 => ToSet(queue') = ToSet(queue) \cup {e}
         /\ e.wd = 0 => queue' = queue
<1>1. Proceed /\ ~overflow' BY DEF Onward
<1>2. d \in Reports BY NextReport
<1>3. /\ Event(d) \in Events /\ Event(d).wd = wdOf[d.dir] /\ Event(d).wd \in Nat /\ Event(d).wd <= lastWd
      /\ Event(d).kind = (IF d.kind = "write" THEN "modify" ELSE d.kind)
      /\ Event(d).cookie = d.cookie /\ d.cookie \in 0 .. MaxOps
  BY <1>2, ReportMeans
<1>4. e.kind \in Mask \cup {"ignored"}
  <2>1. d.kind \in {"create", "modify", "write", "close_write", "delete", "moved_from", "moved_to",
                    "delete_self", "ignored"}
    BY <1>2 DEF Reports
  <2> QED BY <1>3, <2>1, OrlovMirrorAssumption
<1>5. Emit(Post(Now, e)) /\ UNCHANGED <<user, ops, lastWd>> BY <1>1, <1>4 DEF Proceed
<1>6. queue' = Post(Now, e).queue /\ overflow' = Post(Now, e).overflow BY <1>5 DEF Emit
<1>7. Now \in KernelStates /\ Now.queue = queue /\ Now.overflow = overflow /\ Len(queue) <= QueueMax BY NowMeans
<1>8. /\ Post(Now, e) \in KernelStates
      /\ ~Post(Now, e).overflow =>
           /\ Post(Now, e).queue = queue \/ (e.wd # 0 /\ Post(Now, e).queue = Append(queue, e))
           /\ e.wd # 0 => ToSet(Post(Now, e).queue) = ToSet(queue) \cup {e}
           /\ e.wd = 0 => Post(Now, e).queue = queue
      /\ Len(Post(Now, e).queue) <= QueueMax
  BY <1>3, <1>7, PostMeans
<1>9. Post(Now, e).queue \in Seq(Events) BY <1>8 DEF KernelStates
<1>10. overflow' = overflow BY <1>1, ProceedDrops
<1> QED BY <1>1, <1>3, <1>5, <1>6, <1>8, <1>9, <1>10

\* A file that was opened is written; a watch goes with its directory.
LEMMA NextTree ==
  ASSUME Live, Onward, NEW d, d = Head(doing)
  PROVE  /\ d.kind = "write" =>
              /\ ~IsDir(d.path) /\ d.path \in Paths /\ node[d.path] = Opened
              /\ node'[d.path] = Written /\ \A p \in Paths : node[p] < Written
         /\ \A p \in Paths : node'[p] = node[p] \/ (d.kind = "write" /\ p = d.path)
         /\ \A p \in Paths : IsDir(p) => node'[p] = node[p]
         /\ \A p \in Paths : Exists(p)' <=> Exists(p)
         /\ node' \in [Paths -> Inodes]
         /\ wdOf' \in [Inodes -> 0 .. lastWd]
         /\ \A i \in Inodes : wdOf'[i] = wdOf[i] \/ (d.kind = "ignored" /\ i = d.dir /\ wdOf'[i] = 0)
         /\ d.kind = "ignored" => wdOf'[d.dir] = 0
         /\ d.kind \in OfSelf => \A p \in Paths : node[p] # d.dir
<1> USE DEF Live, Working
<1>1. 1 \in DOMAIN doing /\ d = doing[1] /\ d \in Reports BY NextReport
<1>2. d.path \in Paths /\ d.dir \in Inodes BY <1>1, ReportMeans
<1>3. d.kind = "write" => ~IsDir(d.path) /\ node[d.path] = Opened /\ \A p \in Paths : node[p] < Written
  BY <1>1 DEF DoingInv
<1>4. d.kind \in OfSelf => \A p \in Paths : node[p] # d.dir BY <1>1 DEF DoingInv
<1>5. /\ node' = IF d.kind = "write" THEN [node EXCEPT ![d.path] = Written] ELSE node
      /\ wdOf' = IF d.kind = "ignored" THEN [wdOf EXCEPT ![d.dir] = 0] ELSE wdOf
  BY DEF Onward, Proceed
<1>6. /\ node \in [Paths -> Inodes] /\ wdOf \in [Inodes -> 0 .. lastWd] /\ lastWd \in Nat
      /\ Written \in Inodes /\ Opened # 0 /\ Opened < Written /\ Opened \in Nat /\ Written \in Nat
  BY OpenedMeans DEF TypeOK, TreeTypeOK
<1>7. node' \in [Paths -> Inodes] /\ wdOf' \in [Inodes -> 0 .. lastWd]
  <2>1. node' \in [Paths -> Inodes] BY <1>5, <1>6
  <2>2. 0 \in 0 .. lastWd BY <1>6
  <2>3. wdOf' \in [Inodes -> 0 .. lastWd]
    <3>1. CASE d.kind = "ignored" BY <1>5, <1>6, <2>2, <3>1
    <3>2. CASE d.kind # "ignored" BY <1>5, <1>6, <3>2
    <3> QED BY <3>1, <3>2
  <2> QED BY <2>1, <2>3
<1>8. d.kind = "write" => node'[d.path] = Written BY <1>2, <1>5, <1>6
<1>9. \A p \in Paths : node'[p] = node[p] \/ (d.kind = "write" /\ p = d.path) BY <1>5, <1>6
<1>10. \A i \in Inodes : wdOf'[i] = wdOf[i] \/ (d.kind = "ignored" /\ i = d.dir /\ wdOf'[i] = 0) BY <1>5, <1>6
<1>11. d.kind = "ignored" => wdOf'[d.dir] = 0 BY <1>2, <1>5, <1>6
<1>12. \A p \in Paths : IsDir(p) => node'[p] = node[p] BY <1>3, <1>9
<1>13. \A p \in Paths : Exists(p)' <=> Exists(p)
  <2>1. Written # 0 BY <1>6
  <2> QED BY <1>3, <1>6, <1>8, <1>9, <2>1 DEF Exists
<1> QED BY <1>2, <1>3, <1>4, <1>7, <1>8, <1>9, <1>10, <1>11, <1>12, <1>13

\* What the table says stays so, and so does what will be reported.
LEMMA NextTable ==
  ASSUME Live, Onward
  PROVE  /\ \A w \in ToSet(map) : Current(w)' <=> Current(w)
         /\ \A x \in ToSet(doing') :
              /\ Event(x)'.kind = Event(x).kind /\ Event(x)'.isdir = Event(x).isdir
              /\ x.kind \notin OfSelf => Event(x)' = Event(x) /\ wdOf'[x.dir] = wdOf[x.dir]
         /\ Changes' = Changes
<1> USE DEF Live, Working
<1>1. PICK d : d = Head(doing) OBVIOUS
<1>2. PICK e : e = Event(d) OBVIOUS
<1>3. /\ \A p \in Paths : IsDir(p) => node'[p] = node[p]
      /\ \A p \in Paths : Exists(p)' <=> Exists(p)
      /\ \A i \in Inodes : wdOf'[i] = wdOf[i] \/ (d.kind = "ignored" /\ i = d.dir /\ wdOf'[i] = 0)
      /\ d.kind \in OfSelf => \A p \in Paths : node[p] # d.dir
  BY <1>1, NextTree
<1>4. UNCHANGED <<map, inbuf>> BY DEF Onward
<1>5. \A p \in Paths : wdOf'[node[p]] = wdOf[node[p]]
  <2>1. "ignored" \in OfSelf BY DEF OfSelf
  <2> QED BY <1>3, <2>1, Types
<1>6. ASSUME NEW w \in ToSet(map) PROVE Current(w)' <=> Current(w)
  <2>1. w.path \in Paths /\ IsDir(w.path) BY Types DEF IsDir
  <2> QED BY <1>3, <1>5, <2>1 DEF Current
<1>7. ASSUME NEW x \in ToSet(doing'), x.kind \notin OfSelf PROVE wdOf'[x.dir] = wdOf[x.dir]
  <2>1. PICK j \in DOMAIN doing : x = doing[j] BY <1>7, NextReport
  <2>2. x \in Reports BY <1>7, NextReport
  <2>3. x.dir = node[Parent(x.path)] BY <1>7, <2>1 DEF DoingInv
  <2>4. x.path \in Paths \ Top BY <2>2, ReportMeans
  <2>5. Parent(x.path) \in Paths BY <2>4, ParentMeans
  <2> QED BY <1>5, <2>3, <2>5
<1>8. ASSUME NEW x \in ToSet(doing')
      PROVE  /\ Event(x)'.kind = Event(x).kind /\ Event(x)'.isdir = Event(x).isdir
             /\ x.kind \notin OfSelf => Event(x)' = Event(x) /\ wdOf'[x.dir] = wdOf[x.dir]
  <2> DEFINE k == IF x.kind = "write" THEN "modify" ELSE x.kind
             n == IF x.kind \in OfSelf THEN "" ELSE Name(x.path)
             b == x.kind \notin OfSelf /\ IsDir(x.path)
  <2>1. /\ Event(x) = [wd |-> wdOf[x.dir], kind |-> k, name |-> n, isdir |-> b, cookie |-> x.cookie]
        /\ Event(x)' = [wd |-> wdOf'[x.dir], kind |-> k, name |-> n, isdir |-> b, cookie |-> x.cookie]
    BY DEF Event
  <2> HIDE DEF k, n, b
  <2>2. /\ Event(x).kind = k /\ Event(x).isdir = b /\ Event(x)'.kind = k /\ Event(x)'.isdir = b BY <2>1
  <2>3. ASSUME x.kind \notin OfSelf PROVE Event(x)' = Event(x) /\ wdOf'[x.dir] = wdOf[x.dir]
    <3>1. wdOf'[x.dir] = wdOf[x.dir] BY <1>7, <1>8, <2>3
    <3> QED BY <2>1, <3>1
  <2> QED BY <2>2, <2>3
<1>9. \A x \in Reports : x.kind \in OfSelf => Event(x).kind \notin Announcing \cup Removing
  <2>1. \A x \in Reports : Event(x).kind = (IF x.kind = "write" THEN "modify" ELSE x.kind) BY ReportMeans
  <2>2. \A k \in OfSelf : k # "write" /\ k \notin Announcing \cup Removing BY DEF OfSelf, Announcing, Removing
  <2> QED BY <2>1, <2>2
<1>10. /\ ToSet(doing) = {d} \cup ToSet(doing')
       /\ \A x \in ToSet(doing') : x \in Reports
       /\ d \in Reports
  BY <1>1, NextReport
<1>11. /\ e.wd # 0 => ToSet(queue') = ToSet(queue) \cup {e}
       /\ e.wd = 0 => queue' = queue
  BY <1>1, <1>2, NextPosted
<1>12. ASSUME NEW c \in Changes PROVE c \in Changes'
  <2>1. c.kind \in Announcing \cup Removing /\ c \in Pending BY DEF Changes
  <2>2. CASE c \in ToSet(inbuf) \cup ToSet(queue) BY <1>4, <1>11, <2>1, <2>2 DEF Changes, Pending
  <2>3. CASE c \in Coming
    <3>1. PICK x \in ToSet(doing) : c = Event(x) /\ c.wd # 0 BY <2>3 DEF Coming
    <3>2. CASE x = d
      <4>1. c \in ToSet(queue') BY <1>2, <1>11, <3>1, <3>2
      <4> QED BY <2>1, <4>1 DEF Changes, Pending
    <3>3. CASE x \in ToSet(doing')
      <4>1. x.kind \notin OfSelf BY <1>9, <1>10, <2>1, <3>1, <3>3
      <4>2. c = Event(x)' BY <1>8, <3>1, <3>3, <4>1
      <4>3. c \in Coming' BY <3>1, <3>3, <4>2 DEF Coming
      <4> QED BY <2>1, <4>3 DEF Changes, Pending
    <3> QED BY <1>10, <3>1, <3>2, <3>3
  <2> QED BY <2>1, <2>2, <2>3 DEF Pending
<1>13. ASSUME NEW c \in Changes' PROVE c \in Changes
  <2>1. c.kind \in Announcing \cup Removing /\ c \in Pending' BY DEF Changes
  <2>2. CASE c \in ToSet(inbuf) \cup ToSet(queue) BY <2>1, <2>2 DEF Changes, Pending
  <2>3. CASE c = e /\ e.wd # 0
    <3>1. c \in Coming BY <1>2, <1>10, <2>3 DEF Coming
    <3> QED BY <2>1, <3>1 DEF Changes, Pending
  <2>4. CASE c \in Coming'
    <3>1. PICK x \in ToSet(doing') : c = Event(x)' /\ c.wd # 0 BY <2>4 DEF Coming
    <3>2. x.kind \notin OfSelf BY <1>8, <1>9, <1>10, <2>1, <3>1
    <3>3. c = Event(x) BY <1>8, <3>1, <3>2
    <3>4. c \in Coming BY <1>10, <3>1, <3>3 DEF Coming
    <3> QED BY <2>1, <3>4 DEF Changes, Pending
  <2>5. c \in ToSet(inbuf) \cup ToSet(queue) \/ (c = e /\ e.wd # 0) \/ c \in Coming'
    BY <1>4, <1>11, <2>1 DEF Pending
  <2> QED BY <2>2, <2>3, <2>4, <2>5
<1> QED BY <1>6, <1>8, <1>12, <1>13

\* A change that goes on keeps the events in order, and what they say.
LEMMA NextEvents ==
  ASSUME Live, Onward
  PROVE  EventInv'
<1> USE DEF Live, Working
<1>1. PICK d : d = Head(doing) OBVIOUS
<1>2. PICK e : e = Event(d) OBVIOUS
<1>3. UNCHANGED <<pc, map, inbuf>> BY DEF Onward
<1>4. /\ \A p \in Paths : Exists(p)' <=> Exists(p)
      /\ \A i \in Inodes : wdOf'[i] = wdOf[i] \/ (d.kind = "ignored" /\ i = d.dir /\ wdOf'[i] = 0)
      /\ d.kind = "ignored" => wdOf'[d.dir] = 0
  BY <1>1, NextTree
<1>5. /\ \A w \in ToSet(map) : Current(w)' <=> Current(w)
      /\ \A x \in ToSet(doing') : Event(x)'.kind = Event(x).kind /\ Event(x)'.isdir = Event(x).isdir
      /\ Changes' = Changes
  BY NextTable
<1>6. /\ e \in Events /\ e.wd = wdOf[d.dir] /\ e.wd \in Nat
      /\ e.kind = (IF d.kind = "write" THEN "modify" ELSE d.kind)
      /\ queue' \in Seq(Events)
      /\ queue' = queue \/ (e.wd # 0 /\ queue' = Append(queue, e))
      /\ e.wd # 0 => ToSet(queue') = ToSet(queue) \cup {e}
      /\ e.wd = 0 => queue' = queue
  BY <1>1, <1>2, NextPosted
<1>7. /\ doing # <<>> /\ 1 \in DOMAIN doing /\ d = doing[1] /\ d \in Reports
      /\ ToSet(doing) = {d} \cup ToSet(doing')
      /\ \A i \in DOMAIN doing' : i + 1 \in DOMAIN doing /\ doing'[i] = doing[i + 1]
      /\ \A i, j \in DOMAIN doing' : i < j => i + 1 < j + 1
      /\ \A x \in ToSet(doing') : \E j \in DOMAIN doing : 1 < j /\ x = doing[j]
  BY <1>1, NextReport
<1>8. \A f, x : x \in ToSet(doing') => (Precedes(f, Event(x)') <=> Precedes(f, Event(x)))
  BY <1>5 DEF Precedes
<1>9. (\A c \in Pending : c.kind \in Announcing \cup Removing => \E w \in ToSet(map) : ChangeAt(w, c))'
  <2>1. SUFFICES ASSUME NEW c \in Changes' PROVE \E w \in ToSet(map) : ChangeAt(w, c)'
    BY <1>3 DEF Changes
  <2>2. PICK w \in ToSet(map) : ChangeAt(w, c) BY <1>5, <2>1 DEF Changes, EventInv
  <2>3. At(w, c) \in SrcPaths /\ At(w, c) \in Paths BY <2>2, SrcMeans DEF ChangeAt
  <2>4. \A x \in Paths : Under(x, At(w, c)) => (Exists(x)' <=> Exists(x)) BY <1>4
  <2>5. ChangeAt(w, c)' BY <1>3, <1>4, <1>5, <2>2, <2>3, <2>4 DEF ChangeAt
  <2> QED BY <2>5
<1>10. (\A x \in ToSet(inbuf) \cup ToSet(queue) : x.kind = "ignored" => ~HasWatch(x.wd))'
  <2>1. ASSUME NEW x \in ToSet(inbuf) \cup ToSet(queue), x.kind = "ignored" PROVE ~HasWatch(x.wd)'
    <3>1. x \in Pending BY DEF Pending
    <3>2. x.wd # 0 /\ ~HasWatch(x.wd) BY <2>1, <3>1, Types DEF EventInv
    <3> QED BY <1>4, <3>2 DEF HasWatch, Inodes
  <2>2. ASSUME e.wd # 0, e.kind = "ignored" PROVE ~HasWatch(e.wd)'
    <3>1. d.kind = "ignored" BY <1>6, <2>2
    <3>2. d.dir \in Inodes BY <1>7, ReportMeans
    <3>3. ASSUME NEW i \in Inodes, wdOf'[i] = e.wd PROVE FALSE
      <4>1. wdOf'[d.dir] = 0 BY <1>4, <3>1
      <4>2. i # d.dir BY <2>2, <3>3, <4>1
      <4>3. wdOf[i] = wdOf[d.dir] BY <1>4, <1>6, <3>3, <4>2
      <4> QED BY <1>6, <2>2, <3>2, <4>2, <4>3 DEF TreeInv
    <3> QED BY <3>3 DEF HasWatch, Inodes
  <2> QED BY <1>3, <1>6, <2>1, <2>2
<1>11. Ordered(inbuf)' BY <1>3 DEF EventInv, Ordered, Precedes
<1>12. \A x \in ToSet(inbuf) \cup ToSet(queue) : Precedes(x, e) BY <1>2, <1>7 DEF EventInv
<1>13. Ordered(queue)'
  <2>1. queue \in Seq(Events) /\ Ordered(queue) BY Types DEF EventInv
  <2>2. MayFollow(e, queue) BY <1>12 DEF MayFollow
  <2>3. Ordered(Append(queue, e)) BY <1>6, <2>1, <2>2, OrderedAppend
  <2>4. Ordered(queue') BY <1>6, <2>1, <2>3
  <2> QED BY <2>4 DEF Ordered, Precedes
<1>14. \A i, j \in DOMAIN doing' : i < j =>
         \A x, y : x = doing'[i] /\ y = doing'[j] => Precedes(Event(x)', Event(y)')
  <2>1. SUFFICES ASSUME NEW i \in DOMAIN doing', NEW j \in DOMAIN doing', i < j,
                        NEW x, x = doing'[i], NEW y, y = doing'[j]
                 PROVE  Precedes(Event(x)', Event(y)')
    OBVIOUS
  <2>2. i + 1 \in DOMAIN doing /\ j + 1 \in DOMAIN doing /\ i + 1 < j + 1 BY <1>7, <2>1
  <2>3. Precedes(Event(doing[i + 1]), Event(doing[j + 1])) BY <2>2 DEF EventInv
  <2>4. x \in ToSet(doing') /\ y \in ToSet(doing') BY <2>1 DEF ToSet
  <2>5. Precedes(Event(x), Event(y)) BY <1>7, <2>1, <2>3
  <2> QED BY <1>5, <2>4, <2>5 DEF Precedes
<1>15. \A x \in ToSet(inbuf), f \in ToSet(queue') : Precedes(x, f)
  BY <1>6, <1>12 DEF EventInv
<1>16. \A x \in ToSet(inbuf) \cup ToSet(queue'), y \in ToSet(doing') : Precedes(x, Event(y)')
  <2>1. \A x \in ToSet(inbuf) \cup ToSet(queue), y \in ToSet(doing') : Precedes(x, Event(y))
    BY <1>7 DEF EventInv
  <2>2. \A y \in ToSet(doing') : Precedes(e, Event(y)) BY <1>2, <1>7 DEF EventInv
  <2> QED BY <1>6, <1>8, <2>1, <2>2
<1>17. pc \notin {"copy0", "watch0"} BY <1>7 DEF EventInv
<1>18. pc \in {"copy", "watch"} => /\ \A c \in Pending' : c.kind \notin Announcing \cup Removing
                                   /\ \A x \in ToSet(doing') : x.kind \in OfSelf
  <2>1. pc \in {"copy", "watch"} => Changes = {} /\ \A x \in ToSet(doing) : x.kind \in OfSelf
    BY DEF EventInv, Changes
  <2> QED BY <1>5, <1>7, <2>1 DEF Changes
<1>19. pc = "read" => inbuf = <<>> BY DEF EventInv
<1>20. (/\ \A i, j \in DOMAIN doing : i < j => Precedes(Event(doing[i]), Event(doing[j]))
        /\ \A x \in ToSet(inbuf), f \in ToSet(queue) : Precedes(x, f)
        /\ \A x \in ToSet(inbuf) \cup ToSet(queue), y \in ToSet(doing) : Precedes(x, Event(y)))'
  <2>1. (\A i, j \in DOMAIN doing : i < j => Precedes(Event(doing[i]), Event(doing[j])))'
    BY <1>14 DEF Precedes, Event
  <2>2. (\A x \in ToSet(inbuf), f \in ToSet(queue) : Precedes(x, f))' BY <1>3, <1>15 DEF Precedes
  <2>3. (\A x \in ToSet(inbuf) \cup ToSet(queue), y \in ToSet(doing) : Precedes(x, Event(y)))'
    BY <1>3, <1>16 DEF Precedes
  <2> QED BY <2>1, <2>2, <2>3
<1>21. (/\ pc = "read" => inbuf = <<>>
        /\ pc \in {"copy0", "watch0"} => inbuf = <<>> /\ queue = <<>> /\ doing = <<>>
        /\ pc \in {"copy", "watch"} => /\ \A c \in Pending : c.kind \notin Announcing \cup Removing
                                      /\ \A x \in ToSet(doing) : x.kind \in OfSelf)'
  BY <1>3, <1>17, <1>18, <1>19
<1> QED BY <1>9, <1>10, <1>11, <1>13, <1>20, <1>21 DEF EventInv

\* A file that was opened is announced once more, when it is closed.
LEMMA CloseAnnounces ==
  ASSUME Live, Onward, NEW d, d = Head(doing), d.kind = "write", d.path \in SrcPaths
  PROVE  Announced(d.path) \/ Lost(d.path)
<1> USE DEF Live, Working
<1>1. 1 \in DOMAIN doing /\ d = doing[1] /\ d \in Reports /\ Len(doing) \in Nat /\ DOMAIN doing = 1 .. Len(doing)
  BY NextReport
<1>2. /\ Exists(Parent(d.path)) /\ d.dir = node[Parent(d.path)]
      /\ wdOf[d.dir] # 0 \/ Lost(d.path)
      /\ 1 < Len(doing) /\ \A j \in DOMAIN doing : 1 < j => doing[j] = [d EXCEPT !.kind = "close_write"]
  <2>1. d.kind \notin OfSelf BY DEF OfSelf
  <2> QED BY <1>1, <2>1 DEF DoingInv
<1>3. SUFFICES ASSUME wdOf[d.dir] # 0 PROVE Announced(d.path) BY <1>2
<1>4. 2 \in DOMAIN doing /\ 1 < 2 BY <1>1, <1>2
<1>5. PICK f \in ToSet(doing) : f = [d EXCEPT !.kind = "close_write"]
  <2>1. doing[2] \in ToSet(doing) BY <1>4 DEF ToSet
  <2> QED BY <1>2, <1>4, <2>1
<1>6. f.kind = "close_write" /\ f.path = d.path /\ f.dir = d.dir /\ f \in Reports
  <2>1. f \in Reports BY Types, ToSetMeans
  <2>2. d = [dir |-> d.dir, path |-> d.path, cookie |-> d.cookie, kind |-> d.kind] BY <1>1 DEF Reports
  <2> QED BY <1>5, <2>1, <2>2
<1>7. PICK c : c = Event(f) OBVIOUS
<1>8. /\ c.kind = "close_write" /\ c.wd = wdOf[d.dir] /\ c.name = Name(d.path)
      /\ d.path \in Paths \ Top /\ d.dir \in Inodes
  <2>1. f.kind # "write" /\ f.kind \notin OfSelf BY <1>6 DEF OfSelf
  <2> QED BY <1>6, <1>7, <2>1, ReportMeans
<1>9. c \in Pending /\ c.kind \in Announcing
  <2>1. c \in Coming BY <1>3, <1>7, <1>8 DEF Coming
  <2> QED BY <1>8, <2>1 DEF Pending, Announcing
<1>10. PICK w \in ToSet(map) : ChangeAt(w, c) BY <1>9 DEF EventInv
<1>11. /\ Parent(d.path) \in Paths /\ d.path = Parent(d.path) \o <<Name(d.path)>> /\ w.path \in Paths
       /\ Under(d.path, d.path)
  BY <1>8, ParentMeans, Types, UnderOrders
<1>12. w.path = Parent(d.path)
  <2>1. Exists(w.path) /\ wdOf[node[w.path]] = wdOf[d.dir] /\ w.wd = c.wd BY <1>8, <1>10 DEF ChangeAt, Current
  <2>2. node[w.path] = d.dir BY <1>3, <1>8, <1>11, <2>1, Types DEF TreeInv
  <2> QED BY <1>2, <1>11, <2>1, <2>2 DEF TreeInv
<1>13. NamedBy(c, d.path)
  <2>1. w.wd = c.wd BY <1>10 DEF ChangeAt
  <2>2. At(w, c) = d.path BY <1>8, <1>11, <1>12 DEF At
  <2> QED BY <2>1, <2>2 DEF NamedBy
<1> QED BY <1>9, <1>11, <1>13 DEF Announced

\* A change that goes on keeps the invariant.
LEMMA ProceedKeeps ==
  ASSUME Live, Onward
  PROVE  Live' /\ pc' = pc
<1> USE DEF Live, Working
<1>1. PICK d : d = Head(doing) OBVIOUS
<1>2. PICK e : e = Event(d) OBVIOUS
<1>3. UNCHANGED <<pc, inbuf, map, toCopy, toWatch, toList, gone, dst, copied, full, lost,
                  toRestore, toKeep, kept, before, after, half, heard>>
  BY DEF Onward
<1>4. /\ d.kind = "write" =>
           /\ ~IsDir(d.path) /\ d.path \in Paths /\ node[d.path] = Opened
           /\ node'[d.path] = Written /\ \A p \in Paths : node[p] < Written
      /\ \A p \in Paths : node'[p] = node[p] \/ (d.kind = "write" /\ p = d.path)
      /\ \A p \in Paths : IsDir(p) => node'[p] = node[p]
      /\ \A p \in Paths : Exists(p)' <=> Exists(p)
      /\ node' \in [Paths -> Inodes]
      /\ wdOf' \in [Inodes -> 0 .. lastWd]
      /\ \A i \in Inodes : wdOf'[i] = wdOf[i] \/ (d.kind = "ignored" /\ i = d.dir /\ wdOf'[i] = 0)
  BY <1>1, NextTree
<1>5. /\ \A w \in ToSet(map) : Current(w)' <=> Current(w)
      /\ \A x \in ToSet(doing') : x.kind \notin OfSelf => wdOf'[x.dir] = wdOf[x.dir]
      /\ Changes' = Changes
  BY NextTable
<1>6. /\ e.wd \in Nat /\ e.wd <= lastWd /\ e.cookie \in 0 .. MaxOps
      /\ UNCHANGED <<user, ops, lastWd, overflow>>
      /\ queue' \in Seq(Events) /\ Len(queue') <= QueueMax
      /\ e.wd # 0 => ToSet(queue') = ToSet(queue) \cup {e}
      /\ e.wd = 0 => queue' = queue
  BY <1>1, <1>2, NextPosted
<1>7. /\ 1 \in DOMAIN doing /\ d = doing[1] /\ doing' \in Seq(Reports)
      /\ DOMAIN doing = 1 .. Len(doing) /\ DOMAIN doing' = 1 .. Len(doing')
      /\ Len(doing') = Len(doing) - 1 /\ Len(doing) \in Nat
      /\ \A i \in DOMAIN doing' : i + 1 \in DOMAIN doing /\ 1 < i + 1 /\ doing'[i] = doing[i + 1]
      /\ \A i, j \in DOMAIN doing' : i < j => i + 1 < j + 1
  BY <1>1, NextReport
<1>8. /\ Opened' = Opened /\ Written' = Written /\ Fresh' = Fresh
      /\ Opened \in Nat /\ Written \in Nat /\ Opened < Written /\ Written < Fresh /\ Written # 0
  BY <1>6, OpenedMeans DEF Opened, Written, Fresh
<1>9. /\ \A p : (Lost(p)' <=> Lost(p)) /\ (HasEntry(p)' <=> HasEntry(p)) /\ (ToBeWatched(p)' <=> ToBeWatched(p))
      /\ \A p : (Announced(p)' <=> Announced(p)) /\ (Removed(p)' <=> Removed(p))
      /\ \A p : Alike(before, p)' <=> Alike(before, p)
      /\ \A p : node'[p] = node[p] => (Alike(node, p)' <=> Alike(node, p))
  <2>1. \A p : (Lost(p)' <=> Lost(p)) /\ (HasEntry(p)' <=> HasEntry(p)) BY <1>3 DEF Lost, HasEntry
  <2>2. \A p : ToBeWatched(p)' <=> ToBeWatched(p) BY <1>3 DEF ToBeWatched
  <2>3. \A p : (Announced(p)' <=> Announced(p)) /\ (Removed(p)' <=> Removed(p)) BY <1>3, <1>5, SameNews
  <2>4. \A p : Alike(before, p)' <=> Alike(before, p) BY <1>3 DEF Alike
  <2>5. \A p : node'[p] = node[p] => (Alike(node, p)' <=> Alike(node, p)) BY <1>3 DEF Alike
  <2> QED BY <2>1, <2>2, <2>3, <2>4, <2>5
<1>10. TypeOK'
  <2>1. \A i \in DOMAIN queue' : queue'[i].wd \in 1 .. lastWd /\ queue'[i].cookie \in 0 .. MaxOps
    <3>1. SUFFICES ASSUME NEW x \in ToSet(queue') PROVE x.wd \in 1 .. lastWd /\ x.cookie \in 0 .. MaxOps
      BY DEF ToSet
    <3>2. CASE x \in ToSet(queue) BY <3>2 DEF TypeOK, TreeTypeOK, ToSet
    <3>3. CASE x = e /\ e.wd # 0
      <4>1. lastWd \in Nat BY Types
      <4> QED BY <1>6, <3>3, <4>1
    <3> QED BY <1>6, <3>1, <3>2, <3>3
  <2>2. TreeTypeOK' BY <1>4, <1>6, <1>7, <2>1 DEF TypeOK, TreeTypeOK, Inodes
  <2> QED BY <1>3, <1>6, <2>2 DEF TypeOK, Inodes
<1>11. TargetInv' BY <1>3 DEF TargetInv
<1>12. TreeInv'
  <2>1. \A p \in Paths : node'[p] < Fresh' BY <1>4, <1>8 DEF TreeInv
  <2>2. \A p \in Paths \ Top : Exists(p)' => Exists(Parent(p))' BY <1>4, ParentMeans DEF TreeInv
  <2>3. \A p, q \in Paths : Exists(p)' /\ node'[p] = node'[q] => p = q
    <3>1. SUFFICES ASSUME NEW p \in Paths, NEW q \in Paths, Exists(p)', node'[p] = node'[q] PROVE p = q
      OBVIOUS
    <3>2. CASE node'[p] = node[p] /\ node'[q] = node[q]
      <4>1. node[p] = node[q] /\ node[p] # 0 BY <3>1, <3>2 DEF Exists
      <4>2. \A x, y \in Paths : node[x] # 0 /\ node[x] = node[y] => x = y BY DEF TreeInv, Exists
      <4> QED BY <4>1, <4>2
    <3>3. CASE d.kind = "write" /\ p = d.path /\ node'[q] = node[q]
      <4>1. node[q] < Written /\ node[q] = Written BY <1>4, <3>1, <3>3
      <4> QED BY <1>8, <4>1
    <3>4. CASE d.kind = "write" /\ q = d.path /\ node'[p] = node[p]
      <4>1. node[p] < Written /\ node[p] = Written BY <1>4, <3>1, <3>4
      <4> QED BY <1>8, <4>1
    <3> QED BY <1>4, <3>2, <3>3, <3>4
  <2>4. Exists(Src)' /\ Exists(Out)' BY <1>4, SrcMeans DEF TreeInv
  <2>5. (\A i, j \in Inodes : wdOf[i] # 0 /\ wdOf[i] = wdOf[j] => i = j)'
    <3>1. \A i \in Inodes : wdOf'[i] # 0 => wdOf'[i] = wdOf[i] BY <1>4
    <3> QED BY <3>1 DEF TreeInv, Inodes
  <2> QED BY <2>1, <2>2, <2>3, <2>4, <2>5 DEF TreeInv
<1>13. TableInv'
  <2>1. \A w \in ToSet(map) : /\ Current(w)' \/ Removed(w.path)'
                              /\ w.path # Src => Removed(w.path)' \/ HasEntry(Parent(w.path))'
    BY <1>5, <1>9 DEF TableInv
  <2>2. \A i \in Inodes : wdOf'[i] # 0 => \E w \in ToSet(map) : w.wd = wdOf'[i] BY <1>4 DEF TableInv
  <2> QED BY <1>3, <2>1, <2>2 DEF TableInv, OneEach, Inodes
<1>14. WalkInv'
  <2>1. toCopy \cup toWatch \cup toList \subseteq Paths BY SrcMeans DEF TypeOK
  <2>2. \A p \in toCopy \cup toWatch \cup toList : Exists(p)' BY <1>4, <2>1 DEF WalkInv
  <2>3. gone # NoPath => \A x \in Paths : Under(x, gone) => ~Exists(x)' BY <1>4 DEF WalkInv
  <2> QED BY <1>3, <1>9, <2>2, <2>3 DEF WalkInv
<1>15. EventInv' BY NextEvents
<1>16. DoingInv'
  <2>1. SUFFICES ASSUME NEW i \in DOMAIN doing', NEW x, x = doing'[i]
                 PROVE  /\ x.kind \notin OfSelf =>
                             /\ Exists(Parent(x.path))' /\ x.dir = node'[Parent(x.path)]
                             /\ x.path \in SrcPaths => wdOf'[x.dir] # 0 \/ Lost(x.path)'
                        /\ x.kind \in OfSelf => \A p \in Paths : node'[p] # x.dir
                        /\ x.kind = "write" =>
                             /\ ~IsDir(x.path) /\ node'[x.path] = Opened' /\ \A p \in Paths : node'[p] < Written'
                             /\ i < Len(doing')
                             /\ \A j \in DOMAIN doing' : i < j => doing'[j] = [x EXCEPT !.kind = "close_write"]
    BY DEF DoingInv
  <2>2. i + 1 \in DOMAIN doing /\ x = doing[i + 1] /\ 1 < i + 1 /\ x \in ToSet(doing') BY <1>7, <2>1 DEF ToSet
  <2>3. x \in Reports BY <1>7, <2>2, ToSetMeans
  <2>4. x.path \in Paths \ Top BY <2>3, ReportMeans
  <2>5. Parent(x.path) \in Paths /\ IsDir(Parent(x.path)) BY <2>4, ParentMeans DEF IsDir
  <2>6. x.kind \notin OfSelf =>
          /\ Exists(Parent(x.path))' /\ x.dir = node'[Parent(x.path)]
          /\ x.path \in SrcPaths => wdOf'[x.dir] # 0 \/ Lost(x.path)'
    BY <1>4, <1>5, <1>9, <2>2, <2>5 DEF DoingInv
  <2>7. d.kind = "write" => x.kind = "close_write"
    <3>1. d.kind = "write" => x = [d EXCEPT !.kind = "close_write"] BY <1>7, <2>2 DEF DoingInv
    <3>2. d \in Reports BY <1>1, NextReport
    <3>3. d = [dir |-> d.dir, path |-> d.path, cookie |-> d.cookie, kind |-> d.kind] BY <3>2 DEF Reports
    <3> QED BY <3>1, <3>3
  <2>8. x.kind \in OfSelf => \A p \in Paths : node'[p] # x.dir
    <3>1. x.kind \in OfSelf => d.kind # "write" BY <2>7 DEF OfSelf
    <3>2. x.kind \in OfSelf => \A p \in Paths : node[p] # x.dir BY <2>2 DEF DoingInv
    <3> QED BY <1>4, <3>1, <3>2
  <2>9. ASSUME x.kind = "write"
        PROVE  /\ ~IsDir(x.path) /\ node'[x.path] = Opened' /\ \A p \in Paths : node'[p] < Written'
               /\ i < Len(doing')
               /\ \A j \in DOMAIN doing' : i < j => doing'[j] = [x EXCEPT !.kind = "close_write"]
    <3>1. \A p \in Paths : node'[p] = node[p] BY <1>4, <2>7, <2>9
    <3>2. /\ ~IsDir(x.path) /\ node[x.path] = Opened /\ \A p \in Paths : node[p] < Written
          /\ i + 1 < Len(doing)
          /\ \A j \in DOMAIN doing : i + 1 < j => doing[j] = [x EXCEPT !.kind = "close_write"]
      BY <2>2, <2>9 DEF DoingInv
    <3>3. i < Len(doing') BY <1>7, <2>1, <3>2
    <3>4. \A j \in DOMAIN doing' : i < j => doing'[j] = [x EXCEPT !.kind = "close_write"] BY <1>7, <3>2
    <3> QED BY <1>8, <2>4, <3>1, <3>2, <3>3, <3>4
  <2> QED BY <2>6, <2>8, <2>9
<1>17. WatchInv'
  <2>1. SUFFICES ASSUME NEW p \in DirPaths \cap SrcPaths, Exists(p)'
                 PROVE  \/ \E w \in ToSet(map) : w.path = p /\ Current(w)'
                        \/ Lost(p)' \/ Announced(p)' \/ ToBeWatched(p)'
    BY <1>3 DEF WatchInv
  <2>2. Exists(p) BY <1>4, <2>1, SrcMeans
  <2> QED BY <1>5, <1>9, <2>2 DEF WatchInv
<1>18. \A p \in SrcPaths : node'[p] = node[p] \/ (d.kind = "write" /\ p = d.path) BY <1>4, SrcMeans
<1>19. CopyInv'
  <2>1. SUFFICES ASSUME NEW p \in SrcPaths
                 PROVE  \/ Alike(node, p)' \/ Lost(p)'
                        \/ Exists(p)' /\ (Announced(p)' \/ \E q \in toCopy' : Under(p, q))
                        \/ ~Exists(p)' /\ Removed(p)'
    BY DEF CopyInv
  <2>2. p \in Paths BY SrcMeans
  <2>3. CASE node'[p] = node[p] BY <1>3, <1>4, <1>9, <2>2, <2>3 DEF CopyInv
  <2>4. CASE d.kind = "write" /\ p = d.path
    <3>1. Announced(p) \/ Lost(p) BY <1>1, <2>4, CloseAnnounces
    <3>2. Exists(p)' BY <1>4, <1>8, <2>4 DEF Exists
    <3> QED BY <1>9, <3>1, <3>2
  <2> QED BY <1>18, <2>3, <2>4
<1>20. BeforeInv'
  <2>1. ~heard' => /\ pc' \in {"read", "handle"} /\ ~Telling(inbuf')
                   /\ \A p \in SrcPaths : Alike(before, p)' \/ Lost(p)'
    BY <1>3, <1>9 DEF BeforeInv
  <2>2. ASSUME pc' # "copy0", NEW p \in SrcPaths
        PROVE  Alike(before, p)' \/ Alike(node, p)' \/ Lost(p)' \/ (~IsDir(p) /\ dst'[p] = Opened')
    <3>1. Alike(before, p) \/ Alike(node, p) \/ Lost(p) \/ (~IsDir(p) /\ dst[p] = Opened)
      BY <1>3, <2>2 DEF BeforeInv
    <3>2. CASE node'[p] = node[p] BY <1>3, <1>8, <1>9, <3>1, <3>2
    <3>3. CASE d.kind = "write" /\ p = d.path
      <4>1. Alike(node, p) => dst[p] = Opened BY <1>4, <3>3 DEF Alike
      <4> QED BY <1>3, <1>4, <1>8, <1>9, <3>1, <3>3, <4>1
    <3> QED BY <1>18, <3>2, <3>3
  <2>3. ~Telling(inbuf') <=> ~Telling(inbuf)' BY DEF Telling
  <2> QED BY <2>1, <2>2, <2>3 DEF BeforeInv
<1> QED BY <1>3, <1>10, <1>11, <1>12, <1>13, <1>14, <1>15, <1>16, <1>17, <1>19, <1>20

\* Every step of the user who waits keeps the invariant.
LEMMA UserKeeps ==
  ASSUME Live, Attentive, User, ~overflow'
  PROVE  Live' /\ pc' = pc
<1>1. ASSUME Idle, OneChange, NEW op, NEW p \in Paths \ Top, NEW q \in Paths \ Top, Change(op, p, q)
      PROVE  Live' /\ pc' = pc
  <2>1. pc' = pc BY <1>1 DEF OneChange
  <2>2. CASE Write(p) BY <1>1, <2>1, <2>2, WriteKeeps
  <2>3. CASE Unlink(p) BY <1>1, <2>1, <2>3, UnlinkKeeps
  <2>4. CASE MkDir(p) BY <1>1, <2>1, <2>4, MkDirKeeps
  <2>5. CASE RmDir(p) BY <1>1, <2>1, <2>5, RmDirKeeps
  <2>6. CASE Rename(op, p, q) BY <1>1, <2>1, <2>6, RenameKeeps
  <2> QED BY <1>1, <2>2, <2>3, <2>4, <2>5, <2>6 DEF Change
<1>2. Proceed /\ UNCHANGED <<pc, inbuf, map, toCopy, toWatch, toList, gone, dst, copied, full, lost,
                             toRestore, toKeep, kept, before, after, half, heard>>
      => Live' /\ pc' = pc
  BY ProceedKeeps DEF Onward
<1> QED BY <1>1, <1>2, UserMeans

\* The first of several paths, in the order of readdir, is one of them.
LEMMA FirstMeans ==
  ASSUME NEW s \in SUBSET SrcPaths, s # {}
  PROVE  First(s) \in s
<1>1. \A p \in s : Len(p) \in 1 .. 4 BY SrcMeans, PathMeans
<1>2. \E p \in s : \A q \in s : Len(p) <= Len(q)
  <2>0. \A n \in 1 .. 4 :
          /\ ~(n < 1)
          /\ n # 1 => ~(n < 2)
          /\ n # 1 /\ n # 2 => ~(n < 3)
          /\ n # 1 /\ n # 2 /\ n # 3 => n = 4 /\ ~(n < 4)
    OBVIOUS
  <2>1. ASSUME NEW p \in s, NEW n \in 1 .. 4, Len(p) = n, \A q \in s : ~(Len(q) < n)
        PROVE  \A q \in s : Len(p) <= Len(q)
    <3>1. SUFFICES ASSUME NEW q \in s PROVE Len(p) <= Len(q) OBVIOUS
    <3>2. Len(q) \in 1 .. 4 /\ ~(Len(q) < n) BY <1>1, <2>1
    <3> QED BY <2>1, <3>2
  <2>2. CASE \E p \in s : Len(p) = 1
    <3>1. PICK p \in s : Len(p) = 1 BY <2>2
    <3>2. \A q \in s : ~(Len(q) < 1) BY <1>1, <2>0, Zenon
    <3> QED BY <2>1, <3>1, <3>2
  <2>3. CASE (\E p \in s : Len(p) = 2) /\ \A q \in s : Len(q) # 1
    <3>1. PICK p \in s : Len(p) = 2 BY <2>3
    <3>2. \A q \in s : ~(Len(q) < 2) BY <1>1, <2>0, <2>3, Zenon
    <3> QED BY <2>1, <3>1, <3>2
  <2>4. CASE (\E p \in s : Len(p) = 3) /\ \A q \in s : Len(q) # 1 /\ Len(q) # 2
    <3>1. PICK p \in s : Len(p) = 3 BY <2>4
    <3>2. \A q \in s : ~(Len(q) < 3) BY <1>1, <2>0, <2>4, Zenon
    <3> QED BY <2>1, <3>1, <3>2
  <2>5. CASE \A q \in s : Len(q) # 1 /\ Len(q) # 2 /\ Len(q) # 3
    <3>1. \A q \in s : Len(q) = 4 /\ ~(Len(q) < 4) BY <1>1, <2>0, <2>5, Zenon
    <3>2. PICK p \in s : TRUE OBVIOUS
    <3>3. Len(p) = 4 BY <3>1
    <3>4. \A q \in s : ~(Len(q) < 4) BY <3>1
    <3> QED BY <2>1, <3>3, <3>4
  <2> QED BY <2>2, <2>3, <2>4, <2>5
<1> QED BY <1>2 DEF First

\* What the target holds of an entry when the worker is stopped.
AsItWas(p) == \/ Alike(before, p) \/ Lost(p)
              \/ half /\ (Alike(after, p) \/ (~IsDir(p) /\ dst[p] = Opened))

\* While the source is restored.
Restored ==
  /\ TypeOK /\ TargetInv
  /\ lost = {} \/ full
  /\ toCopy = {} /\ doing = <<>> /\ pc \in {"restoring", "restored"}
  /\ RestoreInv

\* stop_backup: the worker has ended, and the restore begins at the root.
LEMMA StopKeeps ==
  ASSUME Live, Stop
  PROVE  Restored'
<1> USE DEF Live, Working
<1>0. /\ pc = "read" /\ pc' = "restoring" /\ toRestore' = {Src} /\ doing = <<>>
      /\ before' = (IF Telling(queue) THEN before ELSE node) /\ after' = node
      /\ half' = (heard /\ Telling(queue))
      /\ UNCHANGED <<user, node, ops, doing, wdOf, lastWd, queue, overflow>>
      /\ UNCHANGED <<inbuf, map, toCopy, toWatch, toList, gone, dst, copied, full, lost, toKeep, kept, heard>>
  BY DEF Stop, fsvars, kernel, walk
<1>1. toCopy = {} /\ gone = NoPath /\ toKeep = {} /\ kept = {} BY <1>0 DEF WalkInv
<1>2. TypeOK'
  <2>1. TreeTypeOK' BY <1>0 DEF TypeOK, TreeTypeOK, Inodes
  <2>2. before' \in [Paths -> Inodes] /\ after' \in [Paths -> Inodes]
    BY <1>0 DEF TypeOK, TreeTypeOK
  <2>3. toRestore' \cup kept' \subseteq SrcPaths /\ toKeep' \subseteq DirPaths \cap SrcPaths
    BY <1>0, <1>1, SrcMeans
  <2>4. half' \in BOOLEAN BY <1>0
  <2> QED BY <1>0, <2>1, <2>2, <2>3, <2>4 DEF TypeOK, Inodes
<1>3. dst[Src] # 0 /\ TargetInv' BY <1>0 DEF TargetInv
<1>4. \A p : Lost(p)' <=> Lost(p) BY <1>0 DEF Lost
<1>5. \A p \in SrcPaths : AsItWas(p)'
  <2>1. CASE ~Telling(queue)
    <3>1. ToSet(inbuf) = {} /\ ToSet(doing) = {} BY <1>0, ToSetMeans DEF EventInv
    <3>2. Coming = {} BY <3>1 DEF Coming
    <3>3. \A e \in Pending : e.kind \in OfSelf BY <2>1, <3>1, <3>2 DEF Telling, Pending
    <3>4. \A p : ~Announced(p) /\ ~Removed(p)
      <4>1. \A e \in Pending : e.kind \notin Announcing \cup Removing
        BY <3>3 DEF OfSelf, Announcing, Removing
      <4> QED BY <1>1, <4>1 DEF Announced, Removed
    <3>5. \A p \in SrcPaths : Alike(node, p) \/ Lost(p) BY <1>1, <3>4 DEF CopyInv
    <3>6. \A p : Alike(before, p)' <=> Alike(node, p) BY <1>0, <2>1 DEF Alike
    <3> QED BY <1>4, <3>5, <3>6 DEF AsItWas
  <2>2. CASE Telling(queue)
    <3>1. \A p : Alike(before, p)' <=> Alike(before, p) BY <1>0, <2>2 DEF Alike
    <3>2. CASE heard
      <4>1. half' BY <1>0, <2>2, <3>2
      <4>2. \A p : Alike(after, p)' <=> Alike(node, p) BY <1>0 DEF Alike
      <4>3. Opened' = Opened BY <1>0 DEF Opened
      <4>4. \A p \in SrcPaths : Alike(before, p) \/ Alike(node, p) \/ Lost(p) \/ (~IsDir(p) /\ dst[p] = Opened)
        BY <1>0 DEF BeforeInv
      <4> QED BY <1>0, <1>4, <3>1, <4>1, <4>2, <4>3, <4>4 DEF AsItWas
    <3>3. CASE ~heard
      <4>1. \A p \in SrcPaths : Alike(before, p) \/ Lost(p) BY <3>3 DEF BeforeInv
      <4> QED BY <1>4, <3>1, <4>1 DEF AsItWas
    <3> QED BY <3>2, <3>3
  <2> QED BY <2>1, <2>2
<1>6. \A p \in SrcPaths \ {Src} : Exists(p)' => Exists(Parent(p))'
  <2>1. \A p : Exists(p)' <=> Exists(p) BY <1>0 DEF Exists
  <2> QED BY <2>1, SrcMeans DEF TreeInv
<1>7. RestoreInv'
  <2>1. \A p \in toRestore' \cup toKeep' \cup kept' : dst'[p] # 0 BY <1>0, <1>1, <1>3
  <2>2. Exists(Src)' BY <1>0 DEF TreeInv, Exists
  <2>3. \A p \in SrcPaths : \E q \in toRestore' : Under(p, q) BY <1>0, SrcMeans
  <2>4. \A p \in SrcPaths : Exists(p)' \/ p \in toRestore' => p = Src \/ Exists(Parent(p))'
    BY <1>0, <1>6
  <2> QED BY <1>0, <1>5, <2>1, <2>2, <2>3, <2>4 DEF RestoreInv, AsItWas
<1> QED BY <1>0, <1>1, <1>2, <1>3, <1>7 DEF Restored

\* What the restore leaves as it is.
LEMMA RestoringMeans ==
  ASSUME Restored, Restoring
  PROVE  /\ pc = "restoring"
         /\ UNCHANGED <<user, ops, doing, wdOf, lastWd, queue, overflow>>
         /\ UNCHANGED <<inbuf, map, toCopy, toWatch, toList, gone, dst, copied, full, lost, before, after, half>>
         /\ \A p : AsItWas(p)' <=> AsItWas(p)
         /\ \A p : node'[p] = node[p] => (Alike(node, p)' <=> Alike(node, p))
         /\ pc' \in {"restoring", "restored"} => TargetInv'
         /\ node \in [Paths -> Inodes]
         /\ node' \in [Paths -> Inodes] /\ toRestore' \cup kept' \subseteq SrcPaths
            /\ toKeep' \subseteq DirPaths \cap SrcPaths /\ pc' \in {"restoring", "restored"}
            => TypeOK'
<1> USE DEF Restored
<1>1. /\ pc = "restoring"
      /\ UNCHANGED <<user, ops, doing, wdOf, lastWd, queue, overflow>>
      /\ UNCHANGED <<inbuf, map, toCopy, toWatch, toList, gone, dst, copied, full, lost, before, after, half, heard>>
  BY DEF Restoring, kernel, walk, hist
<1>2. \A p : Lost(p)' <=> Lost(p) BY <1>1 DEF Lost
<1>3. \A p : AsItWas(p)' <=> AsItWas(p)
  <2>1. \A p : (Alike(before, p)' <=> Alike(before, p)) /\ (Alike(after, p)' <=> Alike(after, p))
    BY <1>1 DEF Alike
  <2>2. Opened' = Opened BY <1>1 DEF Opened
  <2> QED BY <1>1, <1>2, <2>1, <2>2 DEF AsItWas
<1>4. \A p : node'[p] = node[p] => (Alike(node, p)' <=> Alike(node, p)) BY <1>1 DEF Alike
<1>5. pc' \in {"restoring", "restored"} => TargetInv' BY <1>1 DEF TargetInv
<1>6. ASSUME node' \in [Paths -> Inodes], toRestore' \cup kept' \subseteq SrcPaths,
             toKeep' \subseteq DirPaths \cap SrcPaths, pc' \in {"restoring", "restored"}
      PROVE  TypeOK'
  <2>1. TreeTypeOK' BY <1>1, <1>6 DEF TypeOK, TreeTypeOK, Inodes
  <2> QED BY <1>1, <1>6, <2>1 DEF TypeOK, Inodes
<1>7. node \in [Paths -> Inodes] BY DEF TypeOK, TreeTypeOK
<1> QED BY <1>1, <1>3, <1>4, <1>5, <1>6, <1>7

\* The children of a directory of the target, and what lies below it.
LEMMA HeldMeans ==
  ASSUME NEW p \in SrcPaths
  PROVE  /\ Held(p) \subseteq SrcPaths
         /\ \A c \in SrcPaths \ {Src} : Parent(c) = p /\ dst[c] # 0 => c \in Held(p)
         /\ \A c \in Held(p) : c # Src /\ Parent(c) = p /\ dst[c] # 0
         /\ \A x \in SrcPaths : Under(x, p) /\ x # p =>
              \E c \in SrcPaths \ {Src} : Parent(c) = p /\ Under(x, c)
<1>1. p \in Paths /\ \A c \in SrcPaths : c \in Paths BY SrcMeans
<1>2. \A c \in SrcPaths \ {Src} : Parent(c) = p /\ dst[c] # 0 => c \in Held(p)
  BY <1>1, ChildMeans, SrcMeans DEF Held
<1>3. \A c \in Held(p) : c # Src /\ Parent(c) = p /\ dst[c] # 0
  BY <1>1, ChildMeans, SrcMeans DEF Held
<1>4. \A x \in SrcPaths : Under(x, p) /\ x # p =>
        \E c \in SrcPaths \ {Src} : Parent(c) = p /\ Under(x, c)
  BY <1>1, OnTheWay, SrcMeans
<1> QED BY <1>2, <1>3, <1>4 DEF Held

\* restore_dir: a directory is made, and what the target has in it is to be restored.
LEMMA RestoreDirKeeps ==
  ASSUME Restored, RestoreDir
  PROVE  Restored'
<1> USE DEF Restored
<1>p. PICK p : p = First(toRestore) OBVIOUS
<1>0. /\ Restoring /\ toRestore # {} /\ IsDir(p)
      /\ node' = IF Exists(p) THEN node ELSE [node EXCEPT ![p] = dst[p]]
      /\ toRestore' = (toRestore \ {p}) \cup Held(p)
      /\ toKeep' = toKeep \cup {p}
      /\ pc' = pc /\ kept' = kept
  BY <1>p DEF RestoreDir
<1>1. /\ pc = "restoring" /\ dst' = dst /\ toCopy' = toCopy /\ lost' = lost /\ full' = full /\ doing' = doing
      /\ \A x : AsItWas(x)' <=> AsItWas(x)
      /\ \A x : node'[x] = node[x] => (Alike(node, x)' <=> Alike(node, x))
      /\ node \in [Paths -> Inodes]
      /\ pc' \in {"restoring", "restored"} => TargetInv'
  BY <1>0, RestoringMeans
<1>2. toRestore \in SUBSET SrcPaths /\ toKeep \subseteq DirPaths \cap SrcPaths BY DEF TypeOK
<1>3. p \in toRestore /\ p \in SrcPaths /\ p \in Paths /\ p \in DirPaths
  BY <1>0, <1>2, <1>p, FirstMeans, SrcMeans DEF IsDir
<1>4. dst[p] # 0 /\ dst[p] \in Inodes BY <1>3, Types DEF RestoreInv
<1>5. /\ node' \in [Paths -> Inodes] /\ node'[p] # 0
      /\ \A x \in Paths \ {p} : node'[x] = node[x]
      /\ \A x \in Paths : Exists(x) => Exists(x)'
      /\ \A x \in Paths \ {p} : Exists(x)' => Exists(x)
  BY <1>0, <1>1, <1>3, <1>4 DEF Exists
<1>6. TypeOK'
  <2>1. toRestore' \cup kept' \subseteq SrcPaths BY <1>0, <1>2, <1>3, HeldMeans DEF TypeOK
  <2>2. toKeep' \subseteq DirPaths \cap SrcPaths BY <1>0, <1>2, <1>3
  <2> QED BY <1>0, <1>1, <1>5, <2>1, <2>2, RestoringMeans
<1>7. \A x \in toRestore' \cup toKeep' \cup kept' : dst'[x] # 0
  BY <1>0, <1>1, <1>3, <1>4, HeldMeans DEF RestoreInv
<1>8. Exists(Src)' BY <1>5, SrcMeans DEF RestoreInv
<1>9. \A x \in SrcPaths \ {Src} : Exists(x)' \/ x \in toRestore' => Exists(Parent(x))'
  <2>1. SUFFICES ASSUME NEW x \in SrcPaths \ {Src}, Exists(x)' \/ x \in toRestore' PROVE Exists(Parent(x))'
    OBVIOUS
  <2>2. x \in Paths /\ Parent(x) \in Paths BY SrcMeans
  <2>3. CASE x \in Held(p) BY <1>3, <1>5, <2>3, HeldMeans DEF Exists
  <2>4. CASE x \notin Held(p)
    <3>1. Exists(x) \/ x \in toRestore BY <1>0, <1>3, <1>5, <2>1, <2>2, <2>4
    <3>2. Exists(Parent(x)) BY <3>1 DEF RestoreInv
    <3> QED BY <1>5, <2>2, <3>2
  <2> QED BY <2>3, <2>4
<1>10. Alike(node, p)' BY <1>0, <1>1, <1>4, <1>5 DEF Alike
<1>11. \A x \in SrcPaths :
         \/ Alike(node, x)' \/ x \in kept'
         \/ \E q \in toRestore' : Under(x, q)
         \/ \E q \in toKeep', c \in SrcPaths \ {Src} : Parent(c) = q /\ Under(x, c) /\ dst'[c] = 0
  <2>1. SUFFICES ASSUME NEW x \in SrcPaths, x # p
                 PROVE  \/ Alike(node, x)' \/ x \in kept'
                        \/ \E q \in toRestore' : Under(x, q)
                        \/ \E q \in toKeep', c \in SrcPaths \ {Src} : Parent(c) = q /\ Under(x, c) /\ dst'[c] = 0
    BY <1>10
  <2>2. x \in Paths BY SrcMeans
  <2>3. CASE Alike(node, x) BY <1>1, <1>5, <2>1, <2>2, <2>3
  <2>4. CASE x \in kept BY <1>0, <2>4
  <2>5. CASE \E q \in toRestore : Under(x, q)
    <3>1. PICK q \in toRestore : Under(x, q) BY <2>5
    <3>2. CASE q # p BY <1>0, <3>1, <3>2
    <3>3. CASE q = p
      <4>1. PICK c \in SrcPaths \ {Src} : Parent(c) = p /\ Under(x, c) BY <1>3, <2>1, <3>1, <3>3, HeldMeans
      <4>2. CASE dst[c] # 0
        <5>1. c \in toRestore' BY <1>0, <1>3, <4>1, <4>2, HeldMeans
        <5> QED BY <4>1, <5>1
      <4>3. CASE dst[c] = 0
        <5>1. p \in toKeep' BY <1>0
        <5> QED BY <1>1, <4>1, <4>3, <5>1
      <4> QED BY <4>2, <4>3
    <3> QED BY <3>2, <3>3
  <2>6. CASE \E q \in toKeep, c \in SrcPaths \ {Src} : Parent(c) = q /\ Under(x, c) /\ dst[c] = 0
    BY <1>0, <1>1, <2>6
  <2> QED BY <2>3, <2>4, <2>5, <2>6 DEF RestoreInv
<1>12. RestoreInv' BY <1>0, <1>1, <1>7, <1>8, <1>9, <1>11 DEF RestoreInv, AsItWas
<1> QED BY <1>0, <1>1, <1>6, <1>12

\* restore_entry: a file is copied, unless it is taken for the same.
LEMMA RestoreFileKeeps ==
  ASSUME Restored, RestoreFile
  PROVE  Restored'
<1> USE DEF Restored
<1>p. PICK p : p = First(toRestore) OBVIOUS
<1>0. /\ Restoring /\ toRestore # {} /\ ~IsDir(p)
      /\ \/ node' = [node EXCEPT ![p] = dst[p]] /\ kept' = kept
         \/ Exists(p) /\ kept' = kept \cup {p} /\ node' = node
      /\ toRestore' = toRestore \ {p}
      /\ pc' = pc /\ toKeep' = toKeep
  BY <1>p DEF RestoreFile
<1>1. /\ pc = "restoring" /\ dst' = dst /\ toCopy' = toCopy /\ lost' = lost /\ full' = full /\ doing' = doing
      /\ \A x : AsItWas(x)' <=> AsItWas(x)
      /\ \A x : node'[x] = node[x] => (Alike(node, x)' <=> Alike(node, x))
      /\ node \in [Paths -> Inodes]
      /\ pc' \in {"restoring", "restored"} => TargetInv'
  BY <1>0, RestoringMeans
<1>2. toRestore \in SUBSET SrcPaths /\ toKeep \subseteq DirPaths \cap SrcPaths BY DEF TypeOK
<1>3. p \in toRestore /\ p \in SrcPaths /\ p \in Paths /\ p # Src
  BY <1>0, <1>2, <1>p, FirstMeans, SrcMeans DEF IsDir
<1>4. dst[p] # 0 /\ dst[p] \in Inodes BY <1>3, Types DEF RestoreInv
<1>5. /\ node' \in [Paths -> Inodes]
      /\ \A x \in Paths \ {p} : node'[x] = node[x]
      /\ \A x \in Paths : Exists(x) => Exists(x)'
      /\ \A x \in Paths \ {p} : Exists(x)' => Exists(x)
      /\ node'[p] = dst[p] \/ p \in kept'
  BY <1>0, <1>1, <1>3, <1>4 DEF Exists
<1>6. TypeOK'
  <2>1. toRestore' \cup kept' \subseteq SrcPaths BY <1>0, <1>2, <1>3 DEF TypeOK
  <2> QED BY <1>0, <1>1, <1>2, <1>5, <2>1, RestoringMeans
<1>7. \A x \in toRestore' \cup toKeep' \cup kept' : dst'[x] # 0 BY <1>0, <1>1, <1>3, <1>4 DEF RestoreInv
<1>8. Exists(Src)' BY <1>5, SrcMeans DEF RestoreInv
<1>9. \A x \in SrcPaths \ {Src} : Exists(x)' \/ x \in toRestore' => Exists(Parent(x))'
  <2>1. SUFFICES ASSUME NEW x \in SrcPaths \ {Src}, Exists(x)' \/ x \in toRestore' PROVE Exists(Parent(x))'
    OBVIOUS
  <2>2. x \in Paths /\ Parent(x) \in Paths BY SrcMeans
  <2>3. Exists(x) \/ x \in toRestore BY <1>0, <1>3, <1>5, <2>1, <2>2
  <2>4. Exists(Parent(x)) BY <2>3 DEF RestoreInv
  <2> QED BY <1>5, <2>2, <2>4
<1>10. Alike(node, p)' \/ p \in kept' BY <1>0, <1>1, <1>5 DEF Alike
<1>11. \A x \in SrcPaths :
         \/ Alike(node, x)' \/ x \in kept'
         \/ \E q \in toRestore' : Under(x, q)
         \/ \E q \in toKeep', c \in SrcPaths \ {Src} : Parent(c) = q /\ Under(x, c) /\ dst'[c] = 0
  <2>1. SUFFICES ASSUME NEW x \in SrcPaths, x # p
                 PROVE  \/ Alike(node, x)' \/ x \in kept'
                        \/ \E q \in toRestore' : Under(x, q)
                        \/ \E q \in toKeep', c \in SrcPaths \ {Src} : Parent(c) = q /\ Under(x, c) /\ dst'[c] = 0
    BY <1>10
  <2>2. x \in Paths BY SrcMeans
  <2>3. CASE Alike(node, x) BY <1>1, <1>5, <2>1, <2>2, <2>3
  <2>4. CASE x \in kept BY <1>0, <2>4
  <2>5. CASE \E q \in toRestore : Under(x, q)
    <3>1. PICK q \in toRestore : Under(x, q) BY <2>5
    <3>2. q # p BY <1>0, <1>3, <2>1, <2>2, <3>1, BelowDirs DEF IsDir
    <3> QED BY <1>0, <3>1, <3>2
  <2>6. CASE \E q \in toKeep, c \in SrcPaths \ {Src} : Parent(c) = q /\ Under(x, c) /\ dst[c] = 0
    BY <1>0, <1>1, <2>6
  <2> QED BY <2>3, <2>4, <2>5, <2>6 DEF RestoreInv
<1>12. RestoreInv' BY <1>0, <1>1, <1>7, <1>8, <1>9, <1>11 DEF RestoreInv, AsItWas
<1> QED BY <1>0, <1>1, <1>6, <1>12

\* What the target has not is removed from a directory.
LEMMA RemoveOthersKeeps ==
  ASSUME Restored, RemoveOthers
  PROVE  Restored'
<1> USE DEF Restored
<1>p. PICK p : p = First(toKeep) OBVIOUS
<1> DEFINE others == Children(p) \ Held(p)
<1>0. /\ Restoring /\ toRestore = {} /\ toKeep # {}
      /\ node' = [x \in Paths |-> IF \E c \in others : Under(x, c) THEN 0 ELSE node[x]]
      /\ toKeep' = toKeep \ {p}
      /\ pc' = pc /\ toRestore' = toRestore /\ kept' = kept
  BY <1>p DEF RemoveOthers
<1>1. /\ pc = "restoring" /\ dst' = dst /\ toCopy' = toCopy /\ lost' = lost /\ full' = full /\ doing' = doing
      /\ \A x : AsItWas(x)' <=> AsItWas(x)
      /\ \A x : node'[x] = node[x] => (Alike(node, x)' <=> Alike(node, x))
      /\ node \in [Paths -> Inodes]
      /\ pc' \in {"restoring", "restored"} => TargetInv'
  BY <1>0, RestoringMeans
<1>2. toKeep \in SUBSET SrcPaths /\ toKeep \subseteq DirPaths \cap SrcPaths BY DEF TypeOK
<1>3. p \in toKeep /\ p \in SrcPaths /\ p \in Paths BY <1>0, <1>2, <1>p, FirstMeans, SrcMeans
<1>4. \A c \in others : c \in SrcPaths \ {Src} /\ c \in Paths \ Top /\ Parent(c) = p /\ dst[c] = 0
  <2>1. SUFFICES ASSUME NEW c \in others
                 PROVE  c \in SrcPaths \ {Src} /\ c \in Paths \ Top /\ Parent(c) = p /\ dst[c] = 0
    OBVIOUS
  <2>2. c \in SrcPaths \ {Src} /\ Parent(c) = p BY <1>3, ChildrenMeans
  <2> QED BY <1>3, <2>2, HeldMeans, SrcMeans
<1>5. \A c \in SrcPaths \ {Src} : Parent(c) = p /\ dst[c] = 0 /\ Exists(c) => c \in others
  BY <1>3, ChildrenMeans, HeldMeans
<1> HIDE DEF others
\* Below what is not there nothing is.
<1>6. \A c, x \in SrcPaths : Under(x, c) /\ ~Exists(c) => ~Exists(x)
  <2> DEFINE S == {x \in SrcPaths : Exists(x)}
  <2>1. S \in SUBSET Paths /\ \A x \in S \ Top : Parent(x) \in S BY SrcMeans DEF RestoreInv
  <2>2. \A x \in S, y \in Paths : Under(x, y) => y \in S
    <3> HIDE DEF S
    <3> QED BY <2>1, Upwards
  <2> QED BY <2>2, SrcMeans
<1>7. \A c, x \in SrcPaths : Under(x, c) /\ dst[c] = 0 => dst[x] = 0
  <2> DEFINE S == {x \in SrcPaths : dst[x] # 0}
  <2>1. S \in SUBSET Paths /\ \A x \in S \ Top : Parent(x) \in S BY SrcMeans DEF TargetInv
  <2>2. \A x \in S, y \in Paths : Under(x, y) => y \in S
    <3> HIDE DEF S
    <3> QED BY <2>1, Upwards
  <2> QED BY <2>2, SrcMeans
<1>8. \A x \in Paths : node'[x] = IF \E c \in others : Under(x, c) THEN 0 ELSE node[x] BY <1>0
<1>9. node' \in [Paths -> Inodes]
  <2>1. \A x \in Paths : node'[x] \in Inodes BY <1>1, <1>8, InodesMeans
  <2>2. node' = [x \in Paths |-> node'[x]] BY <1>0
  <2> QED BY <2>1, <2>2
<1>10. TypeOK'
  <2>1. toRestore' \cup kept' \subseteq SrcPaths BY <1>0 DEF TypeOK
  <2>2. toKeep' \subseteq DirPaths \cap SrcPaths BY <1>0, <1>2
  <2> QED BY <1>0, <1>1, <1>9, <2>1, <2>2, RestoringMeans
<1>11. \A x \in toRestore' \cup toKeep' \cup kept' : dst'[x] # 0 BY <1>0, <1>1 DEF RestoreInv
<1>12. Exists(Src)'
  <2>1. \A c \in others : ~Under(Src, c) BY <1>4, SrcMeans
  <2> QED BY <1>8, <2>1, SrcMeans DEF RestoreInv, Exists
<1>13. \A x \in SrcPaths \ {Src} : Exists(x)' \/ x \in toRestore' => Exists(Parent(x))'
  <2>1. SUFFICES ASSUME NEW x \in SrcPaths \ {Src}, Exists(x)' PROVE Exists(Parent(x))' BY <1>0
  <2>2. x \in Paths /\ Parent(x) \in Paths /\ Under(x, Parent(x)) BY SrcMeans
  <2>3. Exists(x) /\ ~(\E c \in others : Under(x, c)) BY <1>8, <2>1, <2>2 DEF Exists
  <2>4. Exists(Parent(x)) BY <2>3 DEF RestoreInv
  <2>5. ~(\E c \in others : Under(Parent(x), c)) BY <1>4, <2>2, <2>3, UnderOrders
  <2> QED BY <1>8, <2>2, <2>4, <2>5 DEF Exists
<1>14. \A x \in SrcPaths : ~Exists(x)' /\ dst[x] = 0 => Alike(node, x)' BY <1>1 DEF Alike, Exists
<1>15. \A x \in SrcPaths :
         \/ Alike(node, x)' \/ x \in kept'
         \/ \E q \in toRestore' : Under(x, q)
         \/ \E q \in toKeep', c \in SrcPaths \ {Src} : Parent(c) = q /\ Under(x, c) /\ dst'[c] = 0
  <2>1. SUFFICES ASSUME NEW x \in SrcPaths
                 PROVE  \/ Alike(node, x)' \/ x \in kept'
                        \/ \E q \in toKeep', c \in SrcPaths \ {Src} : Parent(c) = q /\ Under(x, c) /\ dst'[c] = 0
    OBVIOUS
  <2>2. x \in Paths BY SrcMeans
  <2>3. CASE \E c \in others : Under(x, c)
    <3>1. ~Exists(x)' BY <1>8, <2>2, <2>3 DEF Exists
    <3>2. dst[x] = 0 BY <1>4, <1>7, <2>3
    <3> QED BY <1>14, <3>1, <3>2
  <2>4. CASE ~(\E c \in others : Under(x, c))
    <3>1. node'[x] = node[x] BY <1>8, <2>2, <2>4
    <3>2. CASE Alike(node, x) BY <1>1, <3>1, <3>2
    <3>3. CASE x \in kept BY <1>0, <3>3
    <3>4. CASE \E q \in toKeep, c \in SrcPaths \ {Src} : Parent(c) = q /\ Under(x, c) /\ dst[c] = 0
      <4>1. PICK q \in toKeep, c \in SrcPaths \ {Src} : Parent(c) = q /\ Under(x, c) /\ dst[c] = 0 BY <3>4
      <4>2. CASE q # p BY <1>0, <1>1, <4>1, <4>2
      <4>3. CASE q = p
        <5>1. ~Exists(c) BY <1>5, <2>4, <4>1, <4>3
        <5>2. ~Exists(x) /\ dst[x] = 0 BY <1>6, <1>7, <4>1, <5>1
        <5>3. ~Exists(x)' BY <3>1, <5>2 DEF Exists
        <5> QED BY <1>14, <5>2, <5>3
      <4> QED BY <4>2, <4>3
    <3> QED BY <1>0, <3>2, <3>3, <3>4 DEF RestoreInv
  <2> QED BY <2>3, <2>4
<1>16. RestoreInv' BY <1>0, <1>1, <1>11, <1>12, <1>13, <1>15 DEF RestoreInv, AsItWas
<1> QED BY <1>0, <1>1, <1>10, <1>16

\* The restore ends when nothing is left to copy or to remove.
LEMMA RestoreEndsKeeps ==
  ASSUME Restored, RestoreEnds
  PROVE  Restored'
<1> USE DEF Restored
<1>0. /\ Restoring /\ toRestore = {} /\ toKeep = {} /\ pc' = "restored"
      /\ node' = node /\ toRestore' = toRestore /\ toKeep' = toKeep /\ kept' = kept
  BY DEF RestoreEnds, restore
<1>1. /\ dst' = dst /\ toCopy' = toCopy /\ lost' = lost /\ full' = full /\ doing' = doing
      /\ \A x : AsItWas(x)' <=> AsItWas(x)
      /\ \A x : node'[x] = node[x] => (Alike(node, x)' <=> Alike(node, x))
      /\ node \in [Paths -> Inodes]
      /\ pc' \in {"restoring", "restored"} => TargetInv'
  BY <1>0, RestoringMeans
<1>2. TypeOK'
  <2>1. toRestore' \cup kept' \subseteq SrcPaths /\ toKeep' \subseteq DirPaths \cap SrcPaths
    BY <1>0 DEF TypeOK
  <2> QED BY <1>0, <1>1, <2>1, RestoringMeans
<1>3. \A x : Exists(x)' <=> Exists(x) BY <1>0 DEF Exists
<1>4. RestoreInv'
  <2>1. \A x \in SrcPaths : AsItWas(x)' BY <1>1 DEF RestoreInv, AsItWas
  <2>2. \A x \in SrcPaths : Alike(node, x)' \/ x \in kept' BY <1>0, <1>1 DEF RestoreInv
  <2> QED BY <1>0, <1>1, <1>3, <2>1, <2>2 DEF RestoreInv, AsItWas
<1> QED BY <1>0, <1>1, <1>2, <1>4

\* The invariant holds at the beginning.
LEMMA Starts ==
  ASSUME Init
  PROVE  IndInv
<1>0. /\ user \in Users /\ ops = 0 /\ lastWd = 0 /\ queue = <<>> /\ overflow = FALSE
      /\ node = [p \in Paths |-> IF Contains(Initial, p) THEN CHOOSE i \in DOMAIN Initial : Initial[i] = p ELSE 0]
      /\ wdOf = [i \in Inodes |-> 0]
      /\ pc = "copy0" /\ inbuf = <<>> /\ map = <<>>
      /\ toCopy = {Src} /\ toWatch = {} /\ toList = {} /\ gone = NoPath
      /\ dst = [p \in SrcPaths |-> 0]
      /\ copied = {} /\ full = FALSE /\ lost = {}
      /\ toRestore = {} /\ toKeep = {} /\ kept = {} /\ before = node /\ after = node
      /\ heard = TRUE /\ half = FALSE /\ doing = <<>>
  BY DEF Init, TreeInit
<1>1. Initial \in Seq(Paths) /\ Len(Initial) \in Nat /\ DOMAIN Initial = 1 .. Len(Initial)
  <2>1. Initial \in Seq(Paths) BY TreeAssumption
  <2> QED BY <2>1
<1>2. \A p \in Paths : p \in ToSet(Initial) <=> Contains(Initial, p) BY <1>1 DEF Contains, ToSet
<1>3. \A p \in Paths : IF p \in ToSet(Initial) THEN node[p] \in 1 .. Len(Initial) /\ Initial[node[p]] = p
                       ELSE node[p] = 0
  <2>1. SUFFICES ASSUME NEW p \in Paths
                 PROVE  IF p \in ToSet(Initial) THEN node[p] \in 1 .. Len(Initial) /\ Initial[node[p]] = p
                        ELSE node[p] = 0
    OBVIOUS
  <2>2. CASE p \in ToSet(Initial)
    <3>1. \E i \in DOMAIN Initial : Initial[i] = p BY <1>1, <2>2 DEF ToSet
    <3>2. node[p] = CHOOSE i \in DOMAIN Initial : Initial[i] = p BY <1>0, <1>2, <2>2
    <3> QED BY <1>1, <2>2, <3>1, <3>2
  <2>3. CASE p \notin ToSet(Initial) BY <1>0, <1>2, <2>3
  <2> QED BY <2>2, <2>3
<1>4. \A p \in Paths : Exists(p) <=> p \in ToSet(Initial) BY <1>1, <1>3 DEF Exists
<1>5. Src \in Paths /\ Out \in Paths /\ Exists(Src) /\ Exists(Out)
  <2>1. Src \in ToSet(Initial) /\ Out \in ToSet(Initial) BY TreeAssumption DEF Top
  <2> QED BY <1>4, <2>1, SrcMeans
<1>6. \A p \in Paths : node[p] \in Inodes
  <2>1. \A p \in Paths : node[p] \in 0 .. Len(Initial) BY <1>1, <1>3
  <2>2. 0 .. Len(Initial) \subseteq Inodes BY Bounds DEF Inodes
  <2> QED BY <2>1, <2>2
<1>7. node \in [Paths -> Inodes]
  <2>1. node = [p \in Paths |-> node[p]] BY <1>0
  <2> QED BY <1>6, <2>1
<1>8. /\ ToSet(queue) = {} /\ ToSet(inbuf) = {} /\ ToSet(map) = {} /\ ToSet(doing) = {}
      /\ DOMAIN doing = {}
  BY <1>0, ToSetMeans
<1>9. TypeOK
  <2>1. wdOf \in [Inodes -> 0 .. lastWd] BY <1>0
  <2>2. queue \in Seq(Events) /\ inbuf \in Seq(Events) /\ map \in Seq(Entries) BY <1>0
  <2>3. Len(queue) = 0 /\ Len(map) = 0 /\ DOMAIN queue = {} BY <1>0
  <2>4. dst \in [SrcPaths -> Inodes] BY <1>0, InodesMeans
  <2>5. TreeTypeOK
    <3>1. ops = 0 /\ lastWd = 0 /\ overflow = FALSE BY <1>0
    <3>3. ops \in 0 .. MaxOps /\ lastWd \in Nat BY <3>1, Bounds
    <3>4. overflow \in BOOLEAN BY <3>1
    <3>2. Len(queue) <= QueueMax BY <2>3, Bounds
    <3>5. doing \in Seq(Reports) BY <1>0
    <3> QED BY <1>0, <1>7, <2>1, <2>3, <3>2, <3>3, <3>4, <3>5 DEF TreeTypeOK
  <2>6. 0 <= MaxWatches BY OrlovMirrorAssumption
  <2>7. heard \in BOOLEAN /\ half \in BOOLEAN BY <1>0
  <2> QED BY <1>0, <1>7, <1>8, <2>2, <2>3, <2>4, <2>5, <2>6, <2>7, SrcMeans DEF TypeOK
<1>10. TreeInv
  <2>1. \A p \in Paths : node[p] < Fresh
    <3>1. Fresh = Len(Initial) + 1 BY <1>0, <1>1 DEF Fresh
    <3>2. \A p \in Paths : node[p] \in 0 .. Len(Initial) BY <1>1, <1>3
    <3> QED BY <1>1, <3>1, <3>2
  <2>2. \A p \in Paths \ Top : Exists(p) => Exists(Parent(p)) BY <1>4, TreeAssumption, ParentMeans
  <2>3. \A p, q \in Paths : Exists(p) /\ node[p] = node[q] => p = q
    <3>1. \A p, q \in Paths : Exists(p) /\ node[p] = node[q] => Exists(q) BY DEF Exists
    <3> QED BY <1>3, <1>4, <3>1
  <2>4. \A i \in Inodes : wdOf[i] = 0 BY <1>0
  <2> QED BY <1>5, <2>1, <2>2, <2>3, <2>4 DEF TreeInv
<1>11. TargetInv BY <1>0, SrcMeans DEF TargetInv
<1>12. TableInv
  <2>1. OneEach(map) BY <1>0 DEF OneEach
  <2>2. \A i \in Inodes : wdOf[i] = 0 BY <1>0
  <2> QED BY <1>0, <1>8, <2>1, <2>2 DEF TableInv
<1>13. WalkInv BY <1>0, <1>5 DEF WalkInv, NoPath
<1>14. EventInv BY <1>0, <1>8, OrderedEmpty DEF EventInv, Pending, Coming
<1>15. WatchInv BY <1>0 DEF WatchInv, ToBeWatched
<1>16. CopyInv
  <2>1. SUFFICES ASSUME NEW p \in SrcPaths
                 PROVE  Alike(node, p) \/ (Exists(p) /\ \E q \in toCopy : Under(p, q))
    BY DEF CopyInv
  <2>2. CASE Exists(p) BY <1>0, <2>1, <2>2, SrcMeans
  <2>3. CASE ~Exists(p) BY <1>0, <2>1, <2>3 DEF Alike, Exists
  <2> QED BY <2>2, <2>3
<1>17. BeforeInv BY <1>0 DEF BeforeInv
<1>19. DoingInv BY <1>8 DEF DoingInv
<1>18. Working BY <1>10, <1>12, <1>13, <1>14, <1>15, <1>16, <1>17, <1>19 DEF Working
<1> QED BY <1>0, <1>9, <1>11, <1>18 DEF IndInv

\* The worker changes neither the source nor what the kernel has still to report of it.
LEMMA WorkerLeaves == ASSUME Worker PROVE UNCHANGED fsvars
<1>1. (\E p \in toCopy : CopyEntry(p)) \/ CopyFails \/ CopyEnds => UNCHANGED fsvars
  BY DEF CopyEntry, CopyFails, CopyEnds
<1>2. (\E p \in DirPaths : AddWatchEntry(p) \/ ListSubdirs(p)) => UNCHANGED fsvars
  BY DEF AddWatchEntry, ListSubdirs
<1>3. TooManyWatches \/ WatchFails \/ WatchEnds \/ Read \/ BufferDone => UNCHANGED fsvars
  BY DEF TooManyWatches, WatchFails, WatchEnds, Read, BufferDone
<1>4. Skip \/ HandleIgnored \/ HandleRemoval \/ HandleDirRemoval => UNCHANGED fsvars
  BY DEF Skip, HandleIgnored, HandleRemoval, HandleDirRemoval, Handling
<1>5. RemoveWatchUnder \/ RemoveDir \/ HandleNewDir \/ HandleFile => UNCHANGED fsvars
  BY DEF RemoveWatchUnder, RemoveDir, HandleNewDir, HandleFile, Handling
<1> QED BY <1>1, <1>2, <1>3, <1>4, <1>5 DEF Worker

\* The user stays the one that was chosen.
LEMMA UserStays == ASSUME [Next]_vars PROVE user' = user
<1>1. CASE User BY <1>1 DEF User, Turn, Proceed
<1>2. CASE WorkerStep BY <1>2, WorkerLeaves DEF WorkerStep, fsvars
<1>3. CASE Stop \/ RestoreStep
  BY <1>3 DEF Stop, RestoreStep, RestoreDir, RestoreFile, RemoveOthers, RestoreEnds, Restoring, fsvars
<1>4. CASE UNCHANGED vars BY <1>4 DEF vars, fsvars
<1> QED BY <1>1, <1>2, <1>3, <1>4 DEF Next

\* Only stop_backup starts a restore.
LEMMA WorkerGoesOn == ASSUME Worker, pc' \in {"restoring", "restored"} PROVE pc \in {"restoring", "restored"}
<1>1. (\E p \in toCopy : CopyEntry(p)) \/ CopyFails \/ CopyEnds => pc \in {"restoring", "restored"}
  BY DEF CopyEntry, CopyFails, CopyEnds
<1>2. (\E p \in DirPaths : AddWatchEntry(p) \/ ListSubdirs(p)) => pc \in {"restoring", "restored"}
  BY DEF AddWatchEntry, ListSubdirs
<1>3. TooManyWatches \/ WatchFails \/ WatchEnds \/ Read \/ BufferDone => pc \in {"restoring", "restored"}
  BY DEF TooManyWatches, WatchFails, WatchEnds, Read, BufferDone, GiveUp
<1>4. Skip \/ HandleIgnored \/ HandleRemoval \/ HandleDirRemoval => pc \in {"restoring", "restored"}
  BY DEF Skip, HandleIgnored, HandleRemoval, HandleDirRemoval
<1>5. RemoveWatchUnder \/ RemoveDir \/ HandleNewDir \/ HandleFile => pc \in {"restoring", "restored"}
  BY DEF RemoveWatchUnder, RemoveDir, HandleNewDir, HandleFile
<1> QED BY <1>1, <1>2, <1>3, <1>4, <1>5 DEF Worker

\* A worker that has ended takes no step.
LEMMA WorkerEnded == ASSUME toCopy = {}, pc \in {"restoring", "restored", "exited"} PROVE ~Worker
<1>1. ~(\E p \in toCopy : CopyEntry(p)) /\ ~CopyFails /\ ~CopyEnds
  BY DEF CopyFails, CopyEnds
<1>2. ~(\E p \in DirPaths : AddWatchEntry(p) \/ ListSubdirs(p))
  BY DEF AddWatchEntry, ListSubdirs, Watching
<1>3. ~TooManyWatches /\ ~WatchFails /\ ~WatchEnds /\ ~Read /\ ~BufferDone
  BY DEF TooManyWatches, WatchFails, WatchEnds, Read, BufferDone, Watching
<1>4. ~Skip /\ ~HandleIgnored /\ ~HandleRemoval /\ ~HandleDirRemoval
  BY DEF Skip, HandleIgnored, HandleRemoval, HandleDirRemoval, Handling
<1>5. ~RemoveWatchUnder /\ ~RemoveDir /\ ~HandleNewDir /\ ~HandleFile
  BY DEF RemoveWatchUnder, RemoveDir, HandleNewDir, HandleFile, Handling
<1> QED BY <1>1, <1>2, <1>3, <1>4, <1>5 DEF Worker

\* The invariant survives a step that changes nothing.
LEMMA NothingHappens == ASSUME IndInv, UNCHANGED vars PROVE IndInv'
<1>0. /\ UNCHANGED <<user, node, ops, doing, wdOf, lastWd, queue, overflow>>
      /\ UNCHANGED <<pc, inbuf, map, toCopy, toWatch, toList, gone, dst, copied, full, lost>>
      /\ UNCHANGED <<toRestore, toKeep, kept, before, after, half, heard>>
  BY DEF vars, fsvars, kernel, walk, restore, hist
<1>1. Attentive' <=> Attentive BY <1>0 DEF Attentive
<1>2. TypeOK => TypeOK' BY <1>0 DEF TypeOK, TreeTypeOK, Inodes
<1>3. TargetInv => TargetInv' BY <1>0 DEF TargetInv
<1>4. TreeInv => TreeInv' BY <1>0, SameTree
<1>5. Pending' = Pending /\ Changes' = Changes BY <1>0, SameComing DEF Pending, Changes
<1>6. /\ \A p : Lost(p)' <=> Lost(p)
      /\ \A p : Announced(p)' <=> Announced(p)
      /\ \A p : Removed(p)' <=> Removed(p)
      /\ \A p : HasEntry(p)' <=> HasEntry(p)
      /\ \A p : ToBeWatched(p)' <=> ToBeWatched(p)
      /\ \A p : Exists(p)' <=> Exists(p)
      /\ \A p : Alike(node, p)' <=> Alike(node, p)
      /\ \A p : Alike(before, p)' <=> Alike(before, p)
      /\ \A p : Alike(after, p)' <=> Alike(after, p)
      /\ Opened' = Opened
  BY <1>0, <1>5, SameNews DEF Lost, HasEntry, ToBeWatched, Exists, Alike, Opened
<1>7. TypeOK /\ TableInv => TableInv' BY <1>0, <1>5, SameTable
<1>8. WalkInv => WalkInv' BY <1>0, <1>6 DEF WalkInv
<1>9. EventInv => EventInv' BY <1>0, SameEvents DEF EventInv
<1>15. DoingInv => DoingInv' BY <1>0, SameDoing
<1>16. \A w : Current(w)' <=> Current(w) BY <1>0, <1>6 DEF Current
<1>10. WatchInv => WatchInv' BY <1>0, <1>6, <1>16 DEF WatchInv
<1>11. CopyInv => CopyInv' BY <1>0, <1>6 DEF CopyInv
<1>12. BeforeInv => BeforeInv' BY <1>0, <1>6 DEF BeforeInv, Telling
<1>13. RestoreInv => RestoreInv' BY <1>0, <1>6 DEF RestoreInv
<1>14. TypeOK /\ Working => Working' BY <1>4, <1>7, <1>8, <1>9, <1>10, <1>11, <1>12, <1>15 DEF Working
<1> QED BY <1>0, <1>1, <1>2, <1>3, <1>13, <1>14 DEF IndInv

\* The invariant survives every step.
LEMMA Steps ==
  ASSUME IndInv, [Next]_vars
  PROVE  IndInv'
<1>1. CASE UNCHANGED vars BY <1>1, NothingHappens
<1>2. CASE Next
  <2>1. pc' \in {"restoring", "restored"} => Attentive'
    <3>1. user' = user BY UserStays
    <3>2. User => pc' = pc BY DEF User
    <3>3. Stop => Attentive BY DEF Stop, Attentive
    <3>4. RestoreStep => pc = "restoring"
      BY DEF RestoreStep, RestoreDir, RestoreFile, RemoveOthers, RestoreEnds, Restoring
    <3> QED BY <1>2, <3>1, <3>2, <3>3, <3>4, WorkerGoesOn DEF Next, WorkerStep, IndInv, Attentive
  <2>2. ASSUME Attentive', ~overflow'
        PROVE  /\ TypeOK' /\ TargetInv' /\ (lost = {} \/ full)'
               /\ IF pc' \in {"restoring", "restored", "exited"} THEN toCopy' = {} /\ doing' = <<>> ELSE Working'
               /\ pc' \in {"restoring", "restored"} => RestoreInv'
    <3>1. Attentive /\ ~overflow BY <2>2, UserStays, OverflowStays DEF Attentive
    <3>2. User /\ doing = <<>> => Idle BY <3>1 DEF User, Turn, Attentive, Proceed
    <3>3. RestoreStep => pc = "restoring"
      BY DEF RestoreStep, RestoreDir, RestoreFile, RemoveOthers, RestoreEnds, Restoring
    <3>4. CASE pc \in {"restoring", "restored"}
      <4>1. Restored BY <3>1, <3>4 DEF IndInv, Restored
      <4>2. ~User /\ ~WorkerStep /\ ~Stop
        BY <3>1, <3>4, <4>1, WorkerEnded DEF User, WorkerStep, Stop, Restored
      <4>3. Restored'
        BY <1>2, <4>1, <4>2, RestoreDirKeeps, RestoreFileKeeps, RemoveOthersKeeps, RestoreEndsKeeps
        DEF Next, RestoreStep
      <4> QED BY <4>3 DEF Restored
    <3>5. CASE pc = "exited"
      <4>1. toCopy = {} /\ doing = <<>> BY <3>1, <3>5 DEF IndInv
      <4> QED BY <1>2, <3>2, <3>3, <3>5, <4>1, WorkerEnded DEF Next, WorkerStep, Idle, Stop
    <3>6. CASE pc \notin {"restoring", "restored", "exited"}
      <4>1. Live BY <3>1, <3>6 DEF IndInv, Live
      <4>2. CASE User
        <5>1. Live' /\ pc' = pc BY <2>2, <3>1, <4>1, <4>2, UserKeeps
        <5> QED BY <3>6, <5>1 DEF Live
      <4>3. CASE WorkerStep
        <5>0. Worker /\ Aside BY <4>3 DEF WorkerStep, Aside
        <5>1. /\ TypeOK' /\ TargetInv' /\ (lost = {} \/ full)'
              /\ pc' # "exited" => Live'
              /\ pc' \notin {"restoring", "restored"}
              /\ pc' = "exited" => toCopy' = {} /\ pc \in {"watch0", "exited"}
          BY <2>2, <3>6, <4>1, <5>0, WorkerKeeps
        <5>2. doing' = doing BY <5>0, WorkerLeaves DEF fsvars
        <5>3. pc = "watch0" => doing = <<>> BY <4>1 DEF Live, Working, EventInv
        <5> QED BY <3>6, <5>1, <5>2, <5>3 DEF Live
      <4>4. CASE Stop
        <5>1. Restored' BY <4>1, <4>4, StopKeeps
        <5> QED BY <5>1 DEF Restored
      <4> QED BY <1>2, <3>3, <3>6, <4>2, <4>3, <4>4 DEF Next
    <3> QED BY <3>4, <3>5, <3>6
  <2> QED BY <2>1, <2>2 DEF IndInv
<1> QED BY <1>1, <1>2

\* The worker of a user who waits for it never loses the connection between the source, the
\* target, its table, the kernel's watches and the events that are not handled yet.
THEOREM Invariance == Spec => []IndInv
<1>1. Init => IndInv BY Starts
<1>2. IndInv /\ [Next]_vars => IndInv' BY Steps
<1> QED BY <1>1, <1>2, PTL DEF Spec

\* A worker that is idle is neither ended nor stopped.
LEMMA IdleIsLive ==
  ASSUME IndInv, Attentive, ~overflow, Idle
  PROVE  Live
BY DEF IndInv, Live, Idle

\* When the worker is idle and nothing is lost, the table is the set of directories.
LEMMA AllWatched ==
  ASSUME IndInv, Attentive, Idle, lost = {}, ~overflow
  PROVE  LET dirs == {p \in DirPaths : Exists(p) /\ Under(p, Src)}
         IN  /\ ToSet(map) = {[wd |-> wdOf[node[p]], path |-> p] : p \in dirs}
             /\ Len(map) = Cardinality(dirs)
<1> DEFINE dirs == {p \in DirPaths : Exists(p) /\ Under(p, Src)}
<1>1. Live BY IdleIsLive
<1>2. TypeOK /\ OneEach(map) BY <1>1 DEF Live, Working, TableInv
<1>3. /\ \A w \in ToSet(map) : Current(w)
      /\ \A p \in DirPaths \cap SrcPaths : Exists(p) => HasEntry(p)
  BY <1>1, IdleMeans DEF Lost
<1>4. \A w \in ToSet(map) : w.path \in dirs /\ w = [wd |-> wdOf[node[w.path]], path |-> w.path]
  BY <1>2, <1>3, Types, SrcMeans DEF Current
<1>5. \A p \in dirs : \E w \in ToSet(map) : w.path = p
  <2>1. SUFFICES ASSUME NEW p \in dirs PROVE HasEntry(p) BY DEF HasEntry
  <2>2. p \in SrcPaths BY SrcMeans DEF SrcPaths
  <2> QED BY <1>3, <2>2
<1> HIDE DEF dirs
<1>6. ToSet(map) = {[wd |-> wdOf[node[p]], path |-> p] : p \in dirs} BY <1>4, <1>5
<1>7. Len(map) = Cardinality(dirs)
  <2> DEFINE f == [i \in 1 .. Len(map) |-> map[i].path]
  <2>1. map \in Seq(Entries) /\ Len(map) \in Nat /\ DOMAIN map = 1 .. Len(map)
    <3>1. map \in Seq(Entries) BY <1>2, Types
    <3> QED BY <3>1
  <2>2. \A w : w \in ToSet(map) <=> \E i \in 1 .. Len(map) : map[i] = w BY <2>1, ToSetMeans
  <2>3. f \in [1 .. Len(map) -> dirs] BY <1>4, <2>2
  <2>4. \A i, j \in 1 .. Len(map) : f[i] = f[j] => i = j
    <3>1. SUFFICES ASSUME NEW i \in 1 .. Len(map), NEW j \in 1 .. Len(map), map[i].path = map[j].path
                   PROVE  i = j
      OBVIOUS
    <3>2. map[i] = map[j] BY <1>4, <2>2, <3>1
    <3> QED BY <1>2, <2>1, <3>2 DEF OneEach
  <2>5. \A p \in dirs : \E i \in 1 .. Len(map) : f[i] = p BY <1>5, <2>2
  <2> HIDE DEF f
  <2>6. ExistsBijection(1 .. Len(map), dirs)
    BY <2>3, <2>4, <2>5 DEF ExistsBijection, Bijection, Injection, Surjection, IsInjective
  <2> QED BY <2>1, <2>6, FS_CountingElements
<1> QED BY <1>6, <1>7 DEF dirs

\* For a user who waits for the worker nothing is lost, and the table holds one entry per
\* directory and none left over, unless it was full.
THEOREM TheTableIsExact == Spec => []TableExact
<1>1. IndInv => TableExact
  <2>1. SUFFICES ASSUME IndInv, Attentive PROVE TableExact BY DEF TableExact, Attentive
  <2>2. lost = {} \/ full \/ overflow BY <2>1 DEF IndInv
  <2>3. CASE Idle /\ lost = {} /\ ~overflow BY <2>1, <2>2, <2>3, AllWatched DEF TableExact
  <2> QED BY <2>2, <2>3 DEF TableExact
<1> QED BY <1>1, Invariance, PTL

\* When the worker of such a user is idle, the target holds what the source holds.
THEOREM TheTargetConverges == Spec => [](Attentive => Converged)
<1>1. IndInv => (Attentive => Converged)
  <2>1. SUFFICES ASSUME IndInv, Attentive, Idle, ~overflow, NEW p \in SrcPaths, ~Lost(p)
                 PROVE  IF IsDir(p) THEN (dst[p] # 0) = Exists(p) ELSE dst[p] = node[p]
    BY DEF Converged, Excused
  <2>2. Alike(node, p) BY <2>1, IdleIsLive, IdleMeans
  <2> QED BY <2>2 DEF Alike, Exists
<1> QED BY <1>1, Invariance, PTL

\* ... and each directory of the source is watched under its present path.
THEOREM TheWatchesAreCurrent == Spec => [](Attentive => WatchesCurrent)
<1>1. IndInv => (Attentive => WatchesCurrent)
  <2>1. SUFFICES ASSUME IndInv, Attentive, Idle, ~overflow, NEW p \in DirPaths, Exists(p), Under(p, Src), ~Lost(p)
                 PROVE  IsWatched(p)
    BY DEF WatchesCurrent, Excused
  <2>2. Live /\ TypeOK /\ TableInv BY <2>1, IdleIsLive DEF Live, Working
  <2>3. p \in SrcPaths BY <2>1, SrcMeans DEF SrcPaths
  <2>4. PICK w \in ToSet(map) : w.path = p BY <2>1, <2>2, <2>3, IdleMeans DEF HasEntry
  <2>5. w.wd = wdOf[node[p]] BY <2>1, <2>2, <2>4, IdleMeans DEF Current
  <2>6. map \in Seq(Entries) BY <2>2, Types
  <2>n. PICK n : n = wdOf[node[p]] OBVIOUS
  <2>7. /\ WatchMapFind(n) # 0
        /\ map[WatchMapFind(n)] \in ToSet(map) /\ map[WatchMapFind(n)].wd = n
    BY <2>4, <2>5, <2>6, <2>n, FindMeans
  <2>8. map[WatchMapFind(n)] = w BY <2>2, <2>4, <2>5, <2>7, <2>n, OneEntry
  <2> QED BY <2>4, <2>7, <2>8, <2>n DEF IsWatched
<1> QED BY <1>1, Invariance, PTL

\* A restore gives the source as it is, or as it was before the one change whose events were
\* not all read; after a part of them each entry is as before or as after that change, or
\* is a file as it was opened: stop_backup, restore_entry and restore_dir undo no more.
THEOREM ARestoreUndoesNoMoreThanOneChange == Spec => []RestoreUndoes
<1>1. IndInv => RestoreUndoes
  <2>1. SUFFICES ASSUME IndInv, pc = "restored", NEW p \in SrcPaths \ kept, ~overflow, ~Lost(p)
                 PROVE  As(before, p) \/ (half /\ (As(after, p) \/ (~IsDir(p) /\ node[p] = Opened)))
    BY DEF RestoreUndoes, Excused
  <2>2. RestoreInv BY <2>1 DEF IndInv
  <2>3. Alike(before, p) \/ (half /\ (Alike(after, p) \/ (~IsDir(p) /\ dst[p] = Opened)))
    BY <2>1, <2>2 DEF RestoreInv
  <2>4. Alike(node, p) BY <2>1, <2>2 DEF RestoreInv
  <2>5. ASSUME NEW t, Alike(t, p) PROVE As(t, p) BY <2>4, <2>5 DEF Alike, As, Exists
  <2>6. ~IsDir(p) => node[p] = dst[p] BY <2>4 DEF Alike
  <2>7. CASE Alike(before, p) BY <2>5, <2>7
  <2>8. CASE half /\ Alike(after, p) BY <2>5, <2>8
  <2>9. CASE half /\ ~IsDir(p) /\ dst[p] = Opened BY <2>6, <2>9
  <2> QED BY <2>3, <2>7, <2>8, <2>9
<1> QED BY <1>1, Invariance, PTL

=============================================================================
