-------------------------- MODULE ExercisesProofs --------------------------
(***************************************************************************)
(* The small programs: each keeps an inductive invariant of its own, which is *)
(* stated at the end of its module, and the properties of ExercisesMC follow *)
(* from it, for every number of processes and threads.                     *)
(***************************************************************************)
EXTENDS ExercisesMC, FiniteSetTheorems, SequenceTheorems, TLAPS

-----------------------------------------------------------------------------
(***************************************************************************)
(* Classroom (task2_alternative.c): a report of a student is pending at the *)
(* teacher, answered, or merged with another one; StudentInv says which.   *)
(***************************************************************************)

\* What a step leaves of student s: its place, its messages and its fields.
LEMMA ClassFrame ==
  ASSUME NEW s \in Class!Students, Class!StudentInv(s),
         at'[s] = at[s], Class!Reported(s)' <=> Class!Reported(s),
         Class!IsPending(s, "USR2")' <=> Class!IsPending(s, "USR2"),
         mem'.part[s] = mem.part[s], mem'.accepted[s] = mem.accepted[s],
         mem'.confirmed[s] = mem.confirmed[s], mem'.recorded[s] = mem.recorded[s],
         mem'.issues[s] = mem.issues[s], s \in mem.merged => s \in mem'.merged
  PROVE  Class!StudentInv(s)'
BY DEF Class!StudentInv, Class!Waits

\* The instance's Cardinality is that of FiniteSets.
LEMMA SameCardinality == \A S : Class!Cardinality(S) = Cardinality(S)
BY DEF Class!Cardinality, Cardinality

\* The class is as large as it says.
LEMMA ClassFinite == IsFiniteSet(Class!Students) /\ Cardinality(Class!Students) = ClassSize
BY ExercisesAssumption, FS_Interval DEF Class!Students, Class!ClassConstants

\* The students are processes other than the teacher.
LEMMA ClassNumbers ==
  /\ ClassSize \in Nat /\ Parts \in Nat /\ 0 \in Procs
  /\ \A s \in Class!Students : s \in Procs /\ s # 0 /\ s \in Nat /\ s \in 1 .. ClassSize /\ s \in 0 .. ClassSize
  /\ \A n \in 0 .. MaxIssues : n \in Nat
BY ProcsAssumption, ExercisesAssumption DEF Class!ClassConstants, Class!Students

\* A step that moves student s and changes at most its own fields.
LEMMA ClassStudents ==
  ASSUME Class!IndInv, NEW s \in Class!Students, Class!StudentStep(s)
  PROVE  Class!IndInv'
<1> USE ClassNumbers DEF Class!IndInv, Class!Move
<1>1. Class!StudentInv(s) OBVIOUS
<1>2. ASSUME NEW n \in 0 .. MaxIssues, Class!FinishPart(s, n) PROVE Class!IndInv'
  <2> USE <1>1
  <2>1. /\ at[s] = "work" /\ at' = [at EXCEPT ![s] = "report"] /\ pending' = pending
        /\ mem'.part = [mem.part EXCEPT ![s] = @ + 1]
        /\ mem'.issues = [mem.issues EXCEPT ![s] = @ + n]
        /\ mem'.confirmed = [mem.confirmed EXCEPT ![s] = FALSE]
        /\ mem'.stored = mem.stored /\ mem'.left = mem.left /\ mem'.recorded = mem.recorded
        /\ mem'.accepted = mem.accepted /\ mem'.merged = mem.merged
    BY <1>2 DEF Class!FinishPart, Class!MemOK
  <2>2. Class!MemOK'
    <3>1. /\ mem'.part \in [Class!Students -> Nat] /\ mem'.issues \in [Class!Students -> Nat]
          /\ mem'.confirmed \in [Class!Students -> BOOLEAN]
      BY <2>1 DEF Class!MemOK
    <3>2. mem' = [mem EXCEPT !.part = mem'.part, !.issues = mem'.issues, !.confirmed = mem'.confirmed]
      BY <1>2 DEF Class!FinishPart, Class!MemOK
    <3> QED BY <2>1, <3>1, <3>2 DEF Class!MemOK
  <2>3. Class!TypeOK' BY <2>1 DEF Class!TypeOK, Class!StudentInv, Class!MemOK
  <2>4. Class!ForkInv' BY <2>1 DEF Class!TypeOK, Class!ForkInv
  <2>5. Class!PendingInv' BY <2>1 DEF Class!PendingInv
  <2>6. Class!StatisticsComplete' BY <2>1 DEF Class!StatisticsComplete, Class!TypeOK
  <2>7. Class!StudentInv(s)'
    BY <2>1
    DEF Class!TypeOK, Class!MemOK, Class!StudentInv, Class!Waits, Class!Reported, Class!IsPending
  <2>8. ASSUME NEW t \in Class!Students \ {s} PROVE Class!StudentInv(t)'
    BY <2>1, ClassFrame DEF Class!Reported, Class!IsPending, Class!TypeOK, Class!MemOK
  <2> QED BY <2>2, <2>3, <2>4, <2>5, <2>6, <2>7, <2>8
<1>3. CASE Class!Report(s)
  <2> USE <1>1
  <2>1. /\ at[s] = "report" /\ at' = [at EXCEPT ![s] = "test"]
        /\ pending' = [pending EXCEPT ![0] = IF Class!IsPending(0, "USR1") THEN @
                                             ELSE @ \cup {[sig |-> "USR1", from |-> s]}]
        /\ mem' = [mem EXCEPT !.merged = IF Class!IsPending(0, "USR1") THEN @ \cup {s} ELSE @]
    <3>1. Class!Live(0)
      BY <1>3 DEF Class!Report, Class!Live, Class!ForkInv, Class!StatisticsComplete
    <3> QED BY <1>3, <3>1 DEF Class!Report, Class!Posted, Class!MemOK
  <2>2. Class!MemOK' BY <2>1 DEF Class!MemOK
  <2>3. Class!TypeOK' BY <2>1 DEF Class!TypeOK, Class!MemOK
  <2>4. Class!ForkInv' BY <2>1 DEF Class!TypeOK, Class!ForkInv, Class!MemOK
  <2>5. Class!PendingInv' BY <2>1 DEF Class!PendingInv, Class!MemOK, Class!IsPending
  <2>6. Class!StatisticsComplete' BY <2>1 DEF Class!StatisticsComplete, Class!TypeOK, Class!MemOK
  <2>7. Class!StudentInv(s)'
    BY <2>1
    DEF Class!TypeOK, Class!MemOK, Class!StudentInv, Class!Waits, Class!Reported, Class!IsPending
  <2>8. ASSUME NEW t \in Class!Students \ {s} PROVE Class!StudentInv(t)'
    BY <2>1, ClassFrame DEF Class!Reported, Class!IsPending, Class!TypeOK, Class!MemOK
  <2> QED BY <2>2, <2>3, <2>4, <2>5, <2>6, <2>7, <2>8
<1>4. CASE Class!StudentSuspends(s)
  <2> USE <1>1
  <2>1. /\ at[s] = "test" /\ at' = [at EXCEPT ![s] = "suspended"] /\ ~mem.confirmed[s]
        /\ pending' = pending /\ mem' = mem
    BY <1>4 DEF Class!StudentSuspends
  <2>2. Class!MemOK' /\ Class!PendingInv' BY <2>1 DEF Class!MemOK, Class!PendingInv
  <2>3. Class!TypeOK' BY <2>1 DEF Class!TypeOK
  <2>4. Class!ForkInv' BY <2>1 DEF Class!TypeOK, Class!ForkInv
  <2>6. Class!StatisticsComplete' BY <2>1 DEF Class!StatisticsComplete, Class!TypeOK
  <2>7. Class!StudentInv(s)'
    BY <2>1 DEF Class!TypeOK, Class!StudentInv, Class!Waits, Class!Reported, Class!IsPending
  <2>8. ASSUME NEW t \in Class!Students \ {s} PROVE Class!StudentInv(t)'
    BY <2>1, ClassFrame DEF Class!Reported, Class!IsPending, Class!TypeOK
  <2> QED BY <2>2, <2>3, <2>4, <2>6, <2>7, <2>8
<1>5. CASE Class!Confirm(s)
  <2> USE <1>1
  <2>1. /\ at[s] = "suspended" /\ at' = [at EXCEPT ![s] = "test"]
        /\ Class!IsPending(s, "USR2") /\ pending' = [pending EXCEPT ![s] = {}]
        /\ mem' = [mem EXCEPT !.confirmed[s] = TRUE]
    <3>1. {r \in pending[s] : r.sig \notin {"USR2"}} = {} BY DEF Class!PendingInv
    <3> QED BY <1>5, <3>1 DEF Class!Confirm, Class!Taken, Class!MemOK
  <2>2. Class!MemOK' BY <2>1 DEF Class!MemOK
  <2>3. Class!TypeOK' BY <2>1 DEF Class!TypeOK, Class!MemOK
  <2>4. Class!ForkInv' BY <2>1 DEF Class!TypeOK, Class!ForkInv, Class!MemOK
  <2>5. Class!PendingInv' BY <2>1 DEF Class!PendingInv, Class!MemOK
  <2>6. Class!StatisticsComplete' BY <2>1 DEF Class!StatisticsComplete, Class!TypeOK, Class!MemOK
  <2>7. Class!StudentInv(s)'
    BY <2>1
    DEF Class!TypeOK, Class!MemOK, Class!StudentInv, Class!Waits, Class!Reported, Class!IsPending
  <2>8. ASSUME NEW t \in Class!Students \ {s} PROVE Class!StudentInv(t)'
    BY <2>1, ClassFrame DEF Class!Reported, Class!IsPending, Class!TypeOK, Class!MemOK
  <2> QED BY <2>2, <2>3, <2>4, <2>5, <2>6, <2>7, <2>8
<1>6. CASE Class!NextPart(s)
  <2> USE <1>1
  <2>1. /\ at[s] = "test" /\ at' = [at EXCEPT ![s] = "work"] /\ mem.confirmed[s]
        /\ mem.part[s] < Parts /\ pending' = pending /\ mem' = mem
    BY <1>6 DEF Class!NextPart
  <2>2. Class!MemOK' /\ Class!PendingInv' BY <2>1 DEF Class!MemOK, Class!PendingInv
  <2>3. Class!TypeOK' BY <2>1 DEF Class!TypeOK
  <2>4. Class!ForkInv' BY <2>1 DEF Class!TypeOK, Class!ForkInv
  <2>6. Class!StatisticsComplete' BY <2>1 DEF Class!StatisticsComplete, Class!TypeOK
  <2>7. Class!StudentInv(s)'
    BY <2>1 DEF Class!TypeOK, Class!StudentInv, Class!Waits, Class!Reported, Class!IsPending
  <2>8. ASSUME NEW t \in Class!Students \ {s} PROVE Class!StudentInv(t)'
    BY <2>1, ClassFrame DEF Class!Reported, Class!IsPending, Class!TypeOK
  <2> QED BY <2>2, <2>3, <2>4, <2>6, <2>7, <2>8
<1>7. CASE Class!StudentExits(s)
  <2> USE <1>1
  <2>1. /\ at[s] = "test" /\ at' = [at EXCEPT ![s] = "zombie"] /\ mem.confirmed[s]
        /\ mem.part[s] = Parts /\ mem' = mem
        /\ pending' = [pending EXCEPT ![0] = IF Class!IsPending(0, "CHLD") THEN @
                                             ELSE @ \cup {[sig |-> "CHLD", from |-> s]},
                                      ![s] = {}]
    <3>1. Class!Live(0)
      BY <1>7
      DEF Class!StudentExits, Class!Exit, Class!Live, Class!ForkInv, Class!StatisticsComplete
    <3> QED BY <1>7, <3>1 DEF Class!StudentExits, Class!Exit, Class!Posted, Class!MemOK
  <2>2. Class!MemOK' BY <2>1 DEF Class!MemOK
  <2>3. Class!TypeOK' BY <2>1 DEF Class!TypeOK
  <2>4. Class!ForkInv' BY <2>1 DEF Class!TypeOK, Class!ForkInv
  <2>5. Class!PendingInv' BY <2>1 DEF Class!PendingInv, Class!MemOK, Class!IsPending
  <2>6. Class!StatisticsComplete' BY <2>1 DEF Class!StatisticsComplete, Class!TypeOK
  <2>7. Class!StudentInv(s)'
    BY <2>1
    DEF Class!TypeOK, Class!MemOK, Class!StudentInv, Class!Waits, Class!Reported, Class!IsPending
  <2>8. ASSUME NEW t \in Class!Students \ {s} PROVE Class!StudentInv(t)'
    BY <2>1, ClassFrame DEF Class!Reported, Class!IsPending, Class!TypeOK, Class!MemOK
  <2> QED BY <2>2, <2>3, <2>4, <2>5, <2>6, <2>7, <2>8
<1> QED BY <1>2, <1>3, <1>4, <1>5, <1>6, <1>7 DEF Class!StudentStep

\* The teacher begins with nobody there.
LEMMA ClassInit == ASSUME Class!Init PROVE Class!IndInv
<1> USE ClassNumbers
    DEF Class!Init, Class!OnlyFirst, Class!NothingPending
<1>1. Class!TypeOK /\ Class!MemOK BY DEF Class!TypeOK, Class!MemOK
<1>2. Class!ForkInv
  BY ExercisesAssumption DEF Class!ForkInv, Class!Students, Class!ClassConstants
<1>3. Class!PendingInv BY DEF Class!PendingInv
<1>4. Class!StatisticsComplete
  <2>1. {s \in Class!Students : at[s] # "reaped"} = Class!Students OBVIOUS
  <2> QED BY <2>1, ClassFinite, SameCardinality DEF Class!StatisticsComplete
<1>5. \A s \in Class!Students : Class!StudentInv(s)
  BY ExercisesAssumption
  DEF Class!StudentInv, Class!Waits, Class!Reported, Class!IsPending, Class!ClassConstants
<1> QED BY <1>1, <1>2, <1>3, <1>4, <1>5 DEF Class!IndInv

\* A step of the teacher: it forks, takes a report or reaps.
LEMMA ClassTeacher ==
  ASSUME Class!IndInv, Class!TeacherStep
  PROVE  Class!IndInv'
<1> USE ClassNumbers DEF Class!IndInv, Class!Move
<1>1. CASE Class!Fork
  <2>1. PICK s \in Class!Students : s = mem.stored + 1 /\ at[s] = "none"
    BY <1>1 DEF Class!Fork, Class!ForkInv, Class!MemOK, Class!Students
  <2>2. /\ at[0] = "fork" /\ at' = [at EXCEPT ![0] = "store", ![s] = "work"]
        /\ pending' = pending /\ mem' = mem
    BY <1>1, <2>1 DEF Class!Fork
  <2>3. Class!MemOK' /\ Class!PendingInv' BY <2>2 DEF Class!MemOK, Class!PendingInv
  <2>4. Class!TypeOK' BY <2>1, <2>2 DEF Class!TypeOK
  <2>5. Class!ForkInv'
    BY <2>1, <2>2 DEF Class!TypeOK, Class!ForkInv, Class!MemOK
  <2>6. Class!StatisticsComplete'
    BY <2>1, <2>2 DEF Class!StatisticsComplete, Class!TypeOK
  <2>7. Class!StudentInv(s)'
    BY <2>1, <2>2
    DEF Class!TypeOK, Class!MemOK, Class!StudentInv, Class!Waits, Class!Reported, Class!IsPending
  <2>8. ASSUME NEW t \in Class!Students \ {s} PROVE Class!StudentInv(t)'
    BY <2>2, ClassFrame DEF Class!Reported, Class!IsPending, Class!TypeOK
  <2> QED BY <2>3, <2>4, <2>5, <2>6, <2>7, <2>8
<1>2. CASE Class!StorePid
  <2>1. /\ at[0] = "store" /\ pending' = pending
        /\ at' = [at EXCEPT ![0] = IF mem.stored + 1 = ClassSize THEN "test" ELSE "fork"]
        /\ mem' = [mem EXCEPT !.stored = @ + 1]
    BY <1>2 DEF Class!StorePid
  <2>2. Class!MemOK' /\ Class!PendingInv' BY <2>1 DEF Class!MemOK, Class!PendingInv
  <2>3. Class!TypeOK' BY <2>1 DEF Class!TypeOK, Class!MemOK, Class!ForkInv
  <2>4. Class!ForkInv' BY <2>1 DEF Class!TypeOK, Class!ForkInv, Class!MemOK
  <2>5. Class!StatisticsComplete'
    BY <2>1 DEF Class!StatisticsComplete, Class!TypeOK, Class!MemOK
  <2>6. ASSUME NEW t \in Class!Students PROVE Class!StudentInv(t)'
    BY <2>1, ClassFrame DEF Class!Reported, Class!IsPending, Class!TypeOK, Class!MemOK
  <2> QED BY <2>2, <2>3, <2>4, <2>5, <2>6
<1>3. ASSUME NEW to \in {"test", "suspended", "done"},
             at[0] \in {"test", "reaping"}, at' = [at EXCEPT ![0] = to],
             to = "done" => mem.left = 0, pending' = pending, mem' = mem
      PROVE  Class!IndInv'
  <2>1. Class!MemOK' /\ Class!PendingInv' BY <1>3 DEF Class!MemOK, Class!PendingInv
  <2>2. Class!TypeOK' BY <1>3 DEF Class!TypeOK
  <2>3. Class!ForkInv' BY <1>3 DEF Class!TypeOK, Class!ForkInv
  <2>4. Class!StatisticsComplete'
    <3>1. {s \in Class!Students : at'[s] # "reaped"} = {s \in Class!Students : at[s] # "reaped"}
      BY <1>3 DEF Class!TypeOK
    <3>2. ASSUME mem.left = 0 PROVE \A s \in Class!Students : at[s] = "reaped"
      <4>1. IsFiniteSet({s \in Class!Students : at[s] # "reaped"})
        BY ClassFinite, FS_Subset
      <4> QED BY <3>2, <4>1, FS_EmptySet, SameCardinality DEF Class!StatisticsComplete
    <3> QED BY <1>3, <3>1, <3>2 DEF Class!StatisticsComplete, Class!StudentInv, Class!TypeOK
  <2>5. ASSUME NEW t \in Class!Students PROVE Class!StudentInv(t)'
    BY <1>3, ClassFrame DEF Class!Reported, Class!IsPending, Class!TypeOK
  <2> QED BY <2>1, <2>2, <2>3, <2>4, <2>5
<1>4. CASE Class!TeacherSuspends \/ Class!ReapedAll \/ Class!PrintStatistics
  BY <1>3, <1>4 DEF Class!TeacherSuspends, Class!ReapedAll, Class!PrintStatistics
<1>5. CASE Class!AcceptReport
  <2>1. PICK r \in pending[0] :
          /\ r.sig = "USR1"
          /\ pending' = [Class!Posted({r.from}, "USR2", 0) EXCEPT ![0] = @ \ {r}]
          /\ mem' = [mem EXCEPT !.accepted[r.from] = @ + 1]
    BY <1>5 DEF Class!AcceptReport
  <2> DEFINE s == r.from
  <2>2. s \in Class!Students BY DEF Class!PendingInv
  <2>3. r = [sig |-> "USR1", from |-> s] BY <2>1 DEF Class!MemOK
  <2> HIDE DEF s
  <2>4. Class!Reported(s) /\ Class!Waits(s) /\ ~Class!IsPending(s, "USR2")
    BY <2>2, <2>3 DEF Class!StudentInv, Class!Reported
  <2>5. /\ pending' = [pending EXCEPT ![0] = @ \ {r}, ![s] = {[sig |-> "USR2", from |-> 0]}]
        /\ mem' = [mem EXCEPT !.accepted[s] = @ + 1]
        /\ at[0] \in {"suspended", "reaping"}
        /\ at' = [at EXCEPT ![0] = IF at[0] = "suspended" THEN "test" ELSE "reaping"]
    <3>1. Class!Live(s) BY <2>4 DEF Class!Live, Class!Waits
    <3>2. pending[s] = {} BY <2>2, <2>4 DEF Class!PendingInv, Class!IsPending
    <3>3. pending' = [pending EXCEPT ![0] = @ \ {r}, ![s] = {[sig |-> "USR2", from |-> 0]}]
      BY <2>1, <2>2, <2>4, <3>1, <3>2 DEF Class!Posted, Class!MemOK, s
    <3> QED BY <1>5, <2>1, <3>3 DEF Class!AcceptReport, Class!TypeOK, s
  <2>6. Class!MemOK' BY <2>2, <2>5 DEF Class!MemOK
  <2>7. Class!TypeOK'
    BY <2>2, <2>4, <2>5 DEF Class!TypeOK, Class!MemOK, Class!StudentInv, Class!Waits
  <2>8. Class!ForkInv' BY <2>2, <2>5 DEF Class!TypeOK, Class!ForkInv, Class!MemOK
  <2>9. Class!PendingInv' BY <2>2, <2>5 DEF Class!PendingInv, Class!MemOK
  <2>10. Class!StatisticsComplete'
    BY <2>2, <2>5 DEF Class!StatisticsComplete, Class!TypeOK, Class!MemOK
  <2>11. Class!StudentInv(s)'
    <3>1. at'[s] = at[s] /\ mem'.confirmed = mem.confirmed /\ mem'.part = mem.part
          /\ mem'.accepted[s] = mem.accepted[s] + 1 /\ mem'.recorded = mem.recorded
          /\ mem'.issues = mem.issues /\ pending'[s] = {[sig |-> "USR2", from |-> 0]}
          /\ r \notin pending'[0]
      BY <2>2, <2>5 DEF Class!TypeOK, Class!MemOK
    <3>2. Class!IsPending(s, "USR2")' /\ ~Class!Reported(s)' /\ Class!Waits(s)'
      BY <2>3, <2>4, <3>1 DEF Class!IsPending, Class!Reported, Class!Waits
    <3>3. mem.part[s] \in Nat /\ mem.accepted[s] \in Nat BY <2>2 DEF Class!MemOK
    <3>4. Class!StudentInv(s) BY <2>2
    <3>5. at[s] \notin {"report", "none", "work", "reaped"} BY <2>4 DEF Class!Waits
    <3>6. mem.part[s] = mem.accepted[s] + 1 BY <2>4, <3>4 DEF Class!StudentInv
    <3> QED BY <3>1, <3>2, <3>3, <3>4, <3>5, <3>6 DEF Class!StudentInv
  <2>12. ASSUME NEW t \in Class!Students \ {s} PROVE Class!StudentInv(t)'
    BY <2>2, <2>3, <2>5, ClassFrame DEF Class!Reported, Class!IsPending, Class!TypeOK, Class!MemOK
  <2> QED BY <2>6, <2>7, <2>8, <2>9, <2>10, <2>11, <2>12
<1>6. CASE Class!EnterReaping
  <2>1. /\ at[0] = "suspended" /\ at' = [at EXCEPT ![0] = "reaping"] /\ mem' = mem
        /\ pending' = [pending EXCEPT ![0] = {r \in @ : r.sig # "CHLD"}]
    BY <1>6 DEF Class!EnterReaping, Class!Taken
  <2>2. Class!MemOK' BY <2>1 DEF Class!MemOK
  <2>3. Class!TypeOK' BY <2>1 DEF Class!TypeOK
  <2>4. Class!ForkInv' BY <2>1 DEF Class!TypeOK, Class!ForkInv
  <2>5. Class!PendingInv' BY <2>1 DEF Class!PendingInv, Class!MemOK
  <2>6. Class!StatisticsComplete' BY <2>1 DEF Class!StatisticsComplete, Class!TypeOK
  <2>7. ASSUME NEW t \in Class!Students PROVE Class!StudentInv(t)'
    BY <2>1, ClassFrame DEF Class!Reported, Class!IsPending, Class!TypeOK, Class!MemOK
  <2> QED BY <2>2, <2>3, <2>4, <2>5, <2>6, <2>7
<1>7. ASSUME NEW s \in Class!Students, Class!Reap(s) PROVE Class!IndInv'
  <2>1. /\ at[0] = "reaping" /\ at[s] = "zombie" /\ at' = [at EXCEPT ![s] = "reaped"]
        /\ pending' = pending
        /\ mem' = [mem EXCEPT !.left = @ - 1, !.recorded = [@ EXCEPT ![s] = mem.issues[s]]]
    <3>1. s <= mem.stored BY <1>7 DEF Class!Reap, Class!ForkInv, Class!MemOK
    <3> QED BY <1>7, <3>1 DEF Class!Reap, Class!MemOK
  <2>2. /\ mem.left \in Nat /\ mem.left > 0
        /\ mem.left - 1 = Cardinality({t \in Class!Students : at'[t] # "reaped"})
    <3> DEFINE Left == {t \in Class!Students : at[t] # "reaped"}
    <3>1. IsFiniteSet(Left) BY ClassFinite, FS_Subset
    <3>2. s \in Left BY <2>1
    <3>3. {t \in Class!Students : at'[t] # "reaped"} = Left \ {s} BY <2>1 DEF Class!TypeOK
    <3>4. /\ Cardinality(Left \ {s}) = Cardinality(Left) - 1
          /\ Cardinality(Left) \in Nat /\ Cardinality(Left \ {s}) \in Nat
      BY <3>1, <3>2, FS_RemoveElement, FS_CardinalityType
    <3>5. mem.left = Cardinality(Left) BY SameCardinality DEF Class!StatisticsComplete
    <3>6. mem.left \in Nat /\ mem.left > 0 /\ mem.left - 1 = Cardinality(Left \ {s})
      BY ONLY <3>4, <3>5
    <3> QED BY <3>3, <3>6
  <2>3. Class!MemOK'
    <3>1. [mem.recorded EXCEPT ![s] = mem.issues[s]] \in [Class!Students -> Nat]
      BY DEF Class!MemOK
    <3>2. mem.left - 1 \in Nat BY <2>2
    <3> QED BY <2>1, <3>1, <3>2 DEF Class!MemOK
  <2>4. Class!TypeOK' BY <2>1, <2>2 DEF Class!TypeOK, Class!MemOK
  <2>5. Class!ForkInv' BY <2>1 DEF Class!TypeOK, Class!ForkInv, Class!MemOK
  <2>6. Class!PendingInv' BY <2>1 DEF Class!PendingInv
  <2>7. Class!StatisticsComplete'
    <3>1. mem'.left = mem.left - 1 /\ at'[0] # "done" BY <2>1 DEF Class!MemOK, Class!TypeOK
    <3> QED BY <2>2, <3>1, SameCardinality DEF Class!StatisticsComplete
  <2>8. Class!StudentInv(s)'
    BY <2>1
    DEF Class!TypeOK, Class!MemOK, Class!StudentInv, Class!Waits, Class!Reported, Class!IsPending
  <2>9. ASSUME NEW t \in Class!Students \ {s} PROVE Class!StudentInv(t)'
    BY <2>1, ClassFrame DEF Class!Reported, Class!IsPending, Class!TypeOK, Class!MemOK
  <2> QED BY <2>3, <2>4, <2>5, <2>6, <2>7, <2>8, <2>9
<1> QED BY <1>1, <1>2, <1>4, <1>5, <1>6, <1>7 DEF Class!TeacherStep

\* What the invariant says of reports, answers and statistics.
LEMMA ClassInvariant ==
  ASSUME Class!IndInv
  PROVE  Class!OnlyMergedLost /\ Class!OneAnswerPerPart /\ Class!StatisticsComplete
<1> USE DEF Class!IndInv
<1>1. Class!OnlyMergedLost BY DEF Class!StudentInv, Class!OnlyMergedLost
<1>2. ASSUME NEW s \in Class!Students
      PROVE  mem.accepted[s] \in Nat /\ Class!StudentInv(s)
  BY DEF Class!MemOK
<1>3. Class!OneAnswerPerPart BY <1>2 DEF Class!StudentInv, Class!OneAnswerPerPart
<1> QED BY <1>1, <1>3

-----------------------------------------------------------------------------
(***************************************************************************)
(* FirstClassroom (task2.c): the same with the flag of the student and the *)
(* count of the teacher.                                                   *)
(***************************************************************************)

\* The students are processes other than the teacher.
LEMMA FirstNumbers ==
  /\ ClassSize \in Nat /\ Parts \in Nat /\ 0 \in Procs
  /\ \A s \in FirstClass!Students : s \in Procs /\ s # 0 /\ s \in Nat /\ s \in 0 .. ClassSize
  /\ \A n \in 0 .. MaxIssues : n \in Nat
  /\ IsFiniteSet(FirstClass!Students) /\ Cardinality(FirstClass!Students) = ClassSize
  /\ \A S : FirstClass!Cardinality(S) = Cardinality(S)
<1>1. \A S : FirstClass!Cardinality(S) = Cardinality(S) BY DEF FirstClass!Cardinality, Cardinality
<1> USE ProcsAssumption, ExercisesAssumption DEF FirstClass!FirstClassConstants, FirstClass!Students
<1>2. IsFiniteSet(FirstClass!Students) /\ Cardinality(FirstClass!Students) = ClassSize
  BY FS_Interval
<1> QED BY <1>1, <1>2

\* What a step leaves of student s: its place, its messages and its fields.
LEMMA FirstFrame ==
  ASSUME NEW s \in FirstClass!Students, FirstClass!StudentInv(s),
         at'[s] = at[s], FirstClass!Reported(s)' <=> FirstClass!Reported(s),
         FirstClass!IsPending(s, "USR2")' <=> FirstClass!IsPending(s, "USR2"),
         mem'.part[s] = mem.part[s], mem'.accepted[s] = mem.accepted[s],
         mem'.sigusr2[s] = mem.sigusr2[s], s \in mem.merged => s \in mem'.merged
  PROVE  FirstClass!StudentInv(s)'
BY DEF FirstClass!StudentInv, FirstClass!Unanswered

\* The teacher begins with nobody there.
LEMMA FirstInit == ASSUME FirstClass!Init PROVE FirstClass!IndInv
<1> USE FirstNumbers DEF FirstClass!Init, FirstClass!OnlyFirst, FirstClass!NothingPending
<1>1. FirstClass!MemOK BY DEF FirstClass!MemOK
<1>2. FirstClass!ForkInv
  BY ExercisesAssumption DEF FirstClass!ForkInv, FirstClass!Students, FirstClass!FirstClassConstants
<1>3. FirstClass!PendingInv /\ FirstClass!ReapedInv
  BY DEF FirstClass!PendingInv, FirstClass!ReapedInv
<1>4. FirstClass!CountInv
  <2>1. FirstClass!Answered = {} BY DEF FirstClass!Answered
  <2> QED BY <2>1, FS_EmptySet DEF FirstClass!CountInv
<1>5. \A s \in FirstClass!Students : FirstClass!StudentInv(s)
  BY ExercisesAssumption
  DEF FirstClass!StudentInv, FirstClass!Unanswered, FirstClass!Reported, FirstClass!IsPending,
      FirstClass!FirstClassConstants
<1> QED BY <1>1, <1>2, <1>3, <1>4, <1>5 DEF FirstClass!IndInv

\* A step of a student changes its own fields and the messages of the teacher.
LEMMA FirstStudents ==
  ASSUME FirstClass!IndInv, NEW s \in FirstClass!Students, FirstClass!Step(s)
  PROVE  FirstClass!IndInv'
<1> USE FirstNumbers DEF FirstClass!IndInv, FirstClass!Move
<1>0. FirstClass!StudentInv(s) OBVIOUS
<1>1. CASE FirstClass!Handler(s)
  <2>1. /\ at[s] = "new" /\ at' = [at EXCEPT ![s] = "work"] /\ pending' = pending /\ mem' = mem
    BY <1>1 DEF FirstClass!Handler
  <2>2. FirstClass!MemOK' BY <2>1 DEF FirstClass!MemOK
  <2>3. FirstClass!ForkInv' BY <2>1 DEF FirstClass!ForkInv, FirstClass!MemOK
  <2>4. FirstClass!PendingInv'
    BY <2>1 DEF FirstClass!PendingInv, FirstClass!MemOK, FirstClass!IsPending
  <2>5. FirstClass!CountInv'
    BY <2>1 DEF FirstClass!CountInv, FirstClass!Answered, FirstClass!MemOK
  <2>6. FirstClass!ReapedInv' BY <2>1 DEF FirstClass!ReapedInv, FirstClass!MemOK
  <2>7. FirstClass!StudentInv(s)'
    BY <1>0, <2>1 DEF FirstClass!MemOK, FirstClass!StudentInv, FirstClass!Unanswered,
       FirstClass!Reported, FirstClass!IsPending
  <2>8. ASSUME NEW t \in FirstClass!Students \ {s} PROVE FirstClass!StudentInv(t)'
    BY <2>1, FirstFrame DEF FirstClass!Reported, FirstClass!IsPending, FirstClass!MemOK
  <2> QED BY <2>2, <2>3, <2>4, <2>5, <2>6, <2>7, <2>8
<1>2. ASSUME NEW n \in 0 .. MaxIssues, FirstClass!FinishPart(s, n) PROVE FirstClass!IndInv'
  <2>1. /\ at[s] = "work" /\ at' = [at EXCEPT ![s] = "report"] /\ pending' = pending
        /\ mem'.part = [mem.part EXCEPT ![s] = @ + 1]
        /\ mem'.issues = [mem.issues EXCEPT ![s] = @ + n]
        /\ mem' = [mem EXCEPT !.part = mem'.part, !.issues = mem'.issues]
        /\ mem'.accepted = mem.accepted /\ mem'.sigusr2 = mem.sigusr2 /\ mem'.forked = mem.forked
        /\ mem'.printed = mem.printed /\ mem'.parts_cnt = mem.parts_cnt /\ mem'.merged = mem.merged
    BY <1>2 DEF FirstClass!FinishPart, FirstClass!MemOK
  <2>2. FirstClass!MemOK'
    <3>1. mem'.part \in [FirstClass!Students -> Nat] /\ mem'.issues \in [FirstClass!Students -> Nat]
      BY <2>1 DEF FirstClass!MemOK
    <3> QED BY <2>1, <3>1 DEF FirstClass!MemOK
  <2>3. FirstClass!ForkInv' BY <2>1 DEF FirstClass!ForkInv, FirstClass!MemOK
  <2>4. FirstClass!PendingInv'
    BY <2>1 DEF FirstClass!PendingInv, FirstClass!MemOK, FirstClass!IsPending
  <2>5. FirstClass!CountInv'
    BY <2>1 DEF FirstClass!CountInv, FirstClass!Answered, FirstClass!MemOK
  <2>6. FirstClass!ReapedInv' BY <2>1 DEF FirstClass!ReapedInv, FirstClass!MemOK
  <2>7. FirstClass!StudentInv(s)'
    BY <1>0, <2>1 DEF FirstClass!MemOK, FirstClass!StudentInv, FirstClass!Unanswered,
       FirstClass!Reported, FirstClass!IsPending
  <2>8. ASSUME NEW t \in FirstClass!Students \ {s} PROVE FirstClass!StudentInv(t)'
    BY <2>1, FirstFrame DEF FirstClass!Reported, FirstClass!IsPending, FirstClass!MemOK
  <2> QED BY <2>2, <2>3, <2>4, <2>5, <2>6, <2>7, <2>8
<1>3. CASE FirstClass!Report(s)
  <2>1. /\ at[s] = "report" /\ at' = [at EXCEPT ![s] = "wait"]
        /\ pending' = [pending EXCEPT ![0] = IF FirstClass!IsPending(0, "USR1") THEN @
                                             ELSE @ \cup {[sig |-> "USR1", from |-> s]}]
        /\ mem' = [mem EXCEPT !.merged = IF FirstClass!IsPending(0, "USR1") THEN @ \cup {s} ELSE @]
    <3>1. mem.accepted[s] # Parts
      BY <1>0, <1>3 DEF FirstClass!Report, FirstClass!StudentInv, FirstClass!MemOK
    <3>2. FirstClass!Live(0)
      BY <3>1 DEF FirstClass!Live, FirstClass!ForkInv, FirstClass!CountInv
    <3> QED BY <1>3, <3>2 DEF FirstClass!Report, FirstClass!Posted, FirstClass!MemOK
  <2>2. FirstClass!MemOK' BY <2>1 DEF FirstClass!MemOK
  <2>3. FirstClass!ForkInv' BY <2>1 DEF FirstClass!ForkInv, FirstClass!MemOK
  <2>4. FirstClass!PendingInv'
    BY <2>1 DEF FirstClass!PendingInv, FirstClass!MemOK, FirstClass!IsPending
  <2>5. FirstClass!CountInv'
    BY <2>1 DEF FirstClass!CountInv, FirstClass!Answered, FirstClass!MemOK
  <2>6. FirstClass!ReapedInv' BY <2>1 DEF FirstClass!ReapedInv, FirstClass!MemOK
  <2>7. FirstClass!StudentInv(s)'
    BY <1>0, <2>1 DEF FirstClass!MemOK, FirstClass!StudentInv, FirstClass!Unanswered,
       FirstClass!Reported, FirstClass!IsPending
  <2>8. ASSUME NEW t \in FirstClass!Students \ {s} PROVE FirstClass!StudentInv(t)'
    BY <2>1, FirstFrame DEF FirstClass!Reported, FirstClass!IsPending, FirstClass!MemOK
  <2> QED BY <2>2, <2>3, <2>4, <2>5, <2>6, <2>7, <2>8
<1>4. CASE FirstClass!Confirm(s)
  <2>1. /\ at[s] = "wait" /\ at' = at
        /\ FirstClass!IsPending(s, "USR2") /\ pending' = [pending EXCEPT ![s] = {}]
        /\ mem' = [mem EXCEPT !.sigusr2[s] = TRUE]
    <3>1. {r \in pending[s] : r.sig \notin {"USR2"}} = {} BY DEF FirstClass!PendingInv
    <3> QED BY <1>0, <1>4, <3>1
        DEF FirstClass!Confirm, FirstClass!Taken, FirstClass!MemOK, FirstClass!StudentInv
  <2>2. FirstClass!MemOK' BY <2>1 DEF FirstClass!MemOK
  <2>3. FirstClass!ForkInv' BY <2>1 DEF FirstClass!ForkInv, FirstClass!MemOK
  <2>4. FirstClass!PendingInv'
    BY <2>1 DEF FirstClass!PendingInv, FirstClass!MemOK, FirstClass!IsPending
  <2>5. FirstClass!CountInv'
    BY <2>1 DEF FirstClass!CountInv, FirstClass!Answered, FirstClass!MemOK
  <2>6. FirstClass!ReapedInv' BY <2>1 DEF FirstClass!ReapedInv, FirstClass!MemOK
  <2>7. FirstClass!StudentInv(s)'
    BY <1>0, <2>1 DEF FirstClass!MemOK, FirstClass!StudentInv, FirstClass!Unanswered,
       FirstClass!Reported, FirstClass!IsPending
  <2>8. ASSUME NEW t \in FirstClass!Students \ {s} PROVE FirstClass!StudentInv(t)'
    BY <2>1, FirstFrame DEF FirstClass!Reported, FirstClass!IsPending, FirstClass!MemOK
  <2> QED BY <2>2, <2>3, <2>4, <2>5, <2>6, <2>7, <2>8
<1>5. CASE FirstClass!Approved(s) /\ mem.part[s] # Parts
  <2>1. /\ at[s] = "wait" /\ at' = [at EXCEPT ![s] = "work"] /\ pending' = pending
        /\ mem.sigusr2[s] /\ mem.part[s] # Parts /\ mem' = [mem EXCEPT !.sigusr2[s] = FALSE]
    BY <1>5 DEF FirstClass!Approved
  <2>2. FirstClass!MemOK' BY <2>1 DEF FirstClass!MemOK
  <2>3. FirstClass!ForkInv' BY <2>1 DEF FirstClass!ForkInv, FirstClass!MemOK
  <2>4. FirstClass!PendingInv'
    BY <2>1 DEF FirstClass!PendingInv, FirstClass!MemOK, FirstClass!IsPending
  <2>5. FirstClass!CountInv'
    BY <2>1 DEF FirstClass!CountInv, FirstClass!Answered, FirstClass!MemOK
  <2>6. FirstClass!ReapedInv' BY <2>1 DEF FirstClass!ReapedInv, FirstClass!MemOK
  <2>7. FirstClass!StudentInv(s)'
    BY <1>0, <2>1 DEF FirstClass!MemOK, FirstClass!StudentInv, FirstClass!Unanswered,
       FirstClass!Reported, FirstClass!IsPending
  <2>8. ASSUME NEW t \in FirstClass!Students \ {s} PROVE FirstClass!StudentInv(t)'
    BY <2>1, FirstFrame DEF FirstClass!Reported, FirstClass!IsPending, FirstClass!MemOK
  <2> QED BY <2>2, <2>3, <2>4, <2>5, <2>6, <2>7, <2>8
<1>6. CASE FirstClass!Approved(s) /\ mem.part[s] = Parts
  <2>1. /\ at[s] = "wait" /\ at' = [at EXCEPT ![s] = "zombie"]
        /\ mem.sigusr2[s] /\ mem' = [mem EXCEPT !.sigusr2[s] = FALSE]
        /\ pending' = [pending EXCEPT ![0] = IF FirstClass!Live(0) /\ ~FirstClass!IsPending(0, "CHLD")
                                             THEN @ \cup {[sig |-> "CHLD", from |-> s]} ELSE @,
                                      ![s] = {}]
    <3>1. /\ at[s] = "wait" /\ at' = [at EXCEPT ![s] = "zombie"]
          /\ mem.sigusr2[s] /\ mem' = [mem EXCEPT !.sigusr2[s] = FALSE]
          /\ pending' = [FirstClass!Posted({0}, "CHLD", s) EXCEPT ![s] = {}]
      BY <1>6 DEF FirstClass!Approved, FirstClass!Exit
    <3> QED BY <3>1 DEF FirstClass!Posted, FirstClass!MemOK
  <2>2. FirstClass!MemOK'
    <3>1. pending' \in [Procs -> SUBSET [sig : {"USR1", "USR2", "CHLD"}, from : 0 .. ClassSize]]
      BY <2>1 DEF FirstClass!MemOK
    <3> QED BY <2>1, <3>1 DEF FirstClass!MemOK
  <2>3. FirstClass!ForkInv' BY <2>1 DEF FirstClass!ForkInv, FirstClass!MemOK
  <2>4. FirstClass!PendingInv'
    BY <2>1 DEF FirstClass!PendingInv, FirstClass!MemOK, FirstClass!IsPending
  <2>5. FirstClass!CountInv'
    BY <2>1 DEF FirstClass!CountInv, FirstClass!Answered, FirstClass!MemOK
  <2>6. FirstClass!ReapedInv' BY <2>1 DEF FirstClass!ReapedInv, FirstClass!MemOK
  <2>7. FirstClass!StudentInv(s)'
    BY <1>0, <2>1 DEF FirstClass!MemOK, FirstClass!StudentInv, FirstClass!Unanswered,
       FirstClass!Reported, FirstClass!IsPending
  <2>8. ASSUME NEW t \in FirstClass!Students \ {s} PROVE FirstClass!StudentInv(t)'
    BY <2>1, FirstFrame DEF FirstClass!Reported, FirstClass!IsPending, FirstClass!MemOK
  <2> QED BY <2>2, <2>3, <2>4, <2>5, <2>6, <2>7, <2>8
<1> QED BY <1>1, <1>2, <1>3, <1>4, <1>5, <1>6 DEF FirstClass!Step

\* A step of the teacher: it forks, takes a report or reaps one student.
LEMMA FirstTeacher ==
  ASSUME FirstClass!IndInv, FirstClass!Step(0)
  PROVE  FirstClass!IndInv'
<1> USE FirstNumbers DEF FirstClass!IndInv, FirstClass!Move
<1>1. CASE FirstClass!Fork
  <2>0. PICK s \in FirstClass!Students : s = mem.forked + 1 /\ at[s] = "none"
    BY <1>1 DEF FirstClass!Fork, FirstClass!ForkInv, FirstClass!MemOK, FirstClass!Students
  <2>1. /\ at[0] = "fork" /\ pending' = pending
        /\ at' = [at EXCEPT ![s] = "new", ![0] = IF s = ClassSize THEN "spin" ELSE "fork"]
        /\ mem' = [mem EXCEPT !.forked = s]
    BY <1>1, <2>0 DEF FirstClass!Fork
  <2> USE <2>0
  <2>9. FirstClass!StudentInv(s) OBVIOUS
  <2>2. FirstClass!MemOK' BY <2>1 DEF FirstClass!MemOK
  <2>3. FirstClass!ForkInv' BY <2>1 DEF FirstClass!ForkInv, FirstClass!MemOK
  <2>4. FirstClass!PendingInv'
    BY <2>1 DEF FirstClass!PendingInv, FirstClass!MemOK, FirstClass!IsPending
  <2>5. FirstClass!CountInv'
    BY <2>1 DEF FirstClass!CountInv, FirstClass!Answered, FirstClass!MemOK
  <2>6. FirstClass!ReapedInv' BY <2>1 DEF FirstClass!ReapedInv, FirstClass!MemOK
  <2>7. FirstClass!StudentInv(s)'
    BY <2>9, <2>1 DEF FirstClass!MemOK, FirstClass!StudentInv, FirstClass!Unanswered,
       FirstClass!Reported, FirstClass!IsPending
  <2>8. ASSUME NEW t \in FirstClass!Students \ {s} PROVE FirstClass!StudentInv(t)'
    BY <2>1, FirstFrame DEF FirstClass!Reported, FirstClass!IsPending, FirstClass!MemOK
  <2> QED BY <2>2, <2>3, <2>4, <2>5, <2>6, <2>7, <2>8
<1>2. CASE FirstClass!AcceptReport
  <2>1. PICK r \in pending[0] :
          /\ r.sig = "USR1"
          /\ pending' = [FirstClass!Posted({r.from}, "USR2", 0) EXCEPT ![0] = @ \ {r}]
          /\ mem' = [mem EXCEPT !.accepted[r.from] = @ + 1, !.parts_cnt = @ + 1]
    BY <1>2 DEF FirstClass!AcceptReport
  <2> DEFINE s == r.from
  <2>2. s \in FirstClass!Students BY DEF FirstClass!PendingInv
  <2>3. r = [sig |-> "USR1", from |-> s] BY <2>1 DEF FirstClass!MemOK
  <2> HIDE DEF s
  <2>4. FirstClass!Reported(s) /\ FirstClass!Unanswered(s) /\ FirstClass!StudentInv(s)
    BY <2>2, <2>3 DEF FirstClass!StudentInv, FirstClass!Reported, FirstClass!Unanswered
  <2>5. /\ pending' = [pending EXCEPT ![0] = @ \ {r}, ![s] = {[sig |-> "USR2", from |-> 0]}]
        /\ mem'.accepted = [mem.accepted EXCEPT ![s] = @ + 1] /\ mem'.parts_cnt = mem.parts_cnt + 1
        /\ mem' = [mem EXCEPT !.accepted = mem'.accepted, !.parts_cnt = mem'.parts_cnt]
        /\ mem'.part = mem.part /\ mem'.sigusr2 = mem.sigusr2 /\ mem'.forked = mem.forked
        /\ mem'.printed = mem.printed /\ mem'.issues = mem.issues /\ mem'.merged = mem.merged
        /\ at' = at
    <3>1. FirstClass!Live(s) BY <2>4 DEF FirstClass!Live, FirstClass!Unanswered
    <3>2. pending[s] = {}
      BY <2>2, <2>4 DEF FirstClass!PendingInv, FirstClass!IsPending, FirstClass!Unanswered
    <3>3. pending' = [pending EXCEPT ![0] = @ \ {r}, ![s] = {[sig |-> "USR2", from |-> 0]}]
      BY <2>1, <2>2, <2>4, <3>1, <3>2
      DEF FirstClass!Posted, FirstClass!MemOK, FirstClass!IsPending, s
    <3> QED BY <1>2, <2>1, <2>2, <3>3 DEF FirstClass!AcceptReport, FirstClass!MemOK, s
  <2>6. FirstClass!MemOK'
    <3>1. mem'.accepted \in [FirstClass!Students -> Nat] /\ mem'.parts_cnt \in Nat
      BY <2>2, <2>5 DEF FirstClass!MemOK
    <3>2. pending' \in [Procs -> SUBSET [sig : {"USR1", "USR2", "CHLD"}, from : 0 .. ClassSize]]
      BY <2>2, <2>5 DEF FirstClass!MemOK
    <3> QED BY <2>2, <2>5, <3>1, <3>2 DEF FirstClass!MemOK
  <2>7. FirstClass!ForkInv' BY <2>2, <2>5 DEF FirstClass!ForkInv, FirstClass!MemOK
  <2>8. FirstClass!PendingInv' BY <2>2, <2>5 DEF FirstClass!PendingInv, FirstClass!MemOK
  <2>9. FirstClass!ReapedInv' BY <2>2, <2>5 DEF FirstClass!ReapedInv, FirstClass!MemOK
  <2>10. FirstClass!CountInv'
    <3> DEFINE n == mem.accepted[s] + 1
    <3>1. n \in 1 .. Parts /\ mem.accepted[s] \in Nat
      BY <2>2, <2>4 DEF FirstClass!StudentInv, FirstClass!Unanswered, FirstClass!MemOK
    <3>2. mem'.accepted = [mem.accepted EXCEPT ![s] = n] /\ mem'.parts_cnt = mem.parts_cnt + 1
      BY <2>2, <2>5 DEF FirstClass!MemOK
    <3>3. FirstClass!Answered' = FirstClass!Answered \cup {<<s, n>>}
      BY <2>2, <3>1, <3>2 DEF FirstClass!Answered, FirstClass!MemOK
    <3>4. <<s, n>> \notin FirstClass!Answered
      BY <3>1 DEF FirstClass!Answered
    <3>5. IsFiniteSet(FirstClass!Answered)
      <4>1. IsFiniteSet(1 .. Parts) BY FS_Interval
      <4>2. IsFiniteSet(FirstClass!Students \X (1 .. Parts)) BY <4>1, FS_Product
      <4> QED BY <4>2, FS_Subset DEF FirstClass!Answered
    <3>6. Cardinality(FirstClass!Answered') = Cardinality(FirstClass!Answered) + 1
      BY <3>3, <3>4, <3>5, FS_AddElement
    <3>7. at'[0] \notin {"wait", "done"}
      BY <2>2, <2>5, <3>1 DEF FirstClass!CountInv
    <3> QED BY <3>2, <3>6, <3>7 DEF FirstClass!CountInv
  <2>11. FirstClass!StudentInv(s)'
    <3>1. at'[s] = "wait" /\ mem'.sigusr2 = mem.sigusr2 /\ mem'.part = mem.part
          /\ mem'.accepted[s] = mem.accepted[s] + 1
          /\ pending'[s] = {[sig |-> "USR2", from |-> 0]} /\ r \notin pending'[0]
      BY <2>2, <2>4, <2>5 DEF FirstClass!MemOK, FirstClass!Unanswered
    <3>2. FirstClass!IsPending(s, "USR2")' /\ ~FirstClass!Reported(s)' /\ ~FirstClass!Unanswered(s)'
          /\ ~mem.sigusr2[s]
      BY <2>3, <2>4, <3>1 DEF FirstClass!IsPending, FirstClass!Reported, FirstClass!Unanswered
    <3>3. mem.part[s] \in Nat /\ mem.accepted[s] \in Nat BY <2>2 DEF FirstClass!MemOK
    <3>4. mem.part[s] = mem.accepted[s] + 1 /\ mem.part[s] <= Parts /\ at[s] = "wait"
      BY <2>4 DEF FirstClass!StudentInv, FirstClass!Unanswered
    <3> QED BY <3>1, <3>2, <3>3, <3>4 DEF FirstClass!StudentInv
  <2>12. ASSUME NEW t \in FirstClass!Students \ {s} PROVE FirstClass!StudentInv(t)'
    BY <2>2, <2>3, <2>5, FirstFrame DEF FirstClass!Reported, FirstClass!IsPending, FirstClass!MemOK
  <2> QED BY <2>6, <2>7, <2>8, <2>9, <2>10, <2>11, <2>12
<1>3. CASE FirstClass!EnoughParts
  <2>1. /\ at[0] = "spin" /\ at' = [at EXCEPT ![0] = "wait"] /\ pending' = pending /\ mem' = mem
    BY <1>3 DEF FirstClass!EnoughParts
  <2>2. FirstClass!MemOK' BY <2>1 DEF FirstClass!MemOK
  <2>3. FirstClass!ForkInv' BY <2>1 DEF FirstClass!ForkInv, FirstClass!MemOK
  <2>4. FirstClass!PendingInv' BY <2>1 DEF FirstClass!PendingInv
  <2>5. FirstClass!CountInv'
    <3> DEFINE All == FirstClass!Students \X (1 .. Parts)
    <3>1. IsFiniteSet(All) /\ Cardinality(All) = ClassSize * Parts
      <4>1. IsFiniteSet(1 .. Parts) /\ Cardinality(1 .. Parts) = Parts BY FS_Interval
      <4> QED BY <4>1, FS_Product
    <3>2. FirstClass!Answered \subseteq All /\ mem.parts_cnt = Cardinality(FirstClass!Answered)
          /\ mem.parts_cnt >= ClassSize * Parts
      BY <1>3 DEF FirstClass!Answered, FirstClass!CountInv, FirstClass!EnoughParts
    <3>3. Cardinality(FirstClass!Answered) \in Nat
          /\ Cardinality(FirstClass!Answered) <= Cardinality(All)
          /\ (Cardinality(All) = Cardinality(FirstClass!Answered) => All = FirstClass!Answered)
      BY <3>1, <3>2, FS_Subset, FS_CardinalityType
    <3>4. Cardinality(All) = Cardinality(FirstClass!Answered)
      BY ONLY <3>1, <3>2, <3>3, ClassSize * Parts \in Nat
    <3>5. ASSUME NEW s \in FirstClass!Students PROVE mem.accepted[s] = Parts
      <4>1. <<s, Parts>> \in FirstClass!Answered
        BY <3>3, <3>4, ExercisesAssumption DEF FirstClass!FirstClassConstants
      <4>2. Parts <= mem.accepted[s] BY <4>1 DEF FirstClass!Answered
      <4>3. FirstClass!StudentInv(s) /\ mem.accepted[s] \in Nat /\ mem.part[s] \in Nat
        BY DEF FirstClass!MemOK
      <4> QED BY <4>2, <4>3 DEF FirstClass!StudentInv
    <3> QED BY <2>1, <3>5 DEF FirstClass!CountInv, FirstClass!Answered
  <2>6. FirstClass!ReapedInv' BY <2>1 DEF FirstClass!ReapedInv, FirstClass!MemOK
  <2>7. ASSUME NEW t \in FirstClass!Students PROVE FirstClass!StudentInv(t)'
    BY <2>1, FirstFrame DEF FirstClass!Reported, FirstClass!IsPending, FirstClass!MemOK
  <2> QED BY <2>2, <2>3, <2>4, <2>5, <2>6, <2>7
<1>4. ASSUME NEW s \in FirstClass!Students, FirstClass!WaitForOne(s) PROVE FirstClass!IndInv'
  <2>1. /\ at[0] = "wait" /\ at[s] = "zombie" /\ at' = [at EXCEPT ![s] = "reaped", ![0] = "done"]
        /\ pending' = pending /\ mem' = [mem EXCEPT !.printed = {<<s, mem.issues[s]>>}]
    BY <1>4 DEF FirstClass!WaitForOne
  <2>9. FirstClass!StudentInv(s) OBVIOUS
  <2>2. FirstClass!MemOK' BY <2>1 DEF FirstClass!MemOK
  <2>3. FirstClass!ForkInv' BY <2>1 DEF FirstClass!ForkInv, FirstClass!MemOK
  <2>4. FirstClass!PendingInv'
    BY <2>1 DEF FirstClass!PendingInv, FirstClass!MemOK, FirstClass!IsPending
  <2>5. FirstClass!CountInv'
    BY <2>1 DEF FirstClass!CountInv, FirstClass!Answered, FirstClass!MemOK
  <2>6. FirstClass!ReapedInv' BY <2>1 DEF FirstClass!ReapedInv, FirstClass!MemOK
  <2>7. FirstClass!StudentInv(s)'
    BY <2>9, <2>1 DEF FirstClass!MemOK, FirstClass!StudentInv, FirstClass!Unanswered,
       FirstClass!Reported, FirstClass!IsPending
  <2>8. ASSUME NEW t \in FirstClass!Students \ {s} PROVE FirstClass!StudentInv(t)'
    BY <2>1, FirstFrame DEF FirstClass!Reported, FirstClass!IsPending, FirstClass!MemOK
  <2> QED BY <2>2, <2>3, <2>4, <2>5, <2>6, <2>7, <2>8
<1> QED BY <1>1, <1>2, <1>3, <1>4 DEF FirstClass!Step

\* What the invariant says of reports, answers and the one that is reaped.
LEMMA FirstInvariant ==
  ASSUME FirstClass!IndInv
  PROVE  FirstClass!OnlyMergedLost /\ FirstClass!OneAnswerPerPart /\ FirstClass!OneReaped
<1> USE DEF FirstClass!IndInv
<1>1. FirstClass!OnlyMergedLost
  BY DEF FirstClass!StudentInv, FirstClass!OnlyMergedLost, FirstClass!Unanswered
<1>2. FirstClass!OneAnswerPerPart BY DEF FirstClass!StudentInv, FirstClass!OneAnswerPerPart
<1>3. FirstClass!OneReaped
  <2> SUFFICES ASSUME at[0] = "done" PROVE FirstClass!OneReaped BY DEF FirstClass!OneReaped
  <2>1. PICK s \in FirstClass!Students :
          /\ mem.printed = {<<s, mem.issues[s]>>}
          /\ \A t \in FirstClass!Students : at[t] = "reaped" <=> t = s
    BY DEF FirstClass!ReapedInv
  <2>2. {t \in FirstClass!Students : at[t] = "reaped"} = {s} BY <2>1
  <2> QED BY <2>1, <2>2, FirstNumbers, FS_Singleton DEF FirstClass!OneReaped, FirstClass!CountInv
<1> QED BY <1>1, <1>2, <1>3

-----------------------------------------------------------------------------
(***************************************************************************)
(* SignPages (ops-sign.c): each page has the title and a line of each signer *)
(* that has got to it, whatever the order.                                 *)
(***************************************************************************)

\* The signers are processes other than the first.
LEMMA SignNumbers ==
  /\ Signers \in Nat /\ Pages \in Nat /\ 0 \in Procs
  /\ \A s \in Sign!Signer : s \in Procs /\ s # 0 /\ s \in Nat /\ s \in 0 .. Signers
  /\ \A p \in 1 .. Pages : p \in Nat /\ p # 0
  /\ \A n \in 0 .. Pages : n \in Nat
  /\ 0 \in 0 .. Signers /\ 0 \in 0 .. Pages
  /\ IsFiniteSet(Sign!Signer) /\ Cardinality(Sign!Signer) = Signers
  /\ \A S : Sign!Cardinality(S) = Cardinality(S)
<1>1. \A S : Sign!Cardinality(S) = Cardinality(S) BY DEF Sign!Cardinality, Cardinality
<1> USE ProcsAssumption, ExercisesAssumption DEF Sign!SignersConstants, Sign!Signer
<1>2. IsFiniteSet(Sign!Signer) /\ Cardinality(Sign!Signer) = Signers
  BY FS_Interval
<1> QED BY <1>1, <1>2

\* A process that moves.
LEMMA SignPlaces ==
  ASSUME Sign!MemOK, NEW p \in Procs, NEW to \in Sign!Places
  PROVE  [at EXCEPT ![p] = to] \in [Procs -> Sign!Places]
BY DEF Sign!MemOK, Sign!Memory

\* A line is added at the end of a page.
LEMMA SignAppend ==
  ASSUME NEW S, NEW q \in Seq(S), NEW e \in S
  PROVE  /\ Append(q, e) \in Seq(S) /\ Len(q) \in Nat /\ Len(Append(q, e)) = Len(q) + 1
         /\ Append(q, e)[Len(q) + 1] = e /\ \A l \in 1 .. Len(q) : Append(q, e)[l] = q[l]
OBVIOUS

\* A step that leaves page p alone.
LEMMA SignFrame ==
  ASSUME NEW p \in 1 .. Pages, Sign!PageInv(p), mem'.pages[p] = mem.pages[p],
         \A s \in Sign!Signer : mem'.signed[s] >= p <=> mem.signed[s] >= p
  PROVE  Sign!PageInv(p)'
<1>1. {s \in Sign!Signer : mem'.signed[s] >= p} = {s \in Sign!Signer : mem.signed[s] >= p}
  OBVIOUS
<1>2. \A s \in Sign!Signer : Sign!LinesOf(s, p)' = Sign!LinesOf(s, p) BY DEF Sign!LinesOf
<1> QED BY <1>1, <1>2 DEF Sign!PageInv

\* The first process begins with no files and no signers.
LEMMA SignInit == ASSUME Sign!Init PROVE Sign!IndInv
<1> USE SignNumbers DEF Sign!Init, Sign!OnlyFirst
<1>1. Sign!MemOK BY DEF Sign!MemOK, Sign!Memory, Sign!Places
<1>2. ASSUME NEW s \in Sign!Signer PROVE Sign!SignerInv(s) BY DEF Sign!SignerInv
<1> QED BY <1>1, <1>2 DEF Sign!IndInv

\* A step that leaves the signatures alone, and reaps nobody.
LEMMA SignMove ==
  ASSUME Sign!IndInv, Sign!MemOK', at[0] # "files", at'[0] \notin {"files", "done"},
         at'[0] \in {"clobbered", "zombie"} => at'[0] = at[0],
         mem'.pages = mem.pages, mem'.left = mem.left, mem'.signed = mem.signed,
         at[0] # "done",
         \A s \in Sign!Signer :
           at'[s] = at[s] \/ (at[s] # "reaped" /\ at'[s] # "reaped" /\ Sign!SignerInv(s)')
  PROVE  Sign!IndInv'
<1> USE DEF Sign!IndInv
<1>1. ASSUME NEW s \in Sign!Signer PROVE Sign!SignerInv(s)'
  BY <1>1 DEF Sign!SignerInv
<1>2. ASSUME NEW p \in 1 .. Pages PROVE Sign!PageInv(p)'
  BY <1>2, SignFrame
<1>3. {s \in Sign!Signer : at'[s] # "reaped"} = {s \in Sign!Signer : at[s] # "reaped"}
  OBVIOUS
<1>4. Sign!LeftInv' BY <1>3 DEF Sign!LeftInv
<1> QED BY <1>1, <1>2, <1>4

\* A step of the first process: it makes files, forks, starts or reaps.
LEMMA SignFirst ==
  ASSUME Sign!IndInv, Sign!Step(0)
  PROVE  Sign!IndInv'
<1> USE SignNumbers DEF Sign!Move
<1>m. Sign!MemOK BY DEF Sign!IndInv
<1>1. CASE Sign!CreateFiles
  <2>1. /\ at[0] = "files" /\ at' = [at EXCEPT ![0] = "fork"]
        /\ mem' = [mem EXCEPT !.pages = [p \in 1 .. Pages |-> <<0>>], !.left = Signers]
    BY <1>1 DEF Sign!CreateFiles
  <2>2. Sign!MemOK'
    <3>1. [p \in 1 .. Pages |-> <<0>>] \in [1 .. Pages -> Seq(0 .. Signers)] OBVIOUS
    <3>2. mem' \in Sign!Memory BY <1>m, <2>1, <3>1 DEF Sign!MemOK, Sign!Memory
    <3> QED BY <1>m, <2>1, <3>2 DEF Sign!MemOK, Sign!Places
  <2>3. \A s \in Sign!Signer : at[s] = "none" /\ at'[s] = "none" /\ mem.signed[s] = 0
                               /\ mem'.signed[s] = 0
    BY <1>m, <2>1 DEF Sign!IndInv, Sign!SignerInv, Sign!MemOK, Sign!Memory
  <2>4. ASSUME NEW s \in Sign!Signer PROVE Sign!SignerInv(s)'
    BY <1>m, <2>1, <2>3 DEF Sign!SignerInv, Sign!MemOK, Sign!Memory
  <2>5. Sign!LeftInv'
    <3>1. {s \in Sign!Signer : at'[s] # "reaped"} = Sign!Signer BY <2>3
    <3>2. mem'.left = Signers /\ at'[0] = "fork" BY <1>m, <2>1 DEF Sign!MemOK, Sign!Memory
    <3> QED BY <3>1, <3>2 DEF Sign!LeftInv
  <2>6. ASSUME NEW p \in 1 .. Pages PROVE Sign!PageInv(p)'
    <3>1. mem'.pages[p] = <<0>> BY <1>m, <2>1 DEF Sign!MemOK, Sign!Memory
    <3>2. {s \in Sign!Signer : mem'.signed[s] >= p} = {} BY <2>3
    <3>3. \A s \in Sign!Signer : Sign!LinesOf(s, p)' = {} BY <3>1 DEF Sign!LinesOf
    <3>4. Len(mem'.pages[p]) = 1 /\ mem'.pages[p][1] = 0 BY <3>1
    <3>5. \A s \in Sign!Signer : ~(mem'.signed[s] >= p) BY <3>2
    <3>6. 2 .. Len(mem'.pages[p]) = {} BY <3>4
    <3>7. Cardinality({s \in Sign!Signer : mem'.signed[s] >= p}) = 0
          /\ \A s \in Sign!Signer : Cardinality(Sign!LinesOf(s, p)') = 0
      BY <3>2, <3>3, FS_EmptySet
    <3>8. Len(mem'.pages[p]) = 1 + Cardinality({s \in Sign!Signer : mem'.signed[s] >= p})
      BY <3>4, <3>7
    <3> QED BY <3>4, <3>5, <3>6, <3>7, <3>8 DEF Sign!PageInv
  <2> QED BY <2>2, <2>4, <2>5, <2>6 DEF Sign!IndInv
<1>2. ASSUME NEW s \in Sign!Signer, Sign!Fork(s) PROVE Sign!IndInv'
  <2>1. /\ at[0] = "fork" /\ at[s] = "none" /\ mem' = mem
        /\ at' = [at EXCEPT ![s] = "test", ![0] = IF s = Signers THEN "start" ELSE "fork"]
    BY <1>2 DEF Sign!Fork
  <2>2. Sign!MemOK' BY <1>m, <2>1 DEF Sign!MemOK, Sign!Memory, Sign!Places
  <2>3. Sign!SignerInv(s)'
    BY <1>m, <2>1 DEF Sign!IndInv, Sign!SignerInv, Sign!MemOK, Sign!Memory
  <2>4. \A t \in Sign!Signer \ {s} : at'[t] = at[t] BY <1>m, <2>1 DEF Sign!MemOK, Sign!Memory
  <2> QED BY <1>m, <2>1, <2>2, <2>3, <2>4, SignMove DEF Sign!MemOK, Sign!Memory
<1>3. CASE Sign!Start \/ Sign!SomeLeft \/ Sign!Suspend
  <2>1. PICK to \in {"test", "start", "tested", "suspended"} :
        /\ at[0] \in {"start", "test", "tested"} /\ at' = [at EXCEPT ![0] = to]
        /\ mem' = mem \/ mem' = [mem EXCEPT !.sent = @ + 1]
    BY <1>3 DEF Sign!Start, Sign!SomeLeft, Sign!Suspend
  <2>2. Sign!MemOK'
    <3>1. CASE mem' = mem BY <1>m, <2>1, <3>1 DEF Sign!MemOK, Sign!Memory, Sign!Places
    <3>2. CASE mem' = [mem EXCEPT !.sent = @ + 1]
      <4>1. mem.sent + 1 \in Nat BY <1>m DEF Sign!MemOK, Sign!Memory
      <4>2. mem' \in Sign!Memory BY <1>m, <3>2, <4>1 DEF Sign!MemOK, Sign!Memory
      <4> QED BY <1>m, <2>1, <4>2 DEF Sign!MemOK, Sign!Places
    <3> QED BY <2>1, <3>1, <3>2
  <2>3. \A t \in Sign!Signer : at'[t] = at[t] BY <1>m, <2>1 DEF Sign!MemOK, Sign!Memory
  <2>4. mem'.pages = mem.pages /\ mem'.left = mem.left /\ mem'.signed = mem.signed
    BY <1>m, <2>1 DEF Sign!MemOK, Sign!Memory
  <2> QED BY <1>m, <2>1, <2>2, <2>3, <2>4, SignMove DEF Sign!MemOK, Sign!Memory
<1>4. CASE Sign!ReapAll
  <2> DEFINE ended == {s \in Sign!Signer : at[s] = "zombie"}
             Left == {s \in Sign!Signer : at[s] # "reaped"}
  <2>1. /\ at[0] \notin {"files", "done", "zombie"}
        /\ at' = [p \in Procs |-> IF p = 0 THEN Sign!After(ended)
                                  ELSE IF p \in ended THEN "reaped" ELSE at[p]]
        /\ mem' = [mem EXCEPT !.left = @ - Cardinality(ended)]
    BY <1>4 DEF Sign!ReapAll
  <2>2. /\ \A s \in Sign!Signer : at'[s] = IF at[s] = "zombie" THEN "reaped" ELSE at[s]
        /\ at'[0] \in {at[0], "woken", "clobbered"}
        /\ at'[0] = "clobbered" => at[0] = "clobbered" \/ Left \subseteq ended
        /\ \A p \in Procs \ {0} : at'[p] \in {at[p], "reaped"}
    <3>1. /\ Sign!After(ended) \in {at[0], "woken", "clobbered"}
          /\ Sign!After(ended) = "clobbered" => at[0] = "clobbered" \/ Left \subseteq ended
      BY DEF Sign!After
    <3> QED BY <1>m, <2>1, <3>1 DEF Sign!MemOK, Sign!Memory
  <2>3. {s \in Sign!Signer : at'[s] # "reaped"} = Left \ ended
    BY <2>2
  <2>4. /\ Cardinality(Left \ ended) = Cardinality(Left) - Cardinality(ended)
        /\ Cardinality(Left \ ended) \in Nat
    <3>1. IsFiniteSet(Left) BY FS_Subset
    <3>2. Left \cap ended = ended OBVIOUS
    <3> QED BY <3>1, <3>2, FS_Difference, FS_CardinalityType
  <2>5. mem.left = Cardinality(Left) BY <2>1 DEF Sign!IndInv, Sign!LeftInv
  <2> HIDE DEF ended, Left
  <2>6. mem.left - Cardinality(ended) \in Nat BY <2>4, <2>5
  <2>7. mem'.left = Cardinality(Left \ ended) /\ mem'.pages = mem.pages /\ mem'.signed = mem.signed
    BY <1>m, <2>1, <2>4, <2>5 DEF Sign!MemOK, Sign!Memory
  <2>8. Sign!MemOK'
    <3>1. at' \in [Procs -> Sign!Places]
      BY <1>m, <2>1, <2>2 DEF Sign!MemOK, Sign!Memory, Sign!Places
    <3>2. mem' = [mem EXCEPT !.left = mem'.left] /\ mem'.left \in Nat
      BY <1>m, <2>1, <2>4, <2>7 DEF Sign!MemOK, Sign!Memory
    <3>3. mem' \in Sign!Memory BY <1>m, <3>2 DEF Sign!MemOK, Sign!Memory
    <3> QED BY <1>m, <2>1, <2>2, <3>1, <3>3 DEF Sign!MemOK
  <2>9. ASSUME NEW s \in Sign!Signer PROVE Sign!SignerInv(s)'
    BY <1>m, <2>1, <2>2, <2>7 DEF Sign!IndInv, Sign!SignerInv
  <2>10. ASSUME NEW p \in 1 .. Pages PROVE Sign!PageInv(p)'
    BY <2>1, <2>7, SignFrame DEF Sign!IndInv
  <2>11. Sign!LeftInv'
    <3>1. at'[0] \in {"clobbered", "zombie"} => mem'.left = 0
      <4>1. CASE Left \subseteq ended
        <5>1. Left \ ended = {} BY <4>1
        <5> QED BY <2>7, <5>1, FS_EmptySet
      <4>2. CASE at[0] = "clobbered"
        <5>1. mem.left = 0 BY <2>1, <4>2 DEF Sign!IndInv, Sign!LeftInv
        <5>2. Cardinality(ended) \in Nat
          <6>1. IsFiniteSet(ended) BY FS_Subset DEF ended
          <6> QED BY <6>1, FS_CardinalityType
        <5> QED BY <2>4, <2>5, <2>7, <5>1, <5>2
      <4> QED BY <2>1, <2>2, <4>1, <4>2
    <3> QED BY <2>1, <2>2, <2>3, <2>7, <3>1 DEF Sign!LeftInv, Left
  <2> QED BY <2>8, <2>9, <2>10, <2>11 DEF Sign!IndInv
<1>5. CASE Sign!PrintSignatures
  <2>1. /\ at[0] = "test" /\ at' = [at EXCEPT ![0] = "done"] /\ mem.left = 0
        /\ mem' = [mem EXCEPT !.shown = [p \in 1 .. Pages |-> mem.pages[p][Len(mem.pages[p])]]]
    BY <1>5 DEF Sign!PrintSignatures
  <2>2. \A s \in Sign!Signer : at[s] = "reaped" /\ at'[s] = "reaped" /\ mem.signed[s] = Pages
    <3>1. IsFiniteSet({s \in Sign!Signer : at[s] # "reaped"}) BY FS_Subset
    <3>2. {s \in Sign!Signer : at[s] # "reaped"} = {}
      BY <2>1, <3>1, FS_EmptySet DEF Sign!IndInv, Sign!LeftInv
    <3> QED BY <1>m, <2>1, <3>2 DEF Sign!MemOK, Sign!Memory, Sign!IndInv, Sign!SignerInv
  <2>3. ASSUME NEW p \in 1 .. Pages PROVE mem.pages[p][Len(mem.pages[p])] \in Sign!Signer
    <3>1. {s \in Sign!Signer : mem.signed[s] >= p} = Sign!Signer BY <2>2
    <3>2. Len(mem.pages[p]) = 1 + Signers BY <2>1, <3>1 DEF Sign!IndInv, Sign!PageInv
    <3>3. Signers >= 1 BY ExercisesAssumption DEF Sign!SignersConstants
    <3>4. Len(mem.pages[p]) \in 2 .. Len(mem.pages[p]) BY <3>2, <3>3
    <3> QED BY <2>1, <3>4 DEF Sign!IndInv, Sign!PageInv
  <2>4. Sign!MemOK'
    <3>1. [p \in 1 .. Pages |-> mem.pages[p][Len(mem.pages[p])]] \in [1 .. Pages -> 0 .. Signers]
      BY <2>3
    <3>2. mem' \in Sign!Memory BY <1>m, <2>1, <3>1 DEF Sign!MemOK, Sign!Memory
    <3> QED BY <1>m, <2>1, <3>2 DEF Sign!MemOK, Sign!Places
  <2>5. mem'.left = mem.left /\ mem'.pages = mem.pages /\ mem'.signed = mem.signed
        /\ \A p \in 1 .. Pages : mem'.shown[p] = mem.pages[p][Len(mem.pages[p])]
    BY <1>m, <2>1 DEF Sign!MemOK, Sign!Memory
  <2>6. ASSUME NEW s \in Sign!Signer PROVE Sign!SignerInv(s)'
    BY <1>m, <2>1, <2>2, <2>5 DEF Sign!SignerInv, Sign!MemOK, Sign!Memory
  <2>7. ASSUME NEW p \in 1 .. Pages PROVE Sign!PageInv(p)'
    BY <2>1, <2>5, SignFrame DEF Sign!IndInv
  <2>8. Sign!LeftInv'
    <3>1. {s \in Sign!Signer : at'[s] # "reaped"} = {s \in Sign!Signer : at[s] # "reaped"}
      BY <2>2
    <3> QED BY <2>1, <2>3, <2>5, <3>1 DEF Sign!IndInv, Sign!LeftInv
  <2> QED BY <2>4, <2>6, <2>7, <2>8 DEF Sign!IndInv
<1>6. CASE Sign!Resume \/ Sign!Fails
  <2>1. PICK to \in {"test", "zombie"} :
          at[0] \in {"woken", "clobbered"} /\ at' = [at EXCEPT ![0] = to] /\ mem' = mem
          /\ (to = "zombie" => at[0] = "clobbered")
    BY <1>6 DEF Sign!Resume, Sign!Fails
  <2>2. Sign!MemOK' BY <1>m, <2>1 DEF Sign!MemOK, Sign!Memory, Sign!Places
  <2>3. (\A s \in Sign!Signer : at'[s] = at[s]) /\ at'[0] = to
    BY <1>m, <2>1 DEF Sign!MemOK, Sign!Memory
  <2>4. ASSUME NEW s \in Sign!Signer PROVE Sign!SignerInv(s)'
    BY <2>1, <2>3 DEF Sign!IndInv, Sign!SignerInv
  <2>5. ASSUME NEW p \in 1 .. Pages PROVE Sign!PageInv(p)'
    BY <2>1, SignFrame DEF Sign!IndInv
  <2>6. {s \in Sign!Signer : at'[s] # "reaped"} = {s \in Sign!Signer : at[s] # "reaped"} BY <2>3
  <2>7. Sign!LeftInv' BY <2>1, <2>3, <2>6 DEF Sign!IndInv, Sign!LeftInv
  <2> QED BY <2>2, <2>4, <2>5, <2>7 DEF Sign!IndInv
<1> QED BY <1>1, <1>2, <1>3, <1>4, <1>5, <1>6 DEF Sign!Step

\* A step of a signer: it adds its line to the next page, or ends.
LEMMA SignSigner ==
  ASSUME Sign!IndInv, NEW s \in Sign!Signer, Sign!Step(s)
  PROVE  Sign!IndInv'
<1> USE SignNumbers DEF Sign!Move
<1>m. Sign!MemOK /\ Sign!SignerInv(s) BY DEF Sign!IndInv
<1>1. at[0] # "files" /\ at[0] # "done"
  <2>1. at[s] \in {"test", "suspended", "sign"}
    BY DEF Sign!Step, Sign!WaitForStart, Sign!Started, Sign!Sign, Sign!SignerEnds, Sign!Exit
  <2>2. at[0] # "files" BY <1>m, <2>1 DEF Sign!SignerInv
  <2>3. ASSUME at[0] = "done" PROVE FALSE
    <3>1. IsFiniteSet({t \in Sign!Signer : at[t] # "reaped"}) BY FS_Subset
    <3> QED BY <2>1, <2>3, <3>1, FS_EmptySet DEF Sign!IndInv, Sign!LeftInv
  <2> QED BY <2>2, <2>3
<1>2. CASE Sign!WaitForStart(s) \/ Sign!Started(s) \/ Sign!SignerEnds(s)
  <2>1. PICK to \in {"sign", "suspended", "test", "zombie"} :
        /\ at' = [at EXCEPT ![s] = to] /\ at[s] # "reaped"
        /\ mem' = mem \/ mem' = [mem EXCEPT !.start[s] = TRUE]
        /\ to \in {"suspended", "test"} => mem.signed[s] = 0
        /\ to = "zombie" => mem.signed[s] = Pages
    BY <1>2, <1>m DEF Sign!WaitForStart, Sign!Started, Sign!SignerEnds, Sign!Exit, Sign!SignerInv
  <2>2. Sign!MemOK'
    <3>1. CASE mem' = mem BY <1>m, <2>1, <3>1 DEF Sign!MemOK, Sign!Memory, Sign!Places
    <3>2. CASE mem' = [mem EXCEPT !.start[s] = TRUE]
      BY <1>m, <2>1, <3>2 DEF Sign!MemOK, Sign!Memory, Sign!Places
    <3> QED BY <2>1, <3>1, <3>2
  <2>3. \A t \in Sign!Signer : t # s => at'[t] = at[t] BY <1>m, <2>1 DEF Sign!MemOK, Sign!Memory
  <2>4. mem'.pages = mem.pages /\ mem'.left = mem.left /\ mem'.signed = mem.signed
    BY <1>m, <2>1 DEF Sign!MemOK, Sign!Memory
  <2>5. at'[0] = at[0] /\ at'[s] = to BY <1>m, <2>1 DEF Sign!MemOK, Sign!Memory
  <2>6. Sign!SignerInv(s)' BY <1>m, <1>1, <2>1, <2>4, <2>5 DEF Sign!SignerInv
  <2> QED BY <1>1, <2>1, <2>2, <2>3, <2>4, <2>5, <2>6, SignMove
<1>3. CASE Sign!Sign(s)
  <2>0. PICK q \in 1 .. Pages : q = mem.signed[s] + 1
    BY <1>m, <1>3 DEF Sign!Sign, Sign!MemOK, Sign!Memory
  <2>1. /\ at[s] = "sign" /\ at' = at
        /\ mem'.signed = [mem.signed EXCEPT ![s] = q]
        /\ mem'.pages = [mem.pages EXCEPT ![q] = Append(@, s)]
        /\ mem'.left = mem.left
        /\ mem' = [mem EXCEPT !.signed = mem'.signed, !.pages = mem'.pages]
    BY <1>m, <1>3, <2>0 DEF Sign!Sign, Sign!MemOK, Sign!Memory
  <2>2. Sign!MemOK'
    <3>1. mem'.signed \in [Sign!Signer -> 0 .. Pages]
      BY <1>m, <2>0, <2>1 DEF Sign!MemOK, Sign!Memory
    <3>2. Append(mem.pages[q], s) \in Seq(0 .. Signers) BY <1>m DEF Sign!MemOK, Sign!Memory
    <3>3. mem'.pages \in [1 .. Pages -> Seq(0 .. Signers)]
      BY <1>m, <2>1, <3>2 DEF Sign!MemOK, Sign!Memory
    <3> QED BY <1>m, <2>1, <3>1, <3>3 DEF Sign!MemOK, Sign!Memory
  <2>3. ASSUME NEW t \in Sign!Signer PROVE Sign!SignerInv(t)'
    <3>1. t # s => mem'.signed[t] = mem.signed[t] BY <1>m, <2>1 DEF Sign!MemOK, Sign!Memory
    <3> QED BY <1>1, <2>1, <3>1 DEF Sign!IndInv, Sign!SignerInv
  <2>4. Sign!LeftInv' BY <1>1, <2>1 DEF Sign!IndInv, Sign!LeftInv
  <2>5. ASSUME NEW p \in 1 .. Pages PROVE Sign!PageInv(p)'
    <3> DEFINE Got == {t \in Sign!Signer : mem.signed[t] >= p}
    <3>0. Sign!PageInv(p) BY <1>1 DEF Sign!IndInv
    <3>1. \A t \in Sign!Signer : mem'.signed[t] = IF t = s THEN q ELSE mem.signed[t]
      BY <1>m, <2>1 DEF Sign!MemOK, Sign!Memory
    <3>2. CASE p # q
      <4>1. mem'.pages[p] = mem.pages[p] BY <1>m, <2>1, <3>2 DEF Sign!MemOK, Sign!Memory
      <4>2. \A t \in Sign!Signer : mem'.signed[t] >= p <=> mem.signed[t] >= p
        <5>1. mem.signed[s] \in Nat /\ p \in Nat BY <1>m DEF Sign!MemOK, Sign!Memory
        <5>2. mem.signed[s] + 1 # p => (mem.signed[s] + 1 >= p <=> mem.signed[s] >= p) BY <5>1
        <5> QED BY <2>0, <3>1, <3>2, <5>2
      <4> QED BY <3>0, <4>1, <4>2, SignFrame
    <3>3. CASE p = q
      <4> DEFINE page == mem.pages[p]
                 n == Len(page)
      <4>1. page \in Seq(0 .. Signers) /\ n \in Nat /\ n >= 1 /\ IsFiniteSet(Got)
            /\ Cardinality(Got) \in Nat /\ n = 1 + Cardinality(Got)
        <5>1. IsFiniteSet(Got) BY FS_Subset
        <5> QED BY <1>m, <3>0, <5>1, FS_CardinalityType DEF Sign!MemOK, Sign!Memory, Sign!PageInv
      <4>2. mem'.pages[p] = Append(page, s) BY <1>m, <2>1, <3>3 DEF Sign!MemOK, Sign!Memory
      <4>3. /\ Len(mem'.pages[p]) = n + 1 /\ mem'.pages[p][n + 1] = s
            /\ \A l \in 1 .. n : mem'.pages[p][l] = page[l]
        <5>1. page \in Seq(0 .. Signers) /\ s \in 0 .. Signers BY <4>1
        <5>2. /\ Len(Append(page, s)) = n + 1 /\ Append(page, s)[n + 1] = s
              /\ \A l \in 1 .. n : Append(page, s)[l] = page[l]
          BY <5>1, SignAppend
        <5> QED BY <4>2, <5>2
      <4>4. ~(mem.signed[s] >= p) /\ mem'.signed[s] >= p
        BY <1>m, <2>0, <3>1, <3>3 DEF Sign!MemOK, Sign!Memory
      <4>5. {t \in Sign!Signer : mem'.signed[t] >= p} = Got \cup {s} BY <3>1, <4>4
      <4>6. Cardinality(Got \cup {s}) = Cardinality(Got) + 1 BY <4>1, <4>4, FS_AddElement
      <4>7. Len(mem'.pages[p]) = 1 + Cardinality({t \in Sign!Signer : mem'.signed[t] >= p})
        <5>1. Cardinality({t \in Sign!Signer : mem'.signed[t] >= p}) = Cardinality(Got) + 1
          BY <4>5, <4>6
        <5>2. n + 1 = 1 + (Cardinality(Got) + 1)
          <6> HIDE DEF Got, page, n
          <6> QED BY <4>1
        <5> QED BY <4>3, <5>1, <5>2
      <4>8. mem'.pages[p][1] = 0 /\ \A l \in 2 .. Len(mem'.pages[p]) : mem'.pages[p][l] \in Sign!Signer
        <5>1. page[1] = 0 /\ \A l \in 2 .. n : page[l] \in Sign!Signer BY <3>0 DEF Sign!PageInv
        <5> DEFINE after == mem'.pages[p]
        <5>2. /\ Len(after) = n + 1 /\ after[n + 1] = s
              /\ \A l \in 1 .. n : after[l] = page[l]
          BY <4>3
        <5>3. n \in Nat /\ n >= 1 BY <4>1
        <5> HIDE DEF Got, page, n, after
        <5>4. after[1] = 0 /\ \A l \in 2 .. Len(after) : after[l] \in Sign!Signer
          BY <5>1, <5>2, <5>3
        <5> USE DEF after
        <5> QED BY <5>4
      <4>9. ASSUME NEW t \in Sign!Signer
            PROVE  Cardinality(Sign!LinesOf(t, p)') = IF mem'.signed[t] >= p THEN 1 ELSE 0
        <5>1. Sign!LinesOf(t, p) \subseteq 2 .. n BY DEF Sign!LinesOf
        <5>2. Sign!LinesOf(t, p)' = Sign!LinesOf(t, p) \cup (IF t = s THEN {n + 1} ELSE {})
          <6>1. Sign!LinesOf(t, p) = {l \in 2 .. n : page[l] = t} BY DEF Sign!LinesOf
          <6>2. Sign!LinesOf(t, p)' = {l \in 2 .. n + 1 : mem'.pages[p][l] = t}
            BY <4>3 DEF Sign!LinesOf
          <6> DEFINE after == mem'.pages[p]
          <6>3. after[n + 1] = s /\ \A l \in 1 .. n : after[l] = page[l] BY <4>3
          <6>4. n \in Nat /\ n >= 1 BY <4>1
          <6> HIDE DEF page, n, Got, after
          <6>5. {l \in 2 .. n + 1 : after[l] = t}
                  = {l \in 2 .. n : page[l] = t} \cup (IF t = s THEN {n + 1} ELSE {})
            BY <6>3, <6>4
          <6> USE DEF after
          <6> QED BY <6>1, <6>2, <6>5
        <5>3. IsFiniteSet(Sign!LinesOf(t, p))
          <6> HIDE DEF page, n, Got
          <6>1. IsFiniteSet(2 .. n) BY <4>1, FS_Interval
          <6> QED BY <5>1, <6>1, FS_Subset
        <5>4. Cardinality(Sign!LinesOf(t, p)) = IF mem.signed[t] >= p THEN 1 ELSE 0
          BY <3>0 DEF Sign!PageInv
        <5>5. CASE t = s
          <6>1. n + 1 \notin Sign!LinesOf(t, p)
            <7> HIDE DEF page, n, Got
            <7> QED BY <4>1, <5>1
          <6>2. Sign!LinesOf(t, p)' = Sign!LinesOf(t, p) \cup {n + 1} BY <5>2, <5>5
          <6>3. Cardinality(Sign!LinesOf(t, p)') = Cardinality(Sign!LinesOf(t, p)) + 1
            BY <5>3, <6>1, <6>2, FS_AddElement
          <6> QED BY <4>4, <5>4, <5>5, <6>3
        <5>6. CASE t # s
          <6>1. Sign!LinesOf(t, p)' = Sign!LinesOf(t, p) BY <5>2, <5>6
          <6> QED BY <3>1, <5>4, <5>6, <6>1
        <5> QED BY <5>5, <5>6
      <4> QED BY <4>7, <4>8, <4>9 DEF Sign!PageInv
    <3> QED BY <3>2, <3>3
  <2> QED BY <2>2, <2>3, <2>4, <2>5 DEF Sign!IndInv
<1> QED BY <1>2, <1>3 DEF Sign!Step

\* What the invariant says of the signers and the pages.
LEMMA SignInvariant ==
  ASSUME Sign!IndInv
  PROVE  Sign!AllReaped /\ Sign!PagesSigned
<1> USE SignNumbers DEF Sign!IndInv
<1>1. Sign!AllReaped BY DEF Sign!AllReaped, Sign!LeftInv
<1>2. Sign!PagesSigned
  <2>1. ASSUME at[0] = "done", NEW p \in 1 .. Pages PROVE Len(mem.pages[p]) = Signers + 1
    <3>1. IsFiniteSet({s \in Sign!Signer : at[s] # "reaped"}) BY FS_Subset
    <3>2. \A s \in Sign!Signer : at[s] = "reaped" BY <2>1, <3>1, FS_EmptySet DEF Sign!LeftInv
    <3>3. {s \in Sign!Signer : mem.signed[s] >= p} = Sign!Signer BY <3>2 DEF Sign!SignerInv
    <3> QED BY <2>1, <3>3 DEF Sign!PageInv, Sign!MemOK
  <2> QED BY <2>1 DEF Sign!PagesSigned, Sign!LeftInv, Sign!PageInv, Sign!LinesOf
<1> QED BY <1>1, <1>2

-----------------------------------------------------------------------------
(***************************************************************************)
(* ProcessTree (lab.c): what a process has awaited are its reaped children. *)
(***************************************************************************)

\* The nodes are those of a binary tree.
LEMMA TreeShape ==
  /\ Tree!Group \subseteq Procs /\ 0 \in Tree!Group
  /\ Tree!Group \subseteq Tree!Nodes /\ Tree!Nodes \subseteq Procs
  /\ \A p \in Tree!Group :
       /\ Tree!Left(p) \in Procs /\ Tree!Right(p) \in Procs
       /\ Tree!Left(p) # Tree!Right(p) /\ Tree!Left(p) # p /\ Tree!Right(p) # p
       /\ Tree!Left(p) # 0 /\ Tree!Right(p) # 0
       /\ Tree!Children(p) = {Tree!Left(p), Tree!Right(p)}
  /\ \A p, q \in Tree!Group :
       /\ Tree!Left(p) # Tree!Right(q)
       /\ p # q => Tree!Left(p) # Tree!Left(q) /\ Tree!Right(p) # Tree!Right(q)
  /\ \A S : Tree!Cardinality(S) = Cardinality(S)
<1>1. \A S : Tree!Cardinality(S) = Cardinality(S) BY DEF Tree!Cardinality, Cardinality
<1>2. Inner \in Nat \ {0} /\ 0 .. 2 * Inner \subseteq Procs
  BY ExercisesAssumption DEF Tree!TreeConstants
<1> USE <1>2 DEF Tree!Group, Tree!Left, Tree!Right, Tree!Children
<1>3. ASSUME NEW p \in Tree!Group
      PROVE  p \in 0 .. 2 * Inner /\ 2 * p + 1 \in 0 .. 2 * Inner /\ 2 * p + 2 \in 0 .. 2 * Inner
  OBVIOUS
<1>4. ASSUME NEW p \in Tree!Group, NEW q \in Tree!Group
      PROVE  /\ Tree!Left(p) # Tree!Right(q)
             /\ p # q => Tree!Left(p) # Tree!Left(q) /\ Tree!Right(p) # Tree!Right(q)
  OBVIOUS
<1>5. Tree!Group \subseteq Tree!Nodes /\ Tree!Nodes \subseteq Procs BY DEF Tree!Nodes
<1> QED BY <1>1, <1>3, <1>4, <1>5

\* The root begins alone.
LEMMA TreeInit == ASSUME Tree!Init PROVE Tree!IndInv
<1> USE TreeShape DEF Tree!Init, Tree!OnlyFirst
<1>1. PICK once \in SUBSET Tree!Signals :
        mem = [awaited |-> [p \in Tree!Group |-> 0], calls |-> [s \in Tree!Signals |-> 0],
               once |-> once, caught |-> [p \in Tree!Group |-> Tree!Signals],
               asked |-> FALSE, killed |-> {}, shot |-> {}]
  OBVIOUS
<1>2. mem \in Tree!Memory BY <1>1 DEF Tree!Memory
<1>3. at \in [Procs -> Tree!Places] BY DEF Tree!Places
<1>4. ASSUME NEW p \in Tree!Group PROVE Tree!NodeInv(p)
  BY <1>1 DEF Tree!NodeInv, Tree!Ended
<1> QED BY <1>1, <1>2, <1>3, <1>4 DEF Tree!IndInv

\* A step that reaps nobody.
LEMMA TreeUser == ASSUME Tree!IndInv, Tree!User PROVE Tree!IndInv'
<1> USE DEF Tree!IndInv
<1>1. at' = at /\ mem' = [mem EXCEPT !.asked = TRUE] BY DEF Tree!User, Tree!UserSignal
<1>2. mem' \in Tree!Memory BY <1>1 DEF Tree!Memory
<1>3. mem'.awaited = mem.awaited /\ mem'.once = mem.once /\ mem'.caught = mem.caught
      /\ mem'.killed = mem.killed /\ mem'.shot = mem.shot
  BY <1>1 DEF Tree!Memory
<1>4. ASSUME NEW p \in Tree!Group PROVE Tree!NodeInv(p)'
  BY <1>1, <1>3 DEF Tree!NodeInv, Tree!Ended
<1> QED BY <1>1, <1>2, <1>3, <1>4

\* A step of one process changes its own place and that of a child.
LEMMA TreeStep ==
  ASSUME Tree!IndInv, NEW p \in Procs, Tree!Step(p)
  PROVE  Tree!IndInv'
<1> USE TreeShape DEF Tree!IndInv, Tree!Move
<1>1. ASSUME NEW child, NEW to \in {"right", "wait"}, p \in Tree!Group,
             \/ child = Tree!Left(p) /\ at[p] = "left" /\ to = "right"
             \/ child = Tree!Right(p) /\ at[p] = "right" /\ to = "wait",
             at' = [at EXCEPT ![p] = to, ![child] = IF child \in Tree!Group THEN "left" ELSE "leaf"],
             mem' = IF child \in Tree!Group THEN [mem EXCEPT !.caught[child] = mem.caught[p]] ELSE mem
      PROVE  Tree!IndInv'
  <2>1. at' \in [Procs -> Tree!Places] BY <1>1 DEF Tree!Places
  <2>2. mem' \in Tree!Memory BY <1>1 DEF Tree!Memory
  <2>3. mem'.awaited = mem.awaited /\ mem'.once = mem.once /\ mem'.killed = mem.killed
        /\ mem'.shot = mem.shot
        /\ \A q \in Tree!Group : mem'.caught[q] = IF q = child THEN mem.caught[p] ELSE mem.caught[q]
    BY <1>1 DEF Tree!Memory
  <2>4. at[child] = "none" BY <1>1 DEF Tree!NodeInv
  <2>5. ASSUME NEW q \in Tree!Group PROVE Tree!NodeInv(q)'
    <3>1. Tree!NodeInv(q) /\ Tree!NodeInv(p) BY <1>1
    <3>2. /\ at'[q] = IF q = child THEN "left" ELSE IF q = p THEN to ELSE at[q]
          /\ \A c \in {Tree!Left(q), Tree!Right(q)} :
               at'[c] = IF c = child THEN (IF child \in Tree!Group THEN "left" ELSE "leaf")
                        ELSE IF c = p THEN to ELSE at[c]
      BY <1>1
    <3> QED BY <1>1, <2>3, <2>4, <3>1, <3>2 DEF Tree!NodeInv, Tree!Ended
  <2>6. at'[0] # "clobbered" /\ (mem'.killed # {} => mem'.once # {} \/ mem'.shot # {})
    BY <1>1, <2>3
  <2> QED BY <2>1, <2>2, <2>5, <2>6
<1>2. CASE p \in Tree!Group /\ Tree!Wait(p)
  <2>1. PICK c \in {Tree!Left(p), Tree!Right(p)} :
          /\ at[p] = "wait" /\ at[c] = "zombie" /\ at' = [at EXCEPT ![c] = "reaped"]
          /\ mem' = [mem EXCEPT !.awaited[p] = @ + 1]
    <3>1. /\ at[p] = "wait" /\ mem' = [mem EXCEPT !.awaited[p] = @ + 1]
          /\ \E c \in Tree!Children(p) : at[c] = "zombie" /\ at' = [at EXCEPT ![c] = "reaped"]
      BY <1>2 DEF Tree!Wait
    <3>2. Tree!Children(p) = {Tree!Left(p), Tree!Right(p)} BY <1>2
    <3>3. \E c \in {Tree!Left(p), Tree!Right(p)} : at[c] = "zombie" /\ at' = [at EXCEPT ![c] = "reaped"]
      BY <3>1, <3>2
    <3> QED BY <3>1, <3>3
  <2>2. at' \in [Procs -> Tree!Places] BY <2>1 DEF Tree!Places
  <2>3. mem' \in Tree!Memory
    <3>1. [mem.awaited EXCEPT ![p] = @ + 1] \in [Tree!Group -> Nat] BY <1>2 DEF Tree!Memory
    <3> QED BY <2>1, <3>1 DEF Tree!Memory
  <2>4. mem'.caught = mem.caught /\ mem'.once = mem.once /\ mem'.killed = mem.killed
        /\ mem'.shot = mem.shot
        /\ mem.awaited[p] \in Nat
        /\ \A q \in Tree!Group : mem'.awaited[q] = IF q = p THEN mem.awaited[p] + 1 ELSE mem.awaited[q]
    BY <1>2, <2>1 DEF Tree!Memory
  <2>5. ASSUME NEW q \in Tree!Group PROVE Tree!NodeInv(q)'
    <3>1. Tree!NodeInv(q) OBVIOUS
    <3>2. /\ at'[q] = IF q = c THEN "reaped" ELSE at[q]
          /\ \A d \in {Tree!Left(q), Tree!Right(q)} : at'[d] = IF d = c THEN "reaped" ELSE at[d]
      BY <2>1
    <3>3. CASE q = p BY <2>1, <2>4, <3>1, <3>2, <3>3 DEF Tree!NodeInv, Tree!Ended
    <3>4. CASE q # p
      <4>1. Tree!Left(q) # c /\ Tree!Right(q) # c BY <1>2, <2>1, <3>4
      <4> QED BY <2>1, <2>4, <3>1, <3>2, <3>4, <4>1 DEF Tree!NodeInv, Tree!Ended
    <3> QED BY <3>3, <3>4
  <2>6. at'[0] # "clobbered" /\ (mem'.killed # {} => mem'.once # {} \/ mem'.shot # {})
    BY <2>1, <2>4
  <2> QED BY <2>2, <2>3, <2>5, <2>6
\* The process itself goes on, or ends; its children do not move.
<1>3. ASSUME NEW to \in {"work", "done", "zombie"}, at' = [at EXCEPT ![p] = to],
             at[p] \notin {"none", "reaped"}, mem' \in Tree!Memory, mem'.once = mem.once, mem'.awaited = mem.awaited,
             mem'.shot = mem.shot,
             mem.killed \subseteq mem'.killed, mem'.killed # {} => mem.once # {} \/ mem.shot # {},
             \A q \in Tree!Group : Tree!Signals \ mem.once \subseteq mem'.caught[q],
             p \in Tree!Group => \/ at[Tree!Left(p)] = "reaped" /\ at[Tree!Right(p)] = "reaped"
                                 \/ to = "zombie" /\ (p = 0 \/ p \in mem'.killed)
      PROVE  Tree!IndInv'
  <2>1. at' \in [Procs -> Tree!Places] BY <1>3 DEF Tree!Places
  <2>2. ASSUME NEW q \in Tree!Group PROVE Tree!NodeInv(q)'
    <3>1. Tree!NodeInv(q) OBVIOUS
    <3>2. /\ at'[q] = IF q = p THEN to ELSE at[q]
          /\ \A d \in {Tree!Left(q), Tree!Right(q)} : at'[d] = IF d = p THEN to ELSE at[d]
      BY <1>3
    <3> QED BY <1>3, <3>1, <3>2 DEF Tree!NodeInv, Tree!Ended
  <2> QED BY <1>3, <2>1, <2>2
<1>4. CASE p \in Tree!Group /\ Tree!AwaitedAll(p)
  <2>1. Tree!NodeInv(p) BY <1>4
  <2>2. at[Tree!Left(p)] = "reaped" /\ at[Tree!Right(p)] = "reaped"
    BY <1>4, <2>1 DEF Tree!NodeInv, Tree!AwaitedAll
  <2>3. \A q \in Tree!Group : Tree!Signals \ mem.once \subseteq mem.caught[q] BY DEF Tree!NodeInv
  <2> QED BY <1>3, <1>4, <2>2, <2>3 DEF Tree!AwaitedAll
<1>5. CASE Tree!Ends(p)
  <2>1. p \in Tree!Group => at[Tree!Left(p)] = "reaped" /\ at[Tree!Right(p)] = "reaped"
    BY <1>5 DEF Tree!NodeInv, Tree!Ends
  <2>2. \A q \in Tree!Group : Tree!Signals \ mem.once \subseteq mem.caught[q] BY DEF Tree!NodeInv
  <2> QED BY <1>3, <1>5, <2>1, <2>2 DEF Tree!Ends
<1>9. ASSUME NEW to \in {"wait", "interrupted", "clobbered"}, p \in Tree!Group,
             at[p] \in {"wait", "interrupted", "clobbered"},
             at' = [at EXCEPT ![p] = to], to = "clobbered" => p # 0, mem' \in Tree!Memory,
             mem'.once = mem.once, mem'.awaited = mem.awaited, mem'.shot = mem.shot,
             mem'.killed = mem.killed,
             \A q \in Tree!Group : Tree!Signals \ mem.once \subseteq mem'.caught[q]
      PROVE  Tree!IndInv'
  <2>1. at' \in [Procs -> Tree!Places] BY <1>9 DEF Tree!Places
  <2>2. ASSUME NEW q \in Tree!Group PROVE Tree!NodeInv(q)'
    <3>1. Tree!NodeInv(q) OBVIOUS
    <3>2. /\ at'[q] = IF q = p THEN to ELSE at[q]
          /\ \A d \in {Tree!Left(q), Tree!Right(q)} : at'[d] = IF d = p THEN to ELSE at[d]
      BY <1>9
    <3> QED BY <1>9, <3>1, <3>2 DEF Tree!NodeInv, Tree!Ended
  <2>3. at'[0] # "clobbered" BY <1>9
  <2> QED BY <1>9, <2>1, <2>2, <2>3
<1>6. ASSUME NEW s \in Tree!Signals, p \in Tree!Group, Tree!Live(p), Tree!Handle(p, s)
      PROVE  Tree!IndInv'
  <2> DEFINE first == p = 0 /\ mem.calls[s] = 0
  <2>1. PICK to \in Tree!After(p) \cup {"zombie"} :
        /\ mem' = [mem EXCEPT !.calls[s] = IF first THEN 1 ELSE @,
                             !.caught[p] = IF s \in mem.once THEN @ \ {s} ELSE @]
        /\ at' = [at EXCEPT ![p] = to] /\ (to \in Tree!After(p) \/ p = 0)
    BY <1>6 DEF Tree!Handle
  <2>2. mem' \in Tree!Memory BY <1>6, <2>1 DEF Tree!Memory
  <2>3. mem'.once = mem.once /\ mem'.awaited = mem.awaited /\ mem'.killed = mem.killed
        /\ mem'.shot = mem.shot
        /\ \A q \in Tree!Group : mem'.caught[q] = IF q = p /\ s \in mem.once THEN mem.caught[q] \ {s}
                                                   ELSE mem.caught[q]
    BY <1>6, <2>1 DEF Tree!Memory
  <2>4. \A q \in Tree!Group : Tree!Signals \ mem.once \subseteq mem'.caught[q]
    BY <2>3 DEF Tree!NodeInv
  <2>5. CASE at' = at
    <3>1. ASSUME NEW q \in Tree!Group PROVE Tree!NodeInv(q)'
      BY <2>3, <2>4, <2>5 DEF Tree!NodeInv, Tree!Ended
    <3> QED BY <2>2, <2>3, <2>5, <3>1
  <2>6. CASE p = 0 /\ to = "zombie"
    <3>1. at[p] \notin {"none", "reaped"} BY <1>6 DEF Tree!Live
    <3>2. mem.killed # {} => mem.once # {} \/ mem.shot # {} OBVIOUS
    <3> QED BY <1>3, <1>6, <2>1, <2>2, <2>3, <2>4, <2>6, <3>1, <3>2
  <2>7. CASE to \in Tree!After(p) /\ to # at[p]
    <3>1. /\ to \in {"wait", "interrupted", "clobbered"}
          /\ at[p] \in {"wait", "interrupted", "clobbered"}
          /\ to = "clobbered" => p # 0
      BY <2>7 DEF Tree!After, Tree!Blocked
    <3> QED BY <1>6, <1>9, <2>1, <2>2, <2>3, <2>4, <3>1
  <2>8. CASE to = at[p] BY <2>1, <2>5, <2>8
  <2> QED BY <2>1, <2>6, <2>7, <2>8
<1>10. CASE p \in Tree!Group /\ Tree!TryAgain(p)
  <2>1. \A q \in Tree!Group : Tree!Signals \ mem.once \subseteq mem.caught[q] BY DEF Tree!NodeInv
  <2> QED BY <1>9, <1>10, <2>1 DEF Tree!TryAgain
<1>11. CASE p \in Tree!Group /\ Tree!KillOthers(p)
  <2> DEFINE others == {q \in Tree!Nodes \ {p} : Tree!Live(q)}
  <2>1. /\ at[p] = "clobbered" /\ p # 0
        /\ at' = [q \in Procs |-> IF q = p THEN "wait" ELSE IF q \in others THEN "zombie" ELSE at[q]]
        /\ mem' = [mem EXCEPT !.killed = @ \cup others, !.shot = @ \cup {p}]
    BY <1>11 DEF Tree!KillOthers
  <2>2. mem' \in Tree!Memory
    <3>1. others \subseteq Tree!Nodes OBVIOUS
    <3> HIDE DEF others
    <3>2. mem.killed \cup others \in SUBSET Tree!Nodes
      BY <3>1 DEF Tree!Memory
    <3>3. mem.shot \cup {p} \in SUBSET (Tree!Group \ {0}) BY <1>11, <2>1 DEF Tree!Memory
    <3> QED BY <2>1, <3>2, <3>3 DEF Tree!Memory
  <2>3. /\ mem'.once = mem.once /\ mem'.awaited = mem.awaited /\ mem'.caught = mem.caught
        /\ mem'.killed = mem.killed \cup others /\ p \in mem'.shot
    BY <2>1 DEF Tree!Memory
  <2>4. at' \in [Procs -> Tree!Places] BY <2>1 DEF Tree!Places
  <2>5. \A q \in Procs : /\ at[q] \in {"none", "reaped"} <=> at'[q] = at[q] /\ at[q] \in {"none", "reaped"}
                         /\ at'[q] \in {"none", "reaped"} => at'[q] = at[q]
    BY <2>1 DEF Tree!Live
  <2>6. ASSUME NEW q \in Tree!Group PROVE Tree!NodeInv(q)'
    <3>1. Tree!NodeInv(q) OBVIOUS
    <3>2. /\ at'[q] \in {at[q], "zombie", "wait"}
          /\ at'[q] = "wait" => at[q] \in {"wait", "clobbered"}
          /\ at'[q] = "zombie" => at[q] = "zombie" \/ q \in mem'.killed
          /\ at[q] \in {"none", "reaped", "zombie"} => at'[q] = at[q]
      BY <2>1, <2>3 DEF Tree!Live
    <3>3. \A d \in {Tree!Left(q), Tree!Right(q)} :
            (at[d] = "reaped" <=> at'[d] = "reaped") /\ (at[d] = "none" => at'[d] = "none")
      BY <2>5
    <3>4. mem.killed \subseteq mem'.killed BY <2>3
    <3> QED BY <2>3, <3>1, <3>2, <3>3, <3>4 DEF Tree!NodeInv, Tree!Ended
  <2>7. at'[0] # "clobbered" BY <2>1
  <2> QED BY <2>2, <2>3, <2>4, <2>6, <2>7
<1>7. ASSUME NEW s \in Tree!Signals, p \in Tree!Group, Tree!Live(p), Tree!Killed(p, s)
      PROVE  Tree!IndInv'
  <2>1. /\ at' = [at EXCEPT ![p] = "zombie"] /\ mem' = [mem EXCEPT !.killed = @ \cup {p}]
        /\ s \notin mem.caught[p]
    BY <1>7 DEF Tree!Killed
  <2>2. mem' \in Tree!Memory
    <3>1. mem.killed \cup {p} \in SUBSET Tree!Nodes BY <1>7 DEF Tree!Memory
    <3> QED BY <2>1, <3>1 DEF Tree!Memory
  <2>3. mem'.once = mem.once /\ mem'.awaited = mem.awaited /\ mem'.killed = mem.killed \cup {p}
        /\ mem'.caught = mem.caught /\ mem'.shot = mem.shot
    BY <2>1 DEF Tree!Memory
  <2>4. \A q \in Tree!Group : Tree!Signals \ mem.once \subseteq mem.caught[q] BY DEF Tree!NodeInv
  <2>5. s \in mem.once BY <1>7, <2>1, <2>4
  <2> QED BY <1>3, <1>7, <2>1, <2>2, <2>3, <2>4, <2>5 DEF Tree!Live
<1>8. CASE p \in Tree!Group /\ (Tree!Fork(p, "left", Tree!Left(p), "right")
                                 \/ Tree!Fork(p, "right", Tree!Right(p), "wait"))
  BY <1>1, <1>8 DEF Tree!Fork
<1> QED BY <1>2, <1>4, <1>5, <1>6, <1>7, <1>8, <1>10, <1>11 DEF Tree!Step

\* What the invariant says of a process that has ended.
LEMMA TreeInvariant == ASSUME Tree!IndInv PROVE Tree!TreeWaits
<1> USE TreeShape DEF Tree!IndInv
<1>1. ASSUME NEW p \in Tree!Group
      PROVE  mem.awaited[p] = Cardinality({c \in Tree!Children(p) : at[c] = "reaped"})
  <2> DEFINE l == Tree!Left(p)
             r == Tree!Right(p)
             Reaped == {c \in {l, r} : at[c] = "reaped"}
  <2>1. Reaped = (IF at[l] = "reaped" THEN {l} ELSE {}) \cup (IF at[r] = "reaped" THEN {r} ELSE {})
    OBVIOUS
  <2>2. Cardinality({}) = 0 /\ Cardinality({l}) = 1 /\ Cardinality({r}) = 1
        /\ Cardinality({l} \cup {r}) = 2
    <3>1. IsFiniteSet({l}) /\ Cardinality({l}) = 1 /\ Cardinality({r}) = 1 BY FS_Singleton
    <3>2. Cardinality({l} \cup {r}) = 1 + 1 BY <3>1, FS_AddElement
    <3> QED BY <3>1, <3>2, FS_EmptySet
  <2>3. Cardinality(Reaped) = (IF at[l] = "reaped" THEN 1 ELSE 0) + (IF at[r] = "reaped" THEN 1 ELSE 0)
    <3>1. CASE at[l] = "reaped" /\ at[r] = "reaped" BY <2>1, <2>2, <3>1
    <3>2. CASE at[l] = "reaped" /\ at[r] # "reaped"
      <4>1. Reaped = {l} BY <2>1, <3>2
      <4> QED BY <2>2, <3>2, <4>1
    <3>3. CASE at[l] # "reaped" /\ at[r] = "reaped"
      <4>1. Reaped = {r} BY <2>1, <3>3
      <4>2. Cardinality(Reaped) = 1 BY <2>2, <4>1
      <4> QED BY <3>3, <4>2
    <3>4. CASE at[l] # "reaped" /\ at[r] # "reaped"
      <4>1. Reaped = {} BY <2>1, <3>4
      <4>2. Cardinality(Reaped) = 0 BY <2>2, <4>1
      <4> QED BY <3>4, <4>2
    <3> QED BY <3>1, <3>2, <3>3, <3>4
  <2> QED BY <2>3 DEF Tree!NodeInv
<1>2. mem.killed # {} => mem.once # {} \/ mem.shot \ {0} # {}
  <2>1. mem.shot \subseteq Tree!Group \ {0} BY DEF Tree!Memory
  <2>2. mem.shot \ {0} = mem.shot BY <2>1
  <2> QED BY <2>2
<1>3. ASSUME NEW p \in Tree!Group,
             at[p] = "work" \/ (p = 0 /\ at[p] = "done") \/ (p # 0 /\ Tree!Ended(p) /\ p \notin mem.killed)
      PROVE  \A c \in Tree!Children(p) : at[c] = "reaped"
  BY <1>3 DEF Tree!NodeInv
<1> QED BY <1>1, <1>2, <1>3 DEF Tree!TreeWaits

-----------------------------------------------------------------------------
(***************************************************************************)
(* Collection (sop-collection.c and pol_lab.c): a file is the donations that *)
(* were announced and a part of the next; a box in time has read all but the *)
(* last of them.  Every lemma is for both programs.                        *)
(***************************************************************************)

\* The boxes and the donor are processes other than the first.
LEMMA LabNumbers ==
  ASSUME NEW l \in BOOLEAN
  PROVE  /\ Boxes \in Nat /\ 0 \in Procs /\ 0 \in Lab(l)!Group
         /\ Lab(l)!Donor \in Procs /\ Lab(l)!Donor # 0 /\ Lab(l)!Donor \notin Lab(l)!Box
         /\ Lab(l)!Donor \in Lab(l)!Group
         /\ \A b \in Lab(l)!Box : /\ b \in Procs /\ b # 0 /\ b \in Nat /\ b \in 0 .. Boxes
                                  /\ b # Lab(l)!Donor /\ b \in Lab(l)!Group
         /\ \A p \in Lab(l)!Group : p = 0 \/ p = Lab(l)!Donor \/ p \in Lab(l)!Box
         /\ Lab(l)!Writes[1] \in Lab(l)!Field /\ Lab(l)!Writes[2] \in Lab(l)!Field
         /\ \A f \in Lab(l)!Field : /\ Lab(l)!Reads[f] \in {1, 2}
                                    /\ Lab(l)!Writes[Lab(l)!Reads[f]] = f
<1>1. /\ Lab(l)!Writes[1] \in Lab(l)!Field /\ Lab(l)!Writes[2] \in Lab(l)!Field
      /\ \A f \in Lab(l)!Field : /\ Lab(l)!Reads[f] \in {1, 2}
                                 /\ Lab(l)!Writes[Lab(l)!Reads[f]] = f
  BY DEF Lab!Writes, Lab!SopWrites, Lab!PolWrites, Lab!Reads, Lab!SopReads, Lab!PolReads, Lab!Field
<1> USE ProcsAssumption
    DEF Lab!Box, Lab!Donor, Lab!Group, Lab!CollectionConstants
<1>2. Boxes \in 1 .. 4 /\ 1 .. Boxes + 1 \subseteq Procs BY ExercisesAssumption
<1> QED BY <1>1, <1>2

\* What a step leaves of box b: its place, its signals, its file and readings.
LEMMA LabFrame ==
  ASSUME NEW l \in BOOLEAN, NEW b \in Lab(l)!Box, Lab(l)!BoxInv(b), at'[b] = at[b],
         \A r \in pending'[b] : r.sig \in {"USR1", "TERM"},
         Lab(l)!IsPending(b, "USR1")' <=> Lab(l)!IsPending(b, "USR1"),
         at'[0] \in {"collect", "done"} =>
           at[b] \in {"term", "zombie", "reaped"} \/ Lab(l)!IsPending(b, "TERM")' \/ b \in mem'.lost,
         at'[0] = "done" /\ ~mem'.cut => at[b] = "reaped",
         mem'.file[b] = mem.file[b], mem'.read[b] = mem.read[b], mem'.thrown[b] = mem.thrown[b],
         b \in mem.slow => b \in mem'.slow, at[b] = "none" => b \notin mem'.created,
         Lab(l)!Written(b)' = Lab(l)!Written(b), Lab(l)!Written(b) # 0 => mem'.donors = mem.donors
  PROVE  Lab(l)!BoxInv(b)'
<1> USE LabNumbers DEF Lab!BoxInv
<1>0. Lab(l)!Written(b) \in {0, 1, 2} BY DEF Lab!Written
<1>1. Lab(l)!FileInv(b)' BY <1>0 DEF Lab!FileInv, Lab!Writes, Lab!SopWrites, Lab!PolWrites
<1>2. Lab(l)!ReadInv(b)' BY DEF Lab!ReadInv, Lab!ToRead, Lab!Live, Lab!Donation
<1> QED BY <1>1, <1>2

\* The first process begins with empty files.
LEMMA LabInit == ASSUME NEW l \in BOOLEAN, Lab(l)!Init PROVE Lab(l)!IndInv
<1> USE LabNumbers DEF Lab!Init, Lab!OnlyFirst, Lab!NothingPending
<1>1. mem \in Lab(l)!Memory BY DEF Lab!Memory
<1>2. Lab(l)!MemOK
  BY <1>1 DEF Lab!MemOK, Lab!Places, Lab!BoxPlaces, Lab!FirstPlaces
<1>3. Lab(l)!PlaceInv BY DEF Lab!PlaceInv, Lab!FirstPlaces, Lab!DonorPlaces
<1>4. ASSUME NEW b \in Lab(l)!Box PROVE Lab(l)!BoxInv(b)
  <2>1. Lab(l)!FileInv(b) BY DEF Lab!FileInv, Lab!Written
  <2>2. Lab(l)!ReadInv(b) BY DEF Lab!ReadInv, Lab!ToRead, Lab!Live, Lab!IsPending
  <2> QED BY <2>1, <2>2 DEF Lab!BoxInv, Lab!BoxPlaces
<1> QED BY <1>2, <1>3, <1>4 DEF Lab!IndInv

\* A signal is added to those of its receivers.
LEMMA LabSignal ==
  ASSUME NEW l \in BOOLEAN, Lab(l)!MemOK, NEW T, NEW s \in Lab(l)!Directions \cup {"TERM"}
  PROVE  /\ Lab(l)!Signalled(T, s) \in
              [Procs -> SUBSET [sig : Lab(l)!Directions \cup {"TERM", "CHLD"}, from : {0}]]
         /\ \A q \in Procs : Lab(l)!Signalled(T, s)[q] =
              IF q \in T /\ Lab(l)!Live(q) /\ ~Lab(l)!IsPending(q, s)
              THEN pending[q] \cup {[sig |-> s, from |-> 0]} ELSE pending[q]
BY DEF Lab!MemOK, Lab!Signalled, Lab!Posted

\* A step of one box: the others see it in their signals only.
LEMMA LabBoxMoves ==
  ASSUME NEW l \in BOOLEAN, Lab(l)!IndInv, Lab(l)!MemOK', NEW b \in Lab(l)!Box,
         NEW to \in Lab(l)!BoxPlaces \ {"none"},
         at' = [at EXCEPT ![b] = to], at[b] # "none", Lab(l)!BoxInv(b)',
         \A c \in Lab(l)!Box \ {b} :
           /\ \A r \in pending'[c] : r.sig \in {"USR1", "TERM"}
           /\ Lab(l)!IsPending(c, "USR1")' <=> Lab(l)!IsPending(c, "USR1")
           /\ Lab(l)!IsPending(c, "TERM") => Lab(l)!IsPending(c, "TERM")'
           /\ mem'.read[c] = mem.read[c],
         mem'.donors = mem.donors, mem'.to = mem.to, mem'.file = mem.file,
         mem'.thrown = mem.thrown, mem'.cut = mem.cut, mem.slow \subseteq mem'.slow,
         mem.lost \subseteq mem'.lost, mem.created \subseteq mem'.created,
         mem'.created \subseteq mem.created \cup {b}
  PROVE  Lab(l)!IndInv'
<1> USE LabNumbers
<1>1. /\ at'[0] = at[0] /\ at'[Lab(l)!Donor] = at[Lab(l)!Donor] /\ at'[b] = to
      /\ \A c \in Lab(l)!Box \ {b} : at'[c] = at[c]
  BY DEF Lab!IndInv, Lab!MemOK
<1>2. Lab(l)!PlaceInv' BY <1>1 DEF Lab!IndInv, Lab!PlaceInv
<1>3. ASSUME NEW c \in Lab(l)!Box \ {b} PROVE Lab(l)!BoxInv(c)'
  <2>1. Lab(l)!BoxInv(c) BY DEF Lab!IndInv
  <2>2. Lab(l)!Written(c)' = Lab(l)!Written(c) BY <1>1 DEF Lab!Written
  <2> QED BY <1>1, <2>1, <2>2, LabFrame DEF Lab!BoxInv
<1> QED BY <1>2, <1>3 DEF Lab!IndInv

\* A step that leaves the file of box b alone.
LEMMA LabFile ==
  ASSUME NEW l \in BOOLEAN, NEW b \in Lab(l)!Box, Lab(l)!FileInv(b),
         mem'.file[b] = mem.file[b], mem'.thrown[b] = mem.thrown[b],
         Lab(l)!Written(b)' = Lab(l)!Written(b), Lab(l)!Written(b) # 0 => mem'.donors = mem.donors
  PROVE  Lab(l)!FileInv(b)'
<1>1. Lab(l)!Written(b) \in {0, 1, 2} BY DEF Lab!Written
<1> QED BY <1>1, LabNumbers DEF Lab!FileInv, Lab!Writes, Lab!SopWrites, Lab!PolWrites

\* A step of a box: it prepares, handles its signals, reads or ends.
LEMMA LabBoxStep ==
  ASSUME NEW l \in BOOLEAN, Lab(l)!IndInv, NEW b \in Lab(l)!Box, Lab(l)!BoxStep(b)
  PROVE  Lab(l)!IndInv'
<1> USE LabNumbers DEF Lab!Move
<1>m. Lab(l)!MemOK /\ Lab(l)!PlaceInv /\ Lab(l)!BoxInv(b) BY DEF Lab!IndInv
<1>f. Lab(l)!FileInv(b) /\ Lab(l)!ReadInv(b) BY <1>m DEF Lab!BoxInv
\* The box opens its file, sets its handler or its mask.
<1>1. CASE Lab(l)!OpenFile(b) \/ Lab(l)!SetHandler(b) \/ Lab(l)!SetMask(b)
  <2>1. PICK to \in {"ready", "caught", "masked", "suspended"} :
          /\ at[b] \in {"open", "ready", "caught", "masked"} /\ at' = [at EXCEPT ![b] = to]
          /\ pending' = pending
          /\ mem' = mem \/ mem' = [mem EXCEPT !.created = @ \cup {b}]
    BY <1>1 DEF Lab!OpenFile, Lab!SetHandler, Lab!SetMask, Lab!Start, Lab!SopStart, Lab!PolStart
  <2>2. mem' \in Lab(l)!Memory
    <3>1. CASE mem' = mem BY <1>m, <3>1 DEF Lab!MemOK
    <3>2. CASE mem' = [mem EXCEPT !.created = @ \cup {b}] BY <1>m, <3>2 DEF Lab!MemOK, Lab!Memory
    <3> QED BY <2>1, <3>1, <3>2
  <2>3. Lab(l)!MemOK' BY <1>m, <2>1, <2>2 DEF Lab!MemOK, Lab!Places, Lab!BoxPlaces
  <2>4. /\ mem'.donors = mem.donors /\ mem'.to = mem.to /\ mem'.file = mem.file
        /\ mem'.thrown = mem.thrown /\ mem'.read = mem.read /\ mem'.cut = mem.cut
        /\ mem'.slow = mem.slow /\ mem'.lost = mem.lost
        /\ mem.created \subseteq mem'.created /\ mem'.created \subseteq mem.created \cup {b}
    BY <1>m, <2>1 DEF Lab!MemOK, Lab!Memory
  <2>5. at'[b] = to /\ at'[0] = at[0] /\ at'[Lab(l)!Donor] = at[Lab(l)!Donor]
    BY <1>m, <2>1 DEF Lab!MemOK
  <2>6. Lab(l)!FileInv(b)' BY <1>f, <2>4, <2>5, LabFile DEF Lab!Written
  <2>7. Lab(l)!ReadInv(b)'
    BY <1>f, <2>1, <2>4, <2>5
    DEF Lab!ReadInv, Lab!ToRead, Lab!IsPending, Lab!Live, Lab!Written, Lab!Donation
  <2>8. Lab(l)!BoxInv(b)'
    BY <1>m, <2>1, <2>4, <2>5, <2>6, <2>7 DEF Lab!BoxInv, Lab!BoxPlaces, Lab!IsPending
  <2>9. \A c \in Lab(l)!Box \ {b} : \A r \in pending[c] : r.sig \in {"USR1", "TERM"}
    BY DEF Lab!IndInv, Lab!BoxInv
  <2> QED BY <2>1, <2>3, <2>4, <2>8, <2>9, LabBoxMoves DEF Lab!BoxPlaces, Lab!IsPending
\* What the box handles or reads changes its place and its own memory.
<1>2. ASSUME NEW to \in Lab(l)!BoxPlaces \ {"none"}, at[b] # "none", at' = [at EXCEPT ![b] = to],
             NEW slow \in {{}, {b}}, NEW lost \in {{}, {b}},
             mem' = [mem EXCEPT !.slow = @ \cup slow, !.lost = @ \cup lost],
             pending' = [pending EXCEPT ![b] = pending'[b]], pending'[b] \subseteq pending[b],
             at[0] \in {"collect", "done"} =>
               \/ to \in {"term", "zombie", "reaped"} \/ Lab(l)!IsPending(b, "TERM")'
               \/ b \in mem.lost \cup lost,
             at[b] = "reaped" => to = "reaped", Lab(l)!ReadInv(b)'
      PROVE  Lab(l)!IndInv'
  <2>1. mem' \in Lab(l)!Memory
    <3>1. mem.slow \cup slow \subseteq Lab(l)!Box /\ mem.lost \cup lost \subseteq Lab(l)!Group
      BY <1>m DEF Lab!MemOK, Lab!Memory
    <3> QED BY <1>m, <1>2, <3>1 DEF Lab!MemOK, Lab!Memory
  <2>2. Lab(l)!MemOK'
    <3>1. at' \in [Procs -> Lab(l)!Places] BY <1>m, <1>2 DEF Lab!MemOK, Lab!Places
    <3> QED BY <1>m, <1>2, <2>1, <3>1 DEF Lab!MemOK
  <2>3. /\ mem'.donors = mem.donors /\ mem'.to = mem.to /\ mem'.file = mem.file
        /\ mem'.thrown = mem.thrown /\ mem'.read = mem.read /\ mem'.cut = mem.cut
        /\ mem'.slow = mem.slow \cup slow /\ mem'.lost = mem.lost \cup lost
        /\ mem.created = mem'.created
    BY <1>m, <1>2 DEF Lab!MemOK, Lab!Memory
  <2>4. at'[b] = to /\ at'[0] = at[0] /\ at'[Lab(l)!Donor] = at[Lab(l)!Donor]
    BY <1>m, <1>2 DEF Lab!MemOK
  <2>5. Lab(l)!FileInv(b)' BY <1>f, <2>3, <2>4, LabFile DEF Lab!Written
  <2>6. Lab(l)!BoxInv(b)' BY <1>m, <1>2, <2>3, <2>4, <2>5 DEF Lab!BoxInv
  <2>7. \A c \in Lab(l)!Box \ {b} : /\ \A r \in pending'[c] : r.sig \in {"USR1", "TERM"}
                                   /\ pending'[c] = pending[c]
    BY <1>m, <1>2 DEF Lab!IndInv, Lab!BoxInv, Lab!MemOK
  <2>8. \A c \in Lab(l)!Box \ {b} :
          /\ \A r \in pending'[c] : r.sig \in {"USR1", "TERM"}
          /\ Lab(l)!IsPending(c, "USR1")' <=> Lab(l)!IsPending(c, "USR1")
          /\ Lab(l)!IsPending(c, "TERM") => Lab(l)!IsPending(c, "TERM")'
          /\ mem'.read[c] = mem.read[c]
    BY <2>3, <2>7 DEF Lab!IsPending
  <2>9. /\ mem.slow \subseteq mem'.slow /\ mem.lost \subseteq mem'.lost
        /\ mem.created \subseteq mem'.created /\ mem'.created \subseteq mem.created \cup {b}
    BY <2>3
  <2> QED BY <1>2, <2>2, <2>3, <2>6, <2>8, <2>9, LabBoxMoves
<1>3. CASE Lab(l)!Wake(b)
  <2>1. PICK r \in pending[b] :
          /\ at[b] = "suspended" /\ at' = [at EXCEPT ![b] = IF r.sig = "TERM" THEN "term" ELSE "read"]
          /\ pending' = [pending EXCEPT ![b] = {}] /\ r.sig \in {"USR1", "TERM"}
          /\ mem' = [mem EXCEPT
               !.lost = IF r.sig # "TERM" /\ Lab(l)!IsPending(b, "TERM") THEN @ \cup {b} ELSE @,
               !.slow = IF r.sig = "TERM" /\ Lab(l)!IsPending(b, "USR1") THEN @ \cup {b} ELSE @]
    BY <1>3, <1>m DEF Lab!Wake, Lab!BoxInv
  <2>2. PICK slow \in {{}, {b}}, lost \in {{}, {b}} :
          /\ mem' = [mem EXCEPT !.slow = @ \cup slow, !.lost = @ \cup lost]
          /\ mem'.slow = mem.slow \cup slow /\ mem'.read = mem.read /\ mem'.thrown = mem.thrown
          /\ mem'.to = mem.to
          /\ r.sig = "TERM" /\ Lab(l)!IsPending(b, "USR1") => slow = {b}
          /\ r.sig # "TERM" /\ Lab(l)!IsPending(b, "TERM") => lost = {b}
    <3> DEFINE slow == IF r.sig = "TERM" /\ Lab(l)!IsPending(b, "USR1") THEN {b} ELSE {}
               lost == IF r.sig # "TERM" /\ Lab(l)!IsPending(b, "TERM") THEN {b} ELSE {}
    <3>a. (IF r.sig = "TERM" /\ Lab(l)!IsPending(b, "USR1") THEN mem.slow \cup {b} ELSE mem.slow)
            = mem.slow \cup slow
      OBVIOUS
    <3>b. (IF r.sig # "TERM" /\ Lab(l)!IsPending(b, "TERM") THEN mem.lost \cup {b} ELSE mem.lost)
            = mem.lost \cup lost
      OBVIOUS
    <3>c. slow \in {{}, {b}} /\ lost \in {{}, {b}} OBVIOUS
    <3>d. /\ r.sig = "TERM" /\ Lab(l)!IsPending(b, "USR1") => slow = {b}
          /\ r.sig # "TERM" /\ Lab(l)!IsPending(b, "TERM") => lost = {b}
      OBVIOUS
    <3> HIDE DEF slow, lost
    <3>1. mem' = [mem EXCEPT !.slow = @ \cup slow, !.lost = @ \cup lost]
      BY <2>1, <3>a, <3>b
    <3>2. /\ mem'.slow = mem.slow \cup slow /\ mem'.read = mem.read /\ mem'.thrown = mem.thrown
          /\ mem'.to = mem.to
      BY <1>m, <3>1 DEF Lab!MemOK, Lab!Memory
    <3> QED BY <3>c, <3>d, <3>1, <3>2
  <2>3. /\ at'[b] = IF r.sig = "TERM" THEN "term" ELSE "read"
        /\ at'[Lab(l)!Donor] = at[Lab(l)!Donor] /\ pending'[b] = {}
    BY <1>m, <2>1 DEF Lab!MemOK
  <2>4. Lab(l)!ReadInv(b)'
    BY <1>f, <2>1, <2>2, <2>3
    DEF Lab!ReadInv, Lab!ToRead, Lab!IsPending, Lab!Live, Lab!Written, Lab!Donation
  <2>5. at[0] \in {"collect", "done"} => r.sig = "TERM" \/ b \in mem.lost \cup lost
    BY <1>m, <2>1, <2>2 DEF Lab!BoxInv
  <2>6. pending' = [pending EXCEPT ![b] = pending'[b]] /\ pending'[b] \subseteq pending[b]
    BY <1>m, <2>1, <2>3 DEF Lab!MemOK
  <2> QED BY <1>2, <2>1, <2>2, <2>4, <2>5, <2>6 DEF Lab!BoxPlaces
<1>4. CASE Lab(l)!ReadDonation(b)
  <2> DEFINE n == Len(mem.thrown[b])
             entry == [f \in Lab(l)!Field |-> mem.file[b][Len(mem.file[b]) - 2 + Lab(l)!Reads[f]]]
  <2>1. /\ at[b] = "read" /\ at' = [at EXCEPT ![b] = "suspended"] /\ pending' = pending
        /\ mem' = [mem EXCEPT !.read[b] = Append(@, entry)]
    BY <1>4 DEF Lab!ReadDonation, Lab!Field
  <2>2. n > 0 /\ n \in Nat /\ mem.thrown[b] \in Seq(Nat)
    BY <1>f, <1>m, <2>1 DEF Lab!ReadInv, Lab!ToRead, Lab!MemOK, Lab!Memory
  <2>3. Len(mem.file[b]) = 2 * n + Lab(l)!Written(b) /\ Lab(l)!Written(b) \in {0, 1, 2}
    BY <1>f DEF Lab!FileInv, Lab!Written
  <2>e. \A f \in Lab(l)!Field :
          entry[f] = mem.file[b][Len(mem.file[b]) - 2 + Lab(l)!Reads[f]]
    OBVIOUS
  <2>r. \A f \in Lab(l)!Field : Lab(l)!Reads[f] \in {1, 2} /\ Lab(l)!Writes[Lab(l)!Reads[f]] = f
    OBVIOUS
  <2>g. /\ mem.file[b][2 * n - 1] = <<mem.thrown[b][n], Lab(l)!Writes[1]>>
        /\ mem.file[b][2 * n] = <<mem.thrown[b][n], Lab(l)!Writes[2]>>
    <3>1. n \in 1 .. n BY <2>2
    <3> QED BY <1>f, <3>1 DEF Lab!FileInv
  <2>4. entry \in Lab(l)!Amount
    <3>1. mem.file[b] \in Seq(Nat \X Lab(l)!Field) BY <1>m DEF Lab!MemOK, Lab!Memory
    <3>2. ASSUME NEW f \in Lab(l)!Field
          PROVE  mem.file[b][Len(mem.file[b]) - 2 + Lab(l)!Reads[f]] \in Nat \X Lab(l)!Field
      <4> HIDE DEF n
      <4>1. Len(mem.file[b]) - 2 + Lab(l)!Reads[f] \in 1 .. Len(mem.file[b])
        BY <2>2, <2>3, <2>r
      <4> QED BY <3>1, <4>1
    <3> QED BY <3>2 DEF Lab!Amount
  <2>5. b \notin mem.slow /\ Lab(l)!Live(b) => entry = Lab(l)!Donation(mem.thrown[b][n])
    <3> SUFFICES ASSUME b \notin mem.slow, Lab(l)!Live(b) PROVE entry = Lab(l)!Donation(mem.thrown[b][n])
      OBVIOUS
    <3>1. Lab(l)!Written(b) = 0 BY <1>f, <2>1 DEF Lab!ReadInv, Lab!ToRead
    <3> HIDE DEF n, entry
    <3>3. ASSUME NEW f \in Lab(l)!Field PROVE entry[f] = <<mem.thrown[b][n], f>>
      <4>1. CASE Lab(l)!Reads[f] = 1
        <5>1. Len(mem.file[b]) - 2 + Lab(l)!Reads[f] = 2 * n - 1 BY <2>2, <2>3, <3>1, <4>1
        <5> QED BY <2>e, <2>g, <2>r, <4>1, <5>1
      <4>2. CASE Lab(l)!Reads[f] = 2
        <5>1. Len(mem.file[b]) - 2 + Lab(l)!Reads[f] = 2 * n BY <2>2, <2>3, <3>1, <4>2
        <5> QED BY <2>e, <2>g, <2>r, <4>2, <5>1
      <4> QED BY <4>1, <4>2
    <3>4. DOMAIN entry = Lab(l)!Field /\ entry = [f \in Lab(l)!Field |-> entry[f]] BY DEF entry
    <3>5. entry = [f \in Lab(l)!Field |-> <<mem.thrown[b][n], f>>] BY <3>3, <3>4
    <3> QED BY <3>5 DEF Lab!Donation, Lab!Field
  <2> HIDE DEF entry, n
  <2>6. /\ mem'.read = [mem.read EXCEPT ![b] = Append(@, entry)]
        /\ mem'.donors = mem.donors /\ mem'.to = mem.to /\ mem'.file = mem.file
        /\ mem'.thrown = mem.thrown /\ mem'.cut = mem.cut
        /\ mem'.slow = mem.slow /\ mem'.lost = mem.lost /\ mem'.created = mem.created
    BY <1>m, <2>1 DEF Lab!MemOK, Lab!Memory
  <2>7. Lab(l)!MemOK'
    <3>1. mem'.read \in [Lab(l)!Box -> Seq(Lab(l)!Amount)]
      BY <1>m, <2>4, <2>6 DEF Lab!MemOK, Lab!Memory
    <3>2. mem' \in Lab(l)!Memory BY <1>m, <2>1, <2>6, <3>1 DEF Lab!MemOK, Lab!Memory
    <3> QED BY <1>m, <2>1, <3>2 DEF Lab!MemOK, Lab!Places, Lab!BoxPlaces
  <2>8. at'[b] = "suspended" /\ at'[0] = at[0] /\ at'[Lab(l)!Donor] = at[Lab(l)!Donor]
    BY <1>m, <2>1 DEF Lab!MemOK
  <2>9. Lab(l)!FileInv(b)' BY <1>f, <2>6, <2>8, LabFile DEF Lab!Written
  <2>10. Lab(l)!ReadInv(b)'
    <3>1. Lab(l)!ToRead(b) /\ Lab(l)!Live(b) /\ n = Len(mem'.thrown[b])
          /\ (Lab(l)!Live(b)' <=> Lab(l)!Live(b)) /\ (Lab(l)!IsPending(b, "USR1")' <=> Lab(l)!IsPending(b, "USR1"))
      BY <2>1, <2>6, <2>8 DEF Lab!ToRead, Lab!Live, Lab!IsPending, n
    <3>2. CASE b \in mem.slow BY <2>2, <2>6, <3>1, <3>2 DEF Lab!ReadInv
    <3>3. CASE b \notin mem.slow
      <4>1. /\ ~Lab(l)!IsPending(b, "USR1") /\ Len(mem.read[b]) = n - 1
            /\ \A i \in 1 .. Len(mem.read[b]) : mem.read[b][i] = Lab(l)!Donation(mem.thrown[b][i])
        BY <1>f, <2>1, <3>1, <3>3 DEF Lab!ReadInv, n
      <4>2. mem'.read[b] = Append(mem.read[b], entry) /\ mem.read[b] \in Seq(Lab(l)!Amount)
        BY <1>m, <2>6 DEF Lab!MemOK, Lab!Memory
      <4>3. Len(mem'.read[b]) = n BY <2>2, <4>1, <4>2
      <4>4. ASSUME NEW i \in 1 .. n PROVE mem'.read[b][i] = Lab(l)!Donation(mem.thrown[b][i])
        <5>1. CASE i = n BY <2>2, <2>4, <2>5, <3>1, <3>3, <4>1, <4>2, <5>1
        <5>2. CASE i # n
          <6>1. i \in 1 .. Len(mem.read[b]) BY <2>2, <4>1, <5>2
          <6> QED BY <2>4, <4>1, <4>2, <6>1
        <5> QED BY <5>1, <5>2
      <4>5. ~Lab(l)!ToRead(b)' BY <2>8, <3>1, <4>1 DEF Lab!ToRead
      <4>6. \A i \in 1 .. n : mem'.read[b][i] = Lab(l)!Donation(mem'.thrown[b][i]) BY <2>6, <4>4
      <4> QED BY <2>8, <3>1, <4>3, <4>5, <4>6 DEF Lab!ReadInv, Lab!Donation
    <3> QED BY <3>2, <3>3
  <2>11. Lab(l)!BoxInv(b)'
    BY <1>m, <2>1, <2>6, <2>8, <2>9, <2>10 DEF Lab!BoxInv, Lab!BoxPlaces, Lab!IsPending
  <2>12. \A c \in Lab(l)!Box \ {b} : /\ \A r \in pending[c] : r.sig \in {"USR1", "TERM"}
                                    /\ mem'.read[c] = mem.read[c]
    <3>1. DOMAIN mem.read = Lab(l)!Box BY <1>m DEF Lab!MemOK, Lab!Memory
    <3>2. \A c \in Lab(l)!Box : \A r \in pending[c] : r.sig \in {"USR1", "TERM"}
      <4>1. \A c \in Lab(l)!Box : Lab(l)!BoxInv(c) BY DEF Lab!IndInv
      <4> QED BY <4>1 DEF Lab!BoxInv
    <3> QED BY <2>6, <3>1, <3>2
  <2>13. /\ at[b] # "none" /\ at' = [at EXCEPT ![b] = "suspended"] /\ pending' = pending
         /\ "suspended" \in Lab(l)!BoxPlaces \ {"none"}
    BY <2>1 DEF Lab!BoxPlaces
  <2>14. \A c \in Lab(l)!Box \ {b} :
           /\ \A r \in pending'[c] : r.sig \in {"USR1", "TERM"}
           /\ Lab(l)!IsPending(c, "USR1")' <=> Lab(l)!IsPending(c, "USR1")
           /\ Lab(l)!IsPending(c, "TERM") => Lab(l)!IsPending(c, "TERM")'
           /\ mem'.read[c] = mem.read[c]
    BY <2>12, <2>13 DEF Lab!IsPending
  <2> QED BY <2>6, <2>7, <2>11, <2>13, <2>14, LabBoxMoves
\* A box that is told to end tells all.
<1>5. CASE Lab(l)!BoxTerm(b)
  <2>1. /\ at[b] = "term" /\ at' = [at EXCEPT ![b] = "zombie"] /\ mem' = mem
        /\ pending' = [Lab(l)!Signalled(Lab(l)!Group, "TERM") EXCEPT ![b] = {}]
    BY <1>5 DEF Lab!BoxTerm, Lab!TermToAll
  <2>2. \A c \in Procs \ {b} : pending'[c] =
          IF c \in Lab(l)!Group /\ Lab(l)!Live(c) /\ ~Lab(l)!IsPending(c, "TERM")
          THEN pending[c] \cup {[sig |-> "TERM", from |-> 0]} ELSE pending[c]
    <3>1. \A c \in Procs \ {b} : pending'[c] = Lab(l)!Signalled(Lab(l)!Group, "TERM")[c]
      BY <1>m, <2>1, LabSignal
    <3>2. \A c \in Procs : Lab(l)!Signalled(Lab(l)!Group, "TERM")[c] =
            IF c \in Lab(l)!Group /\ Lab(l)!Live(c) /\ ~Lab(l)!IsPending(c, "TERM")
            THEN pending[c] \cup {[sig |-> "TERM", from |-> 0]} ELSE pending[c]
      BY DEF Lab!Signalled, Lab!Posted
    <3> QED BY <3>1, <3>2
  <2>3. Lab(l)!MemOK'
    <3>1. pending' \in [Procs -> SUBSET [sig : Lab(l)!Directions \cup {"TERM", "CHLD"}, from : {0}]]
      BY <1>m, <2>1, LabSignal
    <3> QED BY <1>m, <2>1, <3>1 DEF Lab!MemOK, Lab!Places, Lab!BoxPlaces
  <2>4. /\ at'[b] = "zombie" /\ at'[0] = at[0] /\ at'[Lab(l)!Donor] = at[Lab(l)!Donor]
        /\ pending'[b] = {}
    BY <1>m, <2>1, LabSignal DEF Lab!MemOK
  <2>5. Lab(l)!FileInv(b)' BY <1>f, <2>1, <2>4, LabFile DEF Lab!Written
  <2>6. Lab(l)!ReadInv(b)' BY <2>4 DEF Lab!ReadInv, Lab!ToRead, Lab!IsPending, Lab!Live
  <2>7. Lab(l)!BoxInv(b)' BY <1>m, <2>1, <2>4, <2>5, <2>6 DEF Lab!BoxInv, Lab!BoxPlaces
  <2>8. ASSUME NEW c \in Lab(l)!Box \ {b}
        PROVE  /\ \A r \in pending'[c] : r.sig \in {"USR1", "TERM"}
               /\ Lab(l)!IsPending(c, "USR1")' <=> Lab(l)!IsPending(c, "USR1")
               /\ Lab(l)!IsPending(c, "TERM") => Lab(l)!IsPending(c, "TERM")'
    <3>1. \A r \in pending[c] : r.sig \in {"USR1", "TERM"} BY DEF Lab!IndInv, Lab!BoxInv
    <3>2. pending'[c] \in {pending[c], pending[c] \cup {[sig |-> "TERM", from |-> 0]}} BY <2>2
    <3> QED BY <3>1, <3>2 DEF Lab!IsPending
  <2> QED BY <2>1, <2>3, <2>7, <2>8, LabBoxMoves DEF Lab!BoxPlaces
\* A box handles a direction or SIGTERM before it has set its mask, or dies of it.
<1>6. ASSUME NEW slow \in {{}, {b}}, NEW lost \in {{}, {b}}, NEW s \in Lab(l)!Directions \cup {"TERM"},
             at[b] \in {"open", "ready", "caught"}, at' = at,
             mem' = [mem EXCEPT !.slow = @ \cup slow, !.lost = @ \cup lost],
             pending' = Lab(l)!Taken(b, {s}),
             s = "USR1" => slow = {b}, s = "TERM" => lost = {b}
      PROVE  Lab(l)!IndInv'
  <2>1. at' = [at EXCEPT ![b] = at[b]] /\ at[b] \in Lab(l)!BoxPlaces \ {"none"}
    BY <1>m, <1>6 DEF Lab!MemOK, Lab!BoxPlaces
  <2>2. /\ pending'[b] = {r \in pending[b] : r.sig # s}
        /\ pending' = [pending EXCEPT ![b] = pending'[b]]
    BY <1>m, <1>6 DEF Lab!MemOK, Lab!Taken
  <2>3. mem'.slow = mem.slow \cup slow /\ mem'.read = mem.read /\ mem'.thrown = mem.thrown
        /\ mem'.to = mem.to
    BY <1>m, <1>6 DEF Lab!MemOK, Lab!Memory
  <2>4. /\ Lab(l)!IsPending(b, "USR1")' => Lab(l)!IsPending(b, "USR1")
        /\ b \notin mem'.slow => (Lab(l)!IsPending(b, "USR1")' <=> Lab(l)!IsPending(b, "USR1"))
        /\ Lab(l)!IsPending(b, "TERM") => lost = {b} \/ Lab(l)!IsPending(b, "TERM")'
    BY <1>6, <2>2, <2>3 DEF Lab!IsPending
  <2>5. Lab(l)!ReadInv(b)'
    BY <1>f, <1>6, <2>3, <2>4 DEF Lab!ReadInv, Lab!ToRead, Lab!Live, Lab!Written, Lab!Donation
  <2>6. at[0] \in {"collect", "done"} =>
          at[b] \in {"term", "zombie", "reaped"} \/ Lab(l)!IsPending(b, "TERM")'
          \/ b \in mem.lost \cup lost
    BY <1>m, <2>4 DEF Lab!BoxInv
  <2>7. pending'[b] \subseteq pending[b] BY <2>2
  <2> QED BY <1>2, <1>6, <2>1, <2>2, <2>5, <2>6, <2>7
<1>7. CASE Lab(l)!HandledTooSoon(b)
  <2>1. PICK s \in Lab(l)!Directions :
          /\ pending' = Lab(l)!Taken(b, {s}) /\ at[b] = "caught" /\ at' = at
          /\ mem' = [mem EXCEPT !.lost = @ \cup ({b} \cap {Lab(l)!Donor}), !.slow = @ \cup ({b} \cap Lab(l)!Box)]
    BY <1>7 DEF Lab!HandledTooSoon
  <2>2. {b} \cap {Lab(l)!Donor} = {} /\ {b} \cap Lab(l)!Box = {b} /\ s # "TERM"
    BY DEF Lab!Directions
  <2>3. mem' = [mem EXCEPT !.slow = @ \cup {b}, !.lost = @ \cup {}] BY <2>1, <2>2
  <2> QED BY <1>6, <2>1, <2>2, <2>3
<1>8. CASE Lab(l)!HandlesTerm(b)
  <2>1. /\ pending' = Lab(l)!Taken(b, {"TERM"}) /\ at[b] \in {"open", "ready", "new", "caught"} /\ at' = at
        /\ mem' = [mem EXCEPT !.lost = @ \cup ({b} \cap Lab(l)!Box)]
    BY <1>8 DEF Lab!HandlesTerm
  <2>2. at[b] \in {"open", "ready", "caught"} BY <1>m, <2>1 DEF Lab!BoxInv, Lab!BoxPlaces
  <2>3. {b} \cap Lab(l)!Box = {b} OBVIOUS
  <2>4. mem' = [mem EXCEPT !.slow = @ \cup {}, !.lost = @ \cup {b}]
    BY <1>m, <2>1, <2>3 DEF Lab!MemOK, Lab!Memory
  <2> QED
    <3>1. PICK s \in Lab(l)!Directions \cup {"TERM"} : s = "TERM" OBVIOUS
    <3>2. pending' = Lab(l)!Taken(b, {s}) /\ (s = "USR1" => {} = {b}) /\ (s = "TERM" => {b} = {b})
      BY <2>1, <3>1
    <3> QED BY <1>6, <2>1, <2>2, <2>4, <3>2
<1>9. CASE Lab(l)!Killed(b, {"open", "ready"})
  <2>1. /\ at[b] \in {"open", "ready"} /\ at' = [at EXCEPT ![b] = "zombie"] /\ mem' = mem
        /\ pending' = [pending EXCEPT ![b] = {}]
    BY <1>9 DEF Lab!Killed
  <2>2. at'[b] = "zombie" /\ pending'[b] = {} /\ pending' = [pending EXCEPT ![b] = pending'[b]]
    BY <1>m, <2>1 DEF Lab!MemOK
  <2>3. Lab(l)!ReadInv(b)' BY <2>2 DEF Lab!ReadInv, Lab!ToRead, Lab!IsPending, Lab!Live
  <2>4. mem' = [mem EXCEPT !.slow = @ \cup {}, !.lost = @ \cup {}]
    <3>1. mem \in Lab(l)!Memory BY <1>m DEF Lab!MemOK
    <3>2. mem.slow \cup {} = mem.slow /\ mem.lost \cup {} = mem.lost OBVIOUS
    <3>3. mem = [mem EXCEPT !.slow = mem.slow, !.lost = mem.lost] BY <3>1 DEF Lab!Memory
    <3> QED BY <2>1, <3>2, <3>3
  <2> QED BY <1>2, <2>1, <2>2, <2>3, <2>4 DEF Lab!BoxPlaces
<1> QED BY <1>1, <1>3, <1>4, <1>5, <1>7, <1>8, <1>9 DEF Lab!BoxStep

\* A step of the donor after which every box is as it should be.
LEMMA LabDonorMoves ==
  ASSUME NEW l \in BOOLEAN, Lab(l)!IndInv, Lab(l)!MemOK',
         NEW to \in Lab(l)!DonorPlaces \ {"none", "reaped"},
         at' = [at EXCEPT ![Lab(l)!Donor] = to], at[Lab(l)!Donor] \notin {"none", "reaped"},
         to \in {"throw", "half", "thrown"} => mem'.to \in Lab(l)!Box,
         to \in {"half", "thrown"} => mem'.to \in mem'.created,
         \A c \in Lab(l)!Box : Lab(l)!BoxInv(c)'
  PROVE  Lab(l)!IndInv'
<1> USE LabNumbers
<1>1. /\ at'[0] = at[0] /\ at'[Lab(l)!Donor] = to
      /\ \A c \in Lab(l)!Box : at'[c] = at[c]
  BY DEF Lab!IndInv, Lab!MemOK
<1>2. at[0] \notin {"boxes", "hire", "test", "collect", "done"} BY DEF Lab!IndInv, Lab!PlaceInv
<1>3. Lab(l)!PlaceInv' BY <1>1, <1>2 DEF Lab!IndInv, Lab!PlaceInv
<1> QED BY <1>3 DEF Lab!IndInv

\* A step of the donor that changes no box but for its SIGTERM.
LEMMA LabDonorAlone ==
  ASSUME NEW l \in BOOLEAN, Lab(l)!IndInv, Lab(l)!MemOK',
         NEW to \in Lab(l)!DonorPlaces \ {"none", "reaped", "half", "thrown"},
         at' = [at EXCEPT ![Lab(l)!Donor] = to],
         at[Lab(l)!Donor] \notin {"none", "reaped", "half", "thrown"},
         to = "throw" => mem'.to \in Lab(l)!Box,
         \A c \in Lab(l)!Box :
           \/ pending'[c] = pending[c]
           \/ pending'[c] = pending[c] \cup {[sig |-> "TERM", from |-> 0]},
         mem'.donors = mem.donors, mem'.file = mem.file, mem'.read = mem.read,
         mem'.thrown = mem.thrown, mem'.cut = mem.cut, mem'.slow = mem.slow,
         mem.lost \subseteq mem'.lost, mem'.created = mem.created
  PROVE  Lab(l)!IndInv'
<1> USE LabNumbers
<1>1. /\ at'[0] = at[0] /\ at'[Lab(l)!Donor] = to
      /\ \A c \in Lab(l)!Box : at'[c] = at[c]
  BY DEF Lab!IndInv, Lab!MemOK
<1>2. at[0] \notin {"boxes", "hire", "test", "collect", "done"} BY DEF Lab!IndInv, Lab!PlaceInv
<1>3. ASSUME NEW c \in Lab(l)!Box PROVE Lab(l)!BoxInv(c)'
  <2>1. Lab(l)!BoxInv(c) BY DEF Lab!IndInv
  <2>2. Lab(l)!Written(c) = 0 /\ Lab(l)!Written(c)' = 0 BY <1>1 DEF Lab!Written
  <2>3. /\ \A r \in pending'[c] : r.sig \in {"USR1", "TERM"}
        /\ Lab(l)!IsPending(c, "USR1")' <=> Lab(l)!IsPending(c, "USR1")
    BY <2>1 DEF Lab!BoxInv, Lab!IsPending
  <2>4. at[c] = "none" => c \notin mem'.created BY <2>1 DEF Lab!BoxInv
  <2> QED BY <1>1, <1>2, <2>1, <2>2, <2>3, <2>4, LabFrame
<1> QED BY <1>3, LabDonorMoves

\* A step of the donor: it writes the two fields of a donation and tells the box.
LEMMA LabDonorStep ==
  ASSUME NEW l \in BOOLEAN, Lab(l)!IndInv, Lab(l)!DonorStep
  PROVE  Lab(l)!IndInv'
<1> USE LabNumbers DEF Lab!Move
<1> DEFINE d == Lab(l)!Donor
<1>m. Lab(l)!MemOK /\ Lab(l)!PlaceInv BY DEF Lab!IndInv
<1>d. at[d] \in Lab(l)!DonorPlaces BY <1>m DEF Lab!PlaceInv
<1>1. ASSUME NEW to \in Lab(l)!DonorPlaces \ {"none", "reaped", "half", "thrown"},
             at' = [at EXCEPT ![d] = to],
             at[d] \notin {"none", "reaped", "half", "thrown"},
             to = "throw" => at[d] = "throw",
             NEW lost \in {{}, {d}}, mem' = [mem EXCEPT !.lost = @ \cup lost],
             pending' = [pending EXCEPT ![d] = pending'[d]], pending'[d] \subseteq pending[d]
      PROVE  Lab(l)!IndInv'
  <2>1. /\ mem'.donors = mem.donors /\ mem'.file = mem.file /\ mem'.read = mem.read
        /\ mem'.thrown = mem.thrown /\ mem'.cut = mem.cut /\ mem'.slow = mem.slow
        /\ mem'.lost = mem.lost \cup lost /\ mem'.created = mem.created /\ mem'.to = mem.to
        /\ mem' \in Lab(l)!Memory
    <3>1. mem.lost \cup lost \subseteq Lab(l)!Group BY <1>m DEF Lab!MemOK, Lab!Memory
    <3> QED BY <1>m, <1>1, <3>1 DEF Lab!MemOK, Lab!Memory
  <2>2. Lab(l)!MemOK' BY <1>m, <1>1, <2>1 DEF Lab!MemOK, Lab!Places
  <2>3. \A c \in Lab(l)!Box : pending'[c] = pending[c] BY <1>m, <1>1 DEF Lab!MemOK
  <2>4. to = "throw" => mem'.to \in Lab(l)!Box BY <1>m, <1>1, <2>1 DEF Lab!PlaceInv
  <2> QED BY <1>1, <2>1, <2>2, <2>3, <2>4, LabDonorAlone
<1>n. mem' = mem => mem' = [mem EXCEPT !.lost = @ \cup {}] BY <1>m DEF Lab!MemOK, Lab!Memory
<1>2. CASE Lab(l)!DonorReady
  <2>1. PICK to \in {"caught", "suspended"} :
          at[d] \in {"new", "caught"} /\ at' = [at EXCEPT ![d] = to]
    BY <1>2 DEF Lab!DonorReady
  <2>2. pending' = [pending EXCEPT ![d] = pending'[d]] /\ pending'[d] = pending[d] /\ mem' = mem
    BY <1>2, <1>m DEF Lab!DonorReady, Lab!MemOK
  <2> QED BY <1>1, <1>n, <2>1, <2>2 DEF Lab!DonorPlaces
<1>3. CASE Lab(l)!HandledTooSoon(d) \/ Lab(l)!HandlesTerm(d)
  <2>1. PICK sigs :
          /\ at[d] \in {"open", "ready", "new", "caught"} /\ at' = at /\ pending' = Lab(l)!Taken(d, sigs)
          /\ \/ mem' = [mem EXCEPT !.lost = @ \cup ({d} \cap {d}), !.slow = @ \cup ({d} \cap Lab(l)!Box)]
             \/ mem' = [mem EXCEPT !.lost = @ \cup ({d} \cap Lab(l)!Box)]
    BY <1>3 DEF Lab!HandledTooSoon, Lab!HandlesTerm
  <2>2. {d} \cap {d} = {d} /\ {d} \cap Lab(l)!Box = {} OBVIOUS
  <2>3. PICK lost \in {{}, {d}} : mem' = [mem EXCEPT !.lost = @ \cup lost]
    <3>1. CASE mem' = [mem EXCEPT !.lost = @ \cup ({d} \cap Lab(l)!Box)] BY <2>2, <3>1
    <3>2. CASE mem' = [mem EXCEPT !.lost = @ \cup ({d} \cap {d}), !.slow = @ \cup ({d} \cap Lab(l)!Box)]
      <4>1. mem' = [mem EXCEPT !.lost = @ \cup {d}, !.slow = @ \cup {}] BY <2>2, <3>2
      <4>2. mem' = [mem EXCEPT !.lost = @ \cup {d}] BY <1>m, <4>1 DEF Lab!MemOK, Lab!Memory
      <4> QED BY <4>2
    <3> QED BY <2>1, <3>1, <3>2
  <2>4. /\ pending' = [pending EXCEPT ![d] = pending'[d]] /\ pending'[d] \subseteq pending[d]
        /\ at' = [at EXCEPT ![d] = at[d]]
    BY <1>m, <2>1 DEF Lab!MemOK, Lab!Taken
  <2>5. at[d] \in Lab(l)!DonorPlaces \ {"none", "reaped", "half", "thrown"} BY <1>d, <2>1
  <2> QED BY <1>1, <2>1, <2>3, <2>4, <2>5
<1>4. CASE Lab(l)!Killed(d, {"new"})
  <2>1. /\ at[d] = "new" /\ at' = [at EXCEPT ![d] = "zombie"] /\ mem' = mem
        /\ pending' = [pending EXCEPT ![d] = {}]
    BY <1>4 DEF Lab!Killed
  <2>2. pending' = [pending EXCEPT ![d] = pending'[d]] /\ pending'[d] = {}
    BY <1>m, <2>1 DEF Lab!MemOK
  <2> QED BY <1>1, <1>n, <2>1, <2>2 DEF Lab!DonorPlaces
<1>5. CASE Lab(l)!Directed
  <2>1. PICK b : /\ Lab(l)!GoesTo(b)
                 /\ \/ Lab(l)!TermToAll(d) \/ pending' = [pending EXCEPT ![d] = {}]
    BY <1>5 DEF Lab!Directed
  <2>2. PICK to \in {"throw", "zombie"}, box \in Lab(l)!Box \cup {0} :
          /\ at[d] = "suspended" /\ at' = [at EXCEPT ![d] = to]
          /\ mem' = [mem EXCEPT !.to = box] /\ (to = "throw" => box \in Lab(l)!Box)
    BY <2>1 DEF Lab!GoesTo
  <2>3. /\ mem'.donors = mem.donors /\ mem'.file = mem.file /\ mem'.read = mem.read
        /\ mem'.thrown = mem.thrown /\ mem'.cut = mem.cut /\ mem'.slow = mem.slow
        /\ mem'.lost = mem.lost /\ mem'.created = mem.created /\ mem'.to = box
    BY <1>m, <2>2 DEF Lab!MemOK, Lab!Memory
  <2>4. mem' \in Lab(l)!Memory
    <3>1. box \in 0 .. Boxes BY <2>2
    <3> QED BY <1>m, <2>2, <3>1 DEF Lab!MemOK, Lab!Memory
  <2>5. /\ pending' \in [Procs -> SUBSET [sig : Lab(l)!Directions \cup {"TERM", "CHLD"}, from : {0}]]
        /\ \A c \in Procs \ {d} : pending'[c] \in {pending[c], pending[c] \cup {[sig |-> "TERM", from |-> 0]}}
    <3>1. CASE Lab(l)!TermToAll(d)
      <4>1. Lab(l)!Signalled(Lab(l)!Group, "TERM") \in
              [Procs -> SUBSET [sig : Lab(l)!Directions \cup {"TERM", "CHLD"}, from : {0}]]
        BY <1>m, LabSignal
      <4>2. \A c \in Procs : Lab(l)!Signalled(Lab(l)!Group, "TERM")[c] \in
              {pending[c], pending[c] \cup {[sig |-> "TERM", from |-> 0]}}
        BY DEF Lab!Signalled, Lab!Posted
      <4> QED BY <3>1, <4>1, <4>2 DEF Lab!TermToAll
    <3>2. CASE pending' = [pending EXCEPT ![d] = {}] BY <1>m, <3>2 DEF Lab!MemOK
    <3> QED BY <2>1, <3>1, <3>2
  <2>6. Lab(l)!MemOK' BY <1>m, <2>2, <2>4, <2>5 DEF Lab!MemOK, Lab!Places, Lab!DonorPlaces
  <2>7. \A c \in Lab(l)!Box : pending'[c] = pending[c]
                              \/ pending'[c] = pending[c] \cup {[sig |-> "TERM", from |-> 0]}
    BY <2>5
  <2> QED BY <2>2, <2>3, <2>6, <2>7, LabDonorAlone DEF Lab!DonorPlaces
\* There is no file: all die, and no box has been left to fork.
<1>6. CASE Lab(l)!NoFile
  <2>1. /\ at[d] = "throw" /\ mem' = mem /\ pending' = [p \in Procs |-> {}]
        /\ at' = [p \in Procs |-> IF p \in Lab(l)!Group /\ Lab(l)!Live(p) THEN "zombie" ELSE at[p]]
    BY <1>6 DEF Lab!NoFile, Lab!NothingPending
  <2>2. at[0] \in {"direct", "await", "zombie"} BY <1>m, <2>1 DEF Lab!PlaceInv, Lab!FirstPlaces
  <2>3. /\ at'[0] = "zombie" /\ at'[d] = "zombie"
        /\ \A b \in Lab(l)!Box : at'[b] = IF Lab(l)!Live(b) THEN "zombie" ELSE at[b]
    BY <2>1, <2>2 DEF Lab!Live
  <2>4. Lab(l)!MemOK' BY <1>m, <2>1 DEF Lab!MemOK, Lab!Places, Lab!BoxPlaces
  <2>5. ASSUME NEW b \in Lab(l)!Box
        PROVE  at[b] \in Lab(l)!BoxPlaces /\ at[b] # "none" /\ at'[b] \in {"zombie", "reaped"}
    BY <1>m, <2>2, <2>3 DEF Lab!IndInv, Lab!BoxInv, Lab!PlaceInv, Lab!BoxPlaces, Lab!Live
  <2>6. Lab(l)!PlaceInv'
    BY <2>3, <2>5 DEF Lab!PlaceInv, Lab!FirstPlaces, Lab!DonorPlaces
  <2>7. ASSUME NEW b \in Lab(l)!Box PROVE Lab(l)!BoxInv(b)'
    <3>1. Lab(l)!FileInv(b) BY DEF Lab!IndInv, Lab!BoxInv
    <3>2. Lab(l)!Written(b)' = 0 /\ Lab(l)!Written(b) = 0 BY <2>1, <2>3 DEF Lab!Written
    <3>3. Lab(l)!FileInv(b)' BY <2>1, <3>1, <3>2, LabFile
    <3>4. Lab(l)!ReadInv(b)'
      BY <2>1, <2>5 DEF Lab!ReadInv, Lab!ToRead, Lab!IsPending, Lab!Live
    <3> QED BY <2>1, <2>3, <2>5, <3>3, <3>4 DEF Lab!BoxInv, Lab!BoxPlaces
  <2> QED BY <2>4, <2>6, <2>7 DEF Lab!IndInv
<1> DEFINE b == mem.to
\* The donor writes a field to the file of its box.
<1>7. ASSUME NEW i \in {1, 2}, Lab(l)!Write(Lab(l)!Writes[i], IF i = 1 THEN "throw" ELSE "half",
                                            IF i = 1 THEN "half" ELSE "thrown")
      PROVE  Lab(l)!IndInv'
  <2> DEFINE field == <<mem.donors, Lab(l)!Writes[i]>>
  <2>1. PICK slow \in {{}, {b}} :
          /\ at[d] = (IF i = 1 THEN "throw" ELSE "half") /\ b \in mem.created /\ pending' = pending
          /\ at' = [at EXCEPT ![d] = IF i = 1 THEN "half" ELSE "thrown"]
          /\ mem' = [mem EXCEPT !.file[b] = Append(@, field), !.slow = @ \cup slow]
          /\ Lab(l)!Busy(b) => slow = {b}
    <3> DEFINE slow == IF Lab(l)!Busy(b) THEN {b} ELSE {}
    <3>1. (IF Lab(l)!Busy(b) THEN mem.slow \cup {b} ELSE mem.slow) = mem.slow \cup slow OBVIOUS
    <3>2. slow \in {{}, {b}} /\ (Lab(l)!Busy(b) => slow = {b}) OBVIOUS
    <3> HIDE DEF slow
    <3>3. mem' = [mem EXCEPT !.file[b] = Append(@, field), !.slow = @ \cup slow]
      BY <1>7, <3>1 DEF Lab!Write
    <3> QED BY <1>7, <3>2, <3>3 DEF Lab!Write
  <2>2. b \in Lab(l)!Box /\ field \in Nat \X Lab(l)!Field
    BY <1>m, <2>1 DEF Lab!PlaceInv, Lab!MemOK, Lab!Memory
  <2> HIDE DEF field
  <2>3. /\ mem'.file = [mem.file EXCEPT ![b] = Append(@, field)] /\ mem'.slow = mem.slow \cup slow
        /\ mem'.donors = mem.donors /\ mem'.to = mem.to /\ mem'.created = mem.created
        /\ mem'.read = mem.read /\ mem'.thrown = mem.thrown /\ mem'.lost = mem.lost
        /\ mem'.cut = mem.cut
    BY <1>m, <2>1 DEF Lab!MemOK, Lab!Memory
  <2>4. mem' \in Lab(l)!Memory
    <3>1. mem'.file \in [Lab(l)!Box -> Seq(Nat \X Lab(l)!Field)]
      BY <1>m, <2>2, <2>3 DEF Lab!MemOK, Lab!Memory
    <3>2. mem'.slow \subseteq Lab(l)!Box BY <1>m, <2>2, <2>3 DEF Lab!MemOK, Lab!Memory
    <3> QED BY <1>m, <2>1, <2>3, <3>1, <3>2 DEF Lab!MemOK, Lab!Memory
  <2>5. Lab(l)!MemOK' BY <1>m, <2>1, <2>4 DEF Lab!MemOK, Lab!Places, Lab!DonorPlaces
  <2>6. /\ at'[d] = (IF i = 1 THEN "half" ELSE "thrown") /\ at'[0] = at[0]
        /\ \A c \in Lab(l)!Box : at'[c] = at[c]
    BY <1>m, <2>1 DEF Lab!MemOK
  <2>7. at[0] \notin {"boxes", "hire", "test", "collect", "done"} BY <1>m, <2>1 DEF Lab!PlaceInv
  <2>8. ASSUME NEW c \in Lab(l)!Box PROVE Lab(l)!BoxInv(c)'
    <3>1. Lab(l)!BoxInv(c) BY DEF Lab!IndInv
    <3>2. CASE c # b
      <4>1. Lab(l)!Written(c) = 0 /\ Lab(l)!Written(c)' = 0 BY <2>3, <3>2 DEF Lab!Written
      <4>2. mem'.file[c] = mem.file[c] BY <1>m, <2>3, <3>2 DEF Lab!MemOK, Lab!Memory
      <4>3. Lab(l)!FileInv(c)' BY <2>3, <3>1, <4>1, <4>2, LabFile DEF Lab!BoxInv
      <4> QED BY <2>1, <2>3, <2>6, <2>7, <3>1, <4>1, <4>2, LabFrame DEF Lab!BoxInv, Lab!IsPending
    <3>3. CASE c = b
      <4>1. Lab(l)!Written(b) = i - 1 /\ Lab(l)!Written(b)' = i
        BY <2>1, <2>3, <2>6 DEF Lab!Written
      <4>2. Lab(l)!FileInv(b)'
        <5> DEFINE n == Len(mem.thrown[b])
        <5>1. /\ n \in Nat /\ Len(mem.file[b]) = 2 * n + (i - 1)
              /\ \A j \in 1 .. n : /\ mem.file[b][2 * j - 1] = <<mem.thrown[b][j], Lab(l)!Writes[1]>>
                                   /\ mem.file[b][2 * j] = <<mem.thrown[b][j], Lab(l)!Writes[2]>>
              /\ i = 2 => mem.file[b][2 * n + 1] = <<mem.donors, Lab(l)!Writes[1]>>
          <6>1. Lab(l)!FileInv(b) BY <3>1, <3>3 DEF Lab!BoxInv
          <6>2. n \in Nat BY <1>m, <2>2 DEF Lab!MemOK, Lab!Memory
          <6> QED BY <4>1, <6>1, <6>2 DEF Lab!FileInv
        <5>2. /\ mem'.file[b] = Append(mem.file[b], field)
              /\ mem.file[b] \in Seq(Nat \X Lab(l)!Field)
          BY <1>m, <2>2, <2>3 DEF Lab!MemOK, Lab!Memory
        <5>n. Lab(l)!Writes' = Lab(l)!Writes
          BY DEF Lab!Writes, Lab!SopWrites, Lab!PolWrites
        <5> HIDE DEF n
        <5>3. Len(mem'.file[b]) = 2 * n + i BY <5>1, <5>2
        <5>4. \A j \in 1 .. 2 * n + (i - 1) : mem'.file[b][j] = mem.file[b][j]
          BY <2>2, <5>1, <5>2
        <5>5. mem'.file[b][2 * n + i] = field BY <2>2, <5>1, <5>2
        <5>6. ASSUME NEW j \in 1 .. n
              PROVE  /\ mem'.file[b][2 * j - 1] = <<mem.thrown[b][j], Lab(l)!Writes[1]>>
                     /\ mem'.file[b][2 * j] = <<mem.thrown[b][j], Lab(l)!Writes[2]>>
          <6>1. 2 * j - 1 \in 1 .. 2 * n + (i - 1) /\ 2 * j \in 1 .. 2 * n + (i - 1) BY <5>1
          <6> QED BY <5>1, <5>4, <6>1
        <5>7. mem'.file[b][2 * n + 1] = <<mem.donors, Lab(l)!Writes[1]>>
          <6>1. CASE i = 1 BY <5>5, <6>1 DEF field
          <6>2. CASE i = 2
            <7>1. 2 * n + 1 \in 1 .. 2 * n + (i - 1) BY <5>1, <6>2
            <7> QED BY <5>1, <5>4, <6>2, <7>1
          <6> QED BY <6>1, <6>2
        <5>8. i = 2 => mem'.file[b][2 * n + 2] = <<mem.donors, Lab(l)!Writes[2]>>
          BY <5>5 DEF field
        <5> QED BY <2>3, <4>1, <5>3, <5>6, <5>7, <5>8, <5>n DEF Lab!FileInv, n
      <4>3. Lab(l)!ReadInv(b)'
        <5>1. Lab(l)!ReadInv(b) BY <3>1, <3>3 DEF Lab!BoxInv
        <5>2. at'[b] = at[b] /\ (Lab(l)!IsPending(b, "USR1")' <=> Lab(l)!IsPending(b, "USR1"))
          BY <2>1, <2>2, <2>6 DEF Lab!IsPending
        <5>3. b \notin mem'.slow => b \notin mem.slow /\ ~Lab(l)!ToRead(b)
          BY <2>1, <2>3 DEF Lab!Busy, Lab!ToRead
        <5> QED BY <2>3, <5>1, <5>2, <5>3 DEF Lab!ReadInv, Lab!ToRead, Lab!Live, Lab!Donation
      <4>4. at[b] # "none" BY <1>m, <2>2, <2>7 DEF Lab!PlaceInv
      <4> QED
        BY <2>1, <2>2, <2>3, <2>6, <2>7, <3>1, <3>3, <4>2, <4>3, <4>4 DEF Lab!BoxInv, Lab!IsPending
    <3> QED BY <3>2, <3>3
  <2>9. (IF i = 1 THEN "half" ELSE "thrown") \in Lab(l)!DonorPlaces \ {"none", "reaped"}
    BY DEF Lab!DonorPlaces
  <2>10. at[d] \notin {"none", "reaped"} BY <2>1
  <2> QED BY <2>1, <2>2, <2>3, <2>5, <2>8, <2>9, <2>10, LabDonorMoves
<1>8. CASE Lab(l)!WriteFirst BY <1>7, <1>8 DEF Lab!WriteFirst
<1>9. CASE Lab(l)!WriteSecond BY <1>7, <1>9 DEF Lab!WriteSecond
\* The donor has signalled its box and ends.
<1>10. CASE Lab(l)!ThrowIn
  <2>0. PICK k : k = mem.to OBVIOUS
  <2>1. /\ at[d] = "thrown" /\ at' = [at EXCEPT ![d] = "zombie"]
        /\ pending' = [Lab(l)!Signalled({k}, "USR1") EXCEPT ![d] = {}]
        /\ mem' = [mem EXCEPT !.thrown[k] = Append(@, mem.donors), !.to = 0]
    BY <1>10, <2>0 DEF Lab!ThrowIn
  <2>2. k \in Lab(l)!Box /\ mem.donors \in Nat
    BY <1>m, <2>0, <2>1 DEF Lab!PlaceInv, Lab!MemOK, Lab!Memory
  <2>3. /\ mem'.thrown = [mem.thrown EXCEPT ![k] = Append(@, mem.donors)] /\ mem'.slow = mem.slow
        /\ mem'.donors = mem.donors /\ mem'.to = 0 /\ mem'.created = mem.created
        /\ mem'.read = mem.read /\ mem'.file = mem.file /\ mem'.lost = mem.lost
        /\ mem'.cut = mem.cut
    BY <1>m, <2>1 DEF Lab!MemOK, Lab!Memory
  <2>4. mem' \in Lab(l)!Memory
    <3>1. mem'.thrown \in [Lab(l)!Box -> Seq(Nat)]
      BY <1>m, <2>2, <2>3 DEF Lab!MemOK, Lab!Memory
    <3>2. 0 \in 0 .. Boxes OBVIOUS
    <3> QED BY <1>m, <2>1, <2>3, <3>1, <3>2 DEF Lab!MemOK, Lab!Memory
  <2>5. /\ pending' \in [Procs -> SUBSET [sig : Lab(l)!Directions \cup {"TERM", "CHLD"}, from : {0}]]
        /\ \A c \in Lab(l)!Box : pending'[c] = IF c = k /\ Lab(l)!Live(c) /\ ~Lab(l)!IsPending(c, "USR1")
             THEN pending[c] \cup {[sig |-> "USR1", from |-> 0]} ELSE pending[c]
    <3>1. Lab(l)!Signalled({k}, "USR1") \in
              [Procs -> SUBSET [sig : Lab(l)!Directions \cup {"TERM", "CHLD"}, from : {0}]]
      BY <1>m, LabSignal DEF Lab!Directions
    <3>2. \A c \in Procs : Lab(l)!Signalled({k}, "USR1")[c] =
             IF c = k /\ Lab(l)!Live(c) /\ ~Lab(l)!IsPending(c, "USR1")
             THEN pending[c] \cup {[sig |-> "USR1", from |-> 0]} ELSE pending[c]
      BY DEF Lab!Signalled, Lab!Posted
    <3> QED BY <2>1, <3>1, <3>2
  <2>6. Lab(l)!MemOK' BY <1>m, <2>1, <2>4, <2>5 DEF Lab!MemOK, Lab!Places, Lab!DonorPlaces
  <2>7. at'[d] = "zombie" /\ at'[0] = at[0] /\ \A c \in Lab(l)!Box : at'[c] = at[c]
    BY <1>m, <2>1 DEF Lab!MemOK
  <2>8. at[0] \notin {"boxes", "hire", "test", "collect", "done"} BY <1>m, <2>1 DEF Lab!PlaceInv
  <2>9. ASSUME NEW c \in Lab(l)!Box PROVE Lab(l)!BoxInv(c)'
    <3>1. Lab(l)!BoxInv(c) BY DEF Lab!IndInv
    <3>2. CASE c # k
      <4>1. Lab(l)!Written(c) = 0 /\ Lab(l)!Written(c)' = 0
        BY <2>0, <2>3, <2>7, <3>2 DEF Lab!Written
      <4>2. mem'.thrown[c] = mem.thrown[c] BY <1>m, <2>3, <3>2 DEF Lab!MemOK, Lab!Memory
      <4>3. pending'[c] = pending[c] BY <2>5, <3>2
      <4> QED BY <2>3, <2>7, <2>8, <3>1, <4>1, <4>2, <4>3, LabFrame DEF Lab!BoxInv, Lab!IsPending
    <3>3. CASE c = k
      <4> DEFINE n == Len(mem.thrown[k])
      <4>p. pending'[k] = IF Lab(l)!Live(k) /\ ~Lab(l)!IsPending(k, "USR1")
                          THEN pending[k] \cup {[sig |-> "USR1", from |-> 0]} ELSE pending[k]
        BY <2>2, <2>5
      <4>i. Lab(l)!BoxInv(k) /\ Lab(l)!FileInv(k) /\ Lab(l)!ReadInv(k)
        BY <3>1, <3>3 DEF Lab!BoxInv
      <4>1. Lab(l)!Written(k) = 2 /\ Lab(l)!Written(k)' = 0
        BY <2>0, <2>1, <2>2, <2>3, <2>7 DEF Lab!Written
      <4>2. /\ n \in Nat /\ mem'.thrown[k] = Append(mem.thrown[k], mem.donors)
            /\ mem.thrown[k] \in Seq(Nat)
        BY <1>m, <2>2, <2>3 DEF Lab!MemOK, Lab!Memory
      <4>n. Lab(l)!Writes' = Lab(l)!Writes
        BY DEF Lab!Writes, Lab!SopWrites, Lab!PolWrites
      <4>3. /\ Len(mem'.thrown[k]) = n + 1 /\ mem'.thrown[k][n + 1] = mem.donors
            /\ \A j \in 1 .. n : mem'.thrown[k][j] = mem.thrown[k][j]
        BY <2>2, <4>2
      <4>4. Lab(l)!FileInv(k)'
        <5>1. /\ Len(mem.file[k]) = 2 * n + 2
              /\ \A j \in 1 .. n : /\ mem.file[k][2 * j - 1] = <<mem.thrown[k][j], Lab(l)!Writes[1]>>
                                   /\ mem.file[k][2 * j] = <<mem.thrown[k][j], Lab(l)!Writes[2]>>
              /\ mem.file[k][2 * n + 1] = <<mem.donors, Lab(l)!Writes[1]>>
              /\ mem.file[k][2 * n + 2] = <<mem.donors, Lab(l)!Writes[2]>>
          BY <4>i, <4>1, 2 >= 1 DEF Lab!FileInv
        <5>n. n \in Nat BY <4>2
        <5> HIDE DEF n
        <5>2. ASSUME NEW j \in 1 .. n + 1
              PROVE  /\ mem.file[k][2 * j - 1] = <<mem'.thrown[k][j], Lab(l)!Writes[1]>>
                     /\ mem.file[k][2 * j] = <<mem'.thrown[k][j], Lab(l)!Writes[2]>>
          <6>1. CASE j = n + 1
            <7>1. 2 * j - 1 = 2 * n + 1 /\ 2 * j = 2 * n + 2 BY <5>n, <6>1
            <7> QED BY <4>3, <5>1, <6>1, <7>1
          <6>2. CASE j # n + 1
            <7>1. j \in 1 .. n BY <5>n, <6>2
            <7> QED BY <4>3, <5>1, <7>1
          <6> QED BY <6>1, <6>2
        <5>3. Len(mem.file[k]) = 2 * (n + 1) BY <5>n, <5>1
        <5>4. mem'.file[k] = mem.file[k] BY <2>3
        <5> QED BY <4>1, <4>3, <4>n, <5>2, <5>3, <5>4 DEF Lab!FileInv
      <4>5. Lab(l)!ReadInv(k)'
        <5>k. at'[k] = at[k] BY <2>2, <2>7
        <5>2. Lab(l)!Live(k)' <=> Lab(l)!Live(k) BY <5>k DEF Lab!Live
        <5>3. Lab(l)!Live(k) => Lab(l)!IsPending(k, "USR1")'
          <6>1. CASE Lab(l)!IsPending(k, "USR1") BY <4>p, <6>1 DEF Lab!IsPending
          <6>2. CASE Lab(l)!Live(k) /\ ~Lab(l)!IsPending(k, "USR1")
            <7>1. [sig |-> "USR1", from |-> 0] \in pending'[k] BY <4>p, <6>2
            <7> QED BY <7>1 DEF Lab!IsPending
          <6> QED BY <6>1, <6>2
        <5>4. n + 1 > 0 /\ n + 1 - 1 = n BY <4>2
        <5>5. Lab(l)!Live(k) /\ k \notin mem'.slow =>
                /\ ~Lab(l)!ToRead(k) /\ Len(mem'.read[k]) = n
                /\ \A j \in 1 .. n : mem'.read[k][j] = Lab(l)!Donation(mem.thrown[k][j])
          BY <2>3, <4>i, <4>1 DEF Lab!ReadInv
        <5>6. Lab(l)!Live(k) /\ k \notin mem'.slow =>
                \A j \in 1 .. n : mem'.read[k][j] = Lab(l)!Donation(mem'.thrown[k][j])
          BY <4>3, <5>5
        <5> HIDE DEF n
        <5>8. Lab(l)!Live(k)' /\ k \notin mem'.slow => Lab(l)!ToRead(k)' /\ at'[k] # "read"
          BY <5>k, <5>2, <5>3, <5>5 DEF Lab!ToRead
        <5> QED BY <4>1, <4>3, <5>2, <5>4, <5>5, <5>6, <5>8 DEF Lab!ReadInv, Lab!Donation
      <4>6. at[k] # "none" BY <1>m, <2>2, <2>8 DEF Lab!PlaceInv
      <4>7. \A r \in pending'[k] : r.sig \in {"USR1", "TERM"}
        BY <4>p, <4>i DEF Lab!BoxInv
      <4>8. at'[k] = at[k] /\ at[k] \in Lab(l)!BoxPlaces /\ at'[0] = at[0]
        BY <2>2, <2>7, <4>i DEF Lab!BoxInv
      <4> HIDE DEF n
      <4> QED BY <2>8, <3>3, <4>4, <4>5, <4>6, <4>7, <4>8 DEF Lab!BoxInv, Lab!BoxPlaces
    <3> QED BY <3>2, <3>3
  <2> QED BY <2>1, <2>6, <2>9, LabDonorMoves DEF Lab!DonorPlaces
<1> QED BY <1>2, <1>3, <1>4, <1>5, <1>6, <1>8, <1>9, <1>10 DEF Lab!DonorStep

\* A step of the first process that leaves files, readings and boxes alone.
LEMMA LabFirstMoves ==
  ASSUME NEW l \in BOOLEAN, Lab(l)!IndInv, Lab(l)!MemOK',
         at'[0] \in Lab(l)!FirstPlaces, at'[Lab(l)!Donor] \in Lab(l)!DonorPlaces,
         \A c \in Lab(l)!Box : at'[c] = at[c],
         at[0] \in {"boxes", "done"} => at'[0] = at[0],
         at'[0] = "boxes" => at[0] = "boxes",
         at'[0] \in {"boxes", "hire", "test", "collect", "done"} =>
           at'[Lab(l)!Donor] \in {"none", "reaped"},
         at'[Lab(l)!Donor] \in {"throw", "half", "thrown"} =>
           at'[Lab(l)!Donor] = at[Lab(l)!Donor] /\ mem'.to = mem.to /\ mem'.donors = mem.donors,
         at[Lab(l)!Donor] \in {"throw", "half", "thrown"} => at'[Lab(l)!Donor] = at[Lab(l)!Donor],
         \A c \in Lab(l)!Box :
           /\ \/ pending'[c] = pending[c]
              \/ pending'[c] = pending[c] \cup {[sig |-> "TERM", from |-> 0]}
           /\ at'[0] \in {"collect", "done"} /\ at[0] \notin {"collect", "done"} =>
                at[c] \in {"term", "zombie", "reaped"} \/ Lab(l)!IsPending(c, "TERM")'
                \/ c \in mem.lost
           /\ at'[0] = "done" /\ ~mem'.cut => at[c] = "reaped"
           /\ c \in mem.lost => c \in mem'.lost,
         mem'.file = mem.file, mem'.read = mem.read, mem'.thrown = mem.thrown,
         mem'.slow = mem.slow, mem'.created = mem.created
  PROVE  Lab(l)!IndInv'
<1> USE LabNumbers
<1>1. Lab(l)!PlaceInv' BY DEF Lab!IndInv, Lab!PlaceInv
<1>2. ASSUME NEW c \in Lab(l)!Box PROVE Lab(l)!BoxInv(c)'
  <2>1. Lab(l)!BoxInv(c) BY DEF Lab!IndInv
  <2>2. Lab(l)!Written(c)' = Lab(l)!Written(c) /\ (Lab(l)!Written(c) # 0 => mem'.donors = mem.donors)
    BY DEF Lab!Written
  <2>3. /\ \A r \in pending'[c] : r.sig \in {"USR1", "TERM"}
        /\ Lab(l)!IsPending(c, "USR1")' <=> Lab(l)!IsPending(c, "USR1")
        /\ Lab(l)!IsPending(c, "TERM") => Lab(l)!IsPending(c, "TERM")'
    BY <2>1 DEF Lab!BoxInv, Lab!IsPending
  <2>4. at'[0] \in {"collect", "done"} =>
          at[c] \in {"term", "zombie", "reaped"} \/ Lab(l)!IsPending(c, "TERM")' \/ c \in mem'.lost
    BY <2>1, <2>3 DEF Lab!BoxInv
  <2>5. at[c] = "none" => c \notin mem'.created BY <2>1 DEF Lab!BoxInv
  <2> QED BY <2>1, <2>2, <2>3, <2>4, <2>5, LabFrame
<1> QED BY <1>1, <1>2 DEF Lab!IndInv

\* A step of the first process, or the SIGTERM of the user to the group.
LEMMA LabFirstStep ==
  ASSUME NEW l \in BOOLEAN, Lab(l)!IndInv, Lab(l)!FirstStep \/ Lab(l)!User
  PROVE  Lab(l)!IndInv'
<1> USE LabNumbers DEF Lab!Move
<1> DEFINE d == Lab(l)!Donor
<1>m. Lab(l)!MemOK /\ Lab(l)!PlaceInv BY DEF Lab!IndInv
<1>p. at[0] \in Lab(l)!FirstPlaces /\ at[d] \in Lab(l)!DonorPlaces
  BY <1>m DEF Lab!PlaceInv
<1>1. ASSUME NEW b \in Lab(l)!Box, Lab(l)!ForkBox(b) PROVE Lab(l)!IndInv'
  <2>1. /\ at[0] = "boxes" /\ at[b] = "none" /\ (b > 1 => at[b - 1] # "none")
        /\ at' = [at EXCEPT ![b] = "open", ![0] = IF b = Boxes THEN "hire" ELSE "boxes"]
        /\ pending' = pending /\ mem' = mem
    BY <1>1 DEF Lab!ForkBox
  <2>2. Lab(l)!MemOK'
    BY <1>m, <2>1 DEF Lab!MemOK, Lab!Places, Lab!BoxPlaces, Lab!FirstPlaces
  <2>3. /\ at'[b] = "open" /\ at'[0] = (IF b = Boxes THEN "hire" ELSE "boxes") /\ at'[d] = at[d]
        /\ \A c \in Lab(l)!Box \ {b} : at'[c] = at[c]
    BY <1>m, <2>1 DEF Lab!MemOK
  <2>4. \A c \in Lab(l)!Box : c < b => at[c] # "none"
    <3> SUFFICES ASSUME NEW c \in Lab(l)!Box, c < b, at[c] = "none" PROVE FALSE OBVIOUS
    <3>1. \A e \in Lab(l)!Box : e > c => at[e] = "none" BY <1>m DEF Lab!PlaceInv
    <3>2. b - 1 \in Lab(l)!Box /\ b > 1 /\ (b - 1 = c \/ b - 1 > c) BY DEF Lab!Box
    <3> QED BY <2>1, <3>1, <3>2
  <2>5. \A c \in Lab(l)!Box : c > b => at[c] = "none" BY <1>m, <2>1 DEF Lab!PlaceInv
  <2>6. ASSUME NEW c \in Lab(l)!Box, at'[c] = "none"
        PROVE  at'[0] = "boxes" /\ \A e \in Lab(l)!Box : e > c => at'[e] = "none"
    <3>1. c # b /\ at[c] = "none" BY <2>3, <2>6
    <3>2. c > b BY <2>4, <3>1
    <3>3. b # Boxes BY <3>2 DEF Lab!Box
    <3>4. \A e \in Lab(l)!Box : e > c => e > b BY <3>2
    <3> QED BY <2>3, <2>5, <3>3, <3>4
  <2>7. Lab(l)!PlaceInv'
    <3>1. /\ at'[0] \in Lab(l)!FirstPlaces /\ at'[d] \in {"none", "reaped"}
      BY <1>m, <2>1, <2>3 DEF Lab!PlaceInv, Lab!FirstPlaces
    <3> QED BY <2>6, <3>1 DEF Lab!PlaceInv, Lab!DonorPlaces
  <2>8. ASSUME NEW c \in Lab(l)!Box PROVE Lab(l)!BoxInv(c)'
    <3>1. Lab(l)!BoxInv(c) BY DEF Lab!IndInv
    <3>2. Lab(l)!Written(c)' = Lab(l)!Written(c) BY <2>1, <2>3 DEF Lab!Written
    <3>3. at'[0] \in {"hire", "boxes"} BY <2>3
    <3>4. CASE c # b
      <4>1. at'[c] = at[c] /\ (at[c] = "none" => c \notin mem'.created)
        BY <2>1, <2>3, <3>1, <3>4 DEF Lab!BoxInv
      <4> QED BY <2>1, <3>1, <3>2, <3>3, <4>1, LabFrame DEF Lab!BoxInv, Lab!IsPending
    <3>5. CASE c = b
      <4>1. Lab(l)!FileInv(c)' BY <2>1, <3>1, <3>2, LabFile DEF Lab!BoxInv
      <4>2. /\ Len(mem.thrown[c]) = 0 /\ Len(mem.read[c]) = 0 /\ Lab(l)!ReadInv(c)
            /\ at'[c] = "open"
        BY <2>1, <2>3, <3>1, <3>5 DEF Lab!BoxInv
      <4>3. ~Lab(l)!ToRead(c) BY <4>2 DEF Lab!ReadInv
      <4>4. ~Lab(l)!ToRead(c)' BY <2>1, <4>2, <4>3 DEF Lab!ToRead, Lab!IsPending
      <4>5. Lab(l)!ReadInv(c)' BY <2>1, <4>2, <4>4 DEF Lab!ReadInv
      <4> QED BY <2>1, <3>1, <3>3, <4>1, <4>2, <4>5 DEF Lab!BoxInv, Lab!BoxPlaces
    <3> QED BY <3>4, <3>5
  <2> QED BY <2>2, <2>7, <2>8 DEF Lab!IndInv
<1>2. ASSUME NEW b \in Lab(l)!Box, Lab(l)!Collect(b) PROVE Lab(l)!IndInv'
  <2>1. /\ at[0] = "collect" /\ at[b] = "zombie" /\ at' = [at EXCEPT ![b] = "reaped"]
        /\ pending' = pending /\ mem' = mem
    BY <1>2 DEF Lab!Collect
  <2>2. Lab(l)!MemOK' BY <1>m, <2>1 DEF Lab!MemOK, Lab!Places, Lab!BoxPlaces
  <2>3. at'[b] = "reaped" /\ at'[0] = at[0] /\ at'[d] = at[d] BY <1>m, <2>1 DEF Lab!MemOK
  <2>4. Lab(l)!BoxInv(b) BY DEF Lab!IndInv
  <2>5. Lab(l)!FileInv(b)' BY <2>1, <2>3, <2>4, LabFile DEF Lab!BoxInv, Lab!Written
  <2>6. Lab(l)!ReadInv(b)'
    BY <2>1, <2>3, <2>4 DEF Lab!BoxInv, Lab!ReadInv, Lab!ToRead, Lab!IsPending, Lab!Live
  <2>7. Lab(l)!BoxInv(b)' BY <2>1, <2>3, <2>4, <2>5, <2>6 DEF Lab!BoxInv, Lab!BoxPlaces
  <2>8. \A c \in Lab(l)!Box : \A r \in pending[c] : r.sig \in {"USR1", "TERM"}
    BY DEF Lab!IndInv, Lab!BoxInv
  <2> QED BY <2>1, <2>2, <2>7, <2>8, LabBoxMoves DEF Lab!BoxPlaces, Lab!IsPending
<1>3. CASE Lab(l)!ForkDonor
  <2>1. /\ at[0] = "hire" /\ at' = [at EXCEPT ![0] = "direct", ![d] = "new"] /\ pending' = pending
        /\ mem' = [mem EXCEPT !.donors = @ + 1, !.to = 0, !.lost = @ \ {d}]
    BY <1>3 DEF Lab!ForkDonor
  <2>2. /\ mem'.file = mem.file /\ mem'.read = mem.read /\ mem'.thrown = mem.thrown
        /\ mem'.slow = mem.slow /\ mem'.created = mem.created /\ mem'.lost = mem.lost \ {d}
    BY <1>m, <2>1 DEF Lab!MemOK, Lab!Memory
  <2>3. mem' \in Lab(l)!Memory
    <3>1. mem.donors + 1 \in Nat /\ 0 \in 0 .. Boxes /\ mem.lost \ {d} \subseteq Lab(l)!Group
      BY <1>m DEF Lab!MemOK, Lab!Memory
    <3> QED BY <1>m, <2>1, <3>1 DEF Lab!MemOK, Lab!Memory
  <2>4. Lab(l)!MemOK'
    BY <1>m, <2>1, <2>3 DEF Lab!MemOK, Lab!Places, Lab!DonorPlaces, Lab!FirstPlaces
  <2>5. /\ at'[0] = "direct" /\ at'[d] = "new" /\ \A c \in Lab(l)!Box : at'[c] = at[c]
    BY <1>m, <2>1 DEF Lab!MemOK
  <2>6. at[d] \in {"none", "reaped"} BY <1>m, <2>1 DEF Lab!PlaceInv
  <2> QED BY <2>1, <2>2, <2>4, <2>5, <2>6, LabFirstMoves DEF Lab!FirstPlaces, Lab!DonorPlaces
\* A step of the first process alone.
<1>4. ASSUME NEW to, at' = [at EXCEPT ![0] = to], to \in Lab(l)!FirstPlaces,
             mem' \in Lab(l)!Memory,
             mem'.file = mem.file, mem'.read = mem.read, mem'.thrown = mem.thrown,
             mem'.slow = mem.slow, mem'.created = mem.created, mem'.lost = mem.lost,
             mem'.donors = mem.donors, mem'.to = mem.to,
             at[0] \in {"boxes", "done"} => to = at[0],
             to = "boxes" => at[0] = "boxes",
             to \in {"boxes", "hire", "test", "collect", "done"} =>
               at[0] \in {"boxes", "hire", "test", "collect", "done"},
             pending' \in [Procs -> SUBSET [sig : Lab(l)!Directions \cup {"TERM", "CHLD"}, from : {0}]],
             \A c \in Lab(l)!Box : \/ pending'[c] = pending[c]
                                   \/ pending'[c] = pending[c] \cup {[sig |-> "TERM", from |-> 0]},
             to \in {"collect", "done"} /\ at[0] \notin {"collect", "done"} =>
               \A c \in Lab(l)!Box :
                 at[c] \in {"term", "zombie", "reaped"} \/ Lab(l)!IsPending(c, "TERM")',
             to = "done" /\ ~mem'.cut => \A c \in Lab(l)!Box : at[c] = "reaped"
      PROVE  Lab(l)!IndInv'
  <2>2. Lab(l)!MemOK' BY <1>m, <1>4 DEF Lab!MemOK, Lab!Places
  <2>3. /\ at'[0] = to /\ at'[d] = at[d] /\ \A c \in Lab(l)!Box : at'[c] = at[c]
    BY <1>m, <1>4 DEF Lab!MemOK
  <2>4. to \in {"boxes", "hire", "test", "collect", "done"} => at[d] \in {"none", "reaped"}
    BY <1>m, <1>4 DEF Lab!PlaceInv
  <2> QED BY <1>p, <1>4, <2>2, <2>3, <2>4, LabFirstMoves
<1>n. mem' = mem =>
        /\ mem' \in Lab(l)!Memory
        /\ mem'.file = mem.file /\ mem'.read = mem.read /\ mem'.thrown = mem.thrown
        /\ mem'.slow = mem.slow /\ mem'.created = mem.created /\ mem'.lost = mem.lost
        /\ mem'.donors = mem.donors /\ mem'.to = mem.to
  BY <1>m DEF Lab!MemOK
<1>d. at[0] = "done" /\ ~mem.cut => \A c \in Lab(l)!Box : at[c] = "reaped"
  BY DEF Lab!IndInv, Lab!BoxInv
<1>5. ASSUME NEW s \in Lab(l)!Directions, Lab(l)!Direct(s) PROVE Lab(l)!IndInv'
  <2>1. /\ at[0] = "direct" /\ at' = [at EXCEPT ![0] = "await"] /\ mem' = mem
        /\ pending' = Lab(l)!Signalled({d}, s)
    BY <1>5 DEF Lab!Direct
  <2>2. /\ pending' \in [Procs -> SUBSET [sig : Lab(l)!Directions \cup {"TERM", "CHLD"}, from : {0}]]
        /\ \A c \in Lab(l)!Box : pending'[c] = pending[c]
    <3>1. pending' \in [Procs -> SUBSET [sig : Lab(l)!Directions \cup {"TERM", "CHLD"}, from : {0}]]
      BY <1>m, <2>1, LabSignal
    <3> QED BY <2>1, <3>1 DEF Lab!Signalled, Lab!Posted
  <2>3. "await" \in Lab(l)!FirstPlaces BY DEF Lab!FirstPlaces
  <2> QED BY <1>4, <1>n, <2>1, <2>2, <2>3
<1>6. CASE Lab(l)!AwaitDonor
  <2>1. /\ at[0] = "await" /\ at[d] = "zombie"
        /\ at' = [at EXCEPT ![0] = "test", ![d] = "reaped"] /\ pending' = pending /\ mem' = mem
    BY <1>6 DEF Lab!AwaitDonor
  <2>2. Lab(l)!MemOK'
    BY <1>m, <2>1 DEF Lab!MemOK, Lab!Places, Lab!DonorPlaces, Lab!FirstPlaces
  <2>3. /\ at'[0] = "test" /\ at'[d] = "reaped" /\ \A c \in Lab(l)!Box : at'[c] = at[c]
    BY <1>m, <2>1 DEF Lab!MemOK
  <2> QED BY <2>1, <2>2, <2>3, LabFirstMoves DEF Lab!FirstPlaces, Lab!DonorPlaces
<1>7. CASE Lab(l)!TestTerm
  <2>1. /\ at[0] = "test" /\ at' = [at EXCEPT ![0] = IF mem.term THEN "collect" ELSE "hire"]
        /\ mem' = mem
        /\ pending' = IF mem.term THEN Lab(l)!Signalled(Lab(l)!Group, "TERM") ELSE pending
    BY <1>7 DEF Lab!TestTerm
  <2>2. CASE ~mem.term
    <3>1. at' = [at EXCEPT ![0] = "hire"] /\ pending' = pending BY <2>1, <2>2
    <3>2. pending' \in [Procs -> SUBSET [sig : Lab(l)!Directions \cup {"TERM", "CHLD"}, from : {0}]]
      BY <1>m, <3>1 DEF Lab!MemOK
    <3>3. "hire" \in Lab(l)!FirstPlaces BY DEF Lab!FirstPlaces
    <3> QED BY <1>4, <1>n, <2>1, <3>1, <3>2, <3>3
  <2>3. CASE mem.term
    <3>1. at' = [at EXCEPT ![0] = "collect"] /\ pending' = Lab(l)!Signalled(Lab(l)!Group, "TERM")
      BY <2>1, <2>3
    <3>2. pending' \in [Procs -> SUBSET [sig : Lab(l)!Directions \cup {"TERM", "CHLD"}, from : {0}]]
      BY <1>m, <3>1, LabSignal
    <3>3. ASSUME NEW c \in Lab(l)!Box
          PROVE  /\ \/ pending'[c] = pending[c]
                    \/ pending'[c] = pending[c] \cup {[sig |-> "TERM", from |-> 0]}
                 /\ at[c] \in {"term", "zombie", "reaped"} \/ Lab(l)!IsPending(c, "TERM")'
      <4>1. pending'[c] = IF Lab(l)!Live(c) /\ ~Lab(l)!IsPending(c, "TERM")
                          THEN pending[c] \cup {[sig |-> "TERM", from |-> 0]} ELSE pending[c]
        BY <3>1 DEF Lab!Signalled, Lab!Posted
      <4>2. at[c] \in Lab(l)!BoxPlaces \ {"none"}
        BY <1>m, <2>1 DEF Lab!IndInv, Lab!BoxInv, Lab!PlaceInv
      <4>3. CASE Lab(l)!Live(c) /\ ~Lab(l)!IsPending(c, "TERM")
        <5>1. [sig |-> "TERM", from |-> 0] \in pending'[c] BY <4>1, <4>3
        <5> QED BY <4>1, <4>3, <5>1 DEF Lab!IsPending
      <4>4. CASE ~Lab(l)!Live(c) \/ Lab(l)!IsPending(c, "TERM")
        BY <4>1, <4>2, <4>4 DEF Lab!Live, Lab!BoxPlaces, Lab!IsPending
      <4> QED BY <4>3, <4>4
    <3>4. "collect" \in Lab(l)!FirstPlaces BY DEF Lab!FirstPlaces
    <3> QED BY <1>4, <1>n, <2>1, <3>1, <3>2, <3>3, <3>4
  <2> QED BY <2>2, <2>3
<1>8. CASE Lab(l)!CollectionEnds
  <2>1. /\ at[0] = "collect" /\ at' = [at EXCEPT ![0] = "done"] /\ pending' = pending /\ mem' = mem
        /\ \A c \in Lab(l)!Box : at[c] = "reaped"
    BY <1>8 DEF Lab!CollectionEnds
  <2>2. pending' \in [Procs -> SUBSET [sig : Lab(l)!Directions \cup {"TERM", "CHLD"}, from : {0}]]
    BY <1>m, <2>1 DEF Lab!MemOK
  <2>3. "done" \in Lab(l)!FirstPlaces BY DEF Lab!FirstPlaces
  <2> QED BY <1>4, <1>n, <2>1, <2>2, <2>3
<1>9. CASE Lab(l)!FirstTerm
  <2>1. /\ pending' = Lab(l)!Taken(0, {"TERM"})
        /\ \/ at' = at /\ mem' = [mem EXCEPT !.term = TRUE]
           \/ /\ at[0] = "collect" /\ at' = [at EXCEPT ![0] = "done"]
              /\ mem' = [mem EXCEPT !.cut = TRUE]
    BY <1>9 DEF Lab!FirstTerm
  <2>2. /\ pending' \in [Procs -> SUBSET [sig : Lab(l)!Directions \cup {"TERM", "CHLD"}, from : {0}]]
        /\ \A c \in Lab(l)!Box : pending'[c] = pending[c]
    BY <1>m, <2>1 DEF Lab!MemOK, Lab!Taken
  <2>3. CASE at' = at /\ mem' = [mem EXCEPT !.term = TRUE]
    <3>1. /\ at' = [at EXCEPT ![0] = at[0]]
          /\ mem'.cut = mem.cut
          /\ mem'.file = mem.file /\ mem'.read = mem.read /\ mem'.thrown = mem.thrown
          /\ mem'.slow = mem.slow /\ mem'.created = mem.created /\ mem'.lost = mem.lost
          /\ mem'.donors = mem.donors /\ mem'.to = mem.to /\ mem' \in Lab(l)!Memory
      BY <1>m, <2>3 DEF Lab!MemOK, Lab!Memory
    <3> QED BY <1>4, <1>p, <1>d, <2>2, <3>1
  <2>4. CASE /\ at[0] = "collect" /\ at' = [at EXCEPT ![0] = "done"]
             /\ mem' = [mem EXCEPT !.cut = TRUE]
    <3>1. /\ mem'.cut
          /\ mem'.file = mem.file /\ mem'.read = mem.read /\ mem'.thrown = mem.thrown
          /\ mem'.slow = mem.slow /\ mem'.created = mem.created /\ mem'.lost = mem.lost
          /\ mem'.donors = mem.donors /\ mem'.to = mem.to /\ mem' \in Lab(l)!Memory
      BY <1>m, <2>4 DEF Lab!MemOK, Lab!Memory
    <3>2. "done" \in Lab(l)!FirstPlaces BY DEF Lab!FirstPlaces
    <3> QED BY <1>4, <2>2, <2>4, <3>1, <3>2
  <2> QED BY <2>1, <2>3, <2>4
<1>10. CASE Lab(l)!User
  <2>1. PICK p \in Lab(l)!Group : /\ pending' = Lab(l)!Signalled({p}, "TERM") /\ at' = at
                                 /\ mem' = [mem EXCEPT !.asked = TRUE]
    BY <1>10 DEF Lab!User, Lab!UserTerm
  <2>2. /\ pending' \in [Procs -> SUBSET [sig : Lab(l)!Directions \cup {"TERM", "CHLD"}, from : {0}]]
        /\ \A c \in Lab(l)!Box : \/ pending'[c] = pending[c]
                                 \/ pending'[c] = pending[c] \cup {[sig |-> "TERM", from |-> 0]}
    <3>1. pending' \in [Procs -> SUBSET [sig : Lab(l)!Directions \cup {"TERM", "CHLD"}, from : {0}]]
      BY <1>m, <2>1, LabSignal
    <3> QED BY <2>1, <3>1 DEF Lab!Signalled, Lab!Posted
  <2>3. /\ at' = [at EXCEPT ![0] = at[0]] /\ mem'.cut = mem.cut
        /\ mem'.file = mem.file /\ mem'.read = mem.read /\ mem'.thrown = mem.thrown
        /\ mem'.slow = mem.slow /\ mem'.created = mem.created /\ mem'.lost = mem.lost
        /\ mem'.donors = mem.donors /\ mem'.to = mem.to /\ mem' \in Lab(l)!Memory
    BY <1>m, <2>1 DEF Lab!MemOK, Lab!Memory
  <2> QED BY <1>4, <1>p, <1>d, <2>2, <2>3
<1> QED BY <1>1, <1>2, <1>3, <1>5, <1>6, <1>7, <1>8, <1>9, <1>10 DEF Lab!FirstStep

\* A step of any process.
LEMMA LabStep ==
  ASSUME NEW l \in BOOLEAN, Lab(l)!IndInv, NEW p, Lab(l)!Step(p)
  PROVE  Lab(l)!IndInv'
BY LabFirstStep, LabDonorStep, LabBoxStep DEF Lab!Step

\* What the invariant says of the readings and of who is left.
LEMMA LabInvariant ==
  ASSUME NEW l \in BOOLEAN, Lab(l)!IndInv
  PROVE  Lab(l)!BoxesCount /\ Lab(l)!AllReaped
<1> USE LabNumbers
<1>m. Lab(l)!MemOK BY DEF Lab!IndInv
<1>1. ASSUME NEW b \in Lab(l)!Box
      PROVE  /\ \A i \in 1 .. Len(mem.file[b]) \div 2 :
                  mem.file[b][2 * i - 1][1] = mem.file[b][2 * i][1]
             /\ Lab(l)!Live(b) /\ b \notin mem.slow =>
                  LET n == Len(mem.thrown[b])
                  IN mem.read[b] = [i \in 1 .. IF Lab(l)!ToRead(b) THEN n - 1 ELSE n |->
                                      Lab(l)!Donation(mem.thrown[b][i])]
  <2> DEFINE n == Len(mem.thrown[b])
  <2>1. Lab(l)!FileInv(b) /\ Lab(l)!ReadInv(b) BY DEF Lab!IndInv, Lab!BoxInv
  <2>2. n \in Nat /\ mem.read[b] \in Seq(Lab(l)!Amount) BY <1>m DEF Lab!MemOK, Lab!Memory
  <2>3. Lab(l)!Written(b) \in {0, 1, 2} BY DEF Lab!Written
  <2>4. /\ Len(mem.file[b]) = 2 * n + Lab(l)!Written(b)
        /\ \A i \in 1 .. n : /\ mem.file[b][2 * i - 1] = <<mem.thrown[b][i], Lab(l)!Writes[1]>>
                             /\ mem.file[b][2 * i] = <<mem.thrown[b][i], Lab(l)!Writes[2]>>
        /\ Lab(l)!Written(b) = 2 => /\ mem.file[b][2 * n + 1] = <<mem.donors, Lab(l)!Writes[1]>>
                                    /\ mem.file[b][2 * n + 2] = <<mem.donors, Lab(l)!Writes[2]>>
    BY <2>1, 2 >= 1 DEF Lab!FileInv
  <2>5. ASSUME NEW i \in 1 .. Len(mem.file[b]) \div 2
        PROVE  mem.file[b][2 * i - 1][1] = mem.file[b][2 * i][1]
    <3> HIDE DEF n
    <3>1. i \in 1 .. n \/ (i = n + 1 /\ Lab(l)!Written(b) = 2) BY <2>2, <2>3, <2>4
    <3>2. CASE i \in 1 .. n BY <2>4, <3>2
    <3>3. CASE i = n + 1 /\ Lab(l)!Written(b) = 2
      <4>1. 2 * i - 1 = 2 * n + 1 /\ 2 * i = 2 * n + 2 BY <2>2, <3>3
      <4>2. /\ mem.file[b][2 * i - 1] = <<mem.donors, Lab(l)!Writes[1]>>
            /\ mem.file[b][2 * i] = <<mem.donors, Lab(l)!Writes[2]>>
        BY <2>4, <3>3, <4>1
      <4> QED BY <4>2
    <3> QED BY <3>1, <3>2, <3>3
  <2>6. ASSUME Lab(l)!Live(b), b \notin mem.slow
        PROVE  mem.read[b] = [i \in 1 .. IF Lab(l)!ToRead(b) THEN n - 1 ELSE n |->
                                Lab(l)!Donation(mem.thrown[b][i])]
    <3>1. /\ Len(mem.read[b]) = IF Lab(l)!ToRead(b) THEN n - 1 ELSE n
          /\ \A i \in 1 .. Len(mem.read[b]) : mem.read[b][i] = Lab(l)!Donation(mem.thrown[b][i])
      BY <2>1, <2>6 DEF Lab!ReadInv
    <3>2. mem.read[b] = [i \in 1 .. Len(mem.read[b]) |-> mem.read[b][i]] BY <2>2
    <3> QED BY <3>1, <3>2
  <2> QED BY <2>5, <2>6
<1>2. Lab(l)!BoxesCount BY <1>1 DEF Lab!BoxesCount
<1>3. Lab(l)!AllReaped
  <2> SUFFICES ASSUME at[0] = "done", NEW b \in Lab(l)!Box
               PROVE  \/ at[b] = "reaped"
                      \/ mem.cut /\ \/ at[b] = "zombie" \/ Lab(l)!IsPending(b, "TERM")
                                    \/ b \in mem.lost \/ at[b] = "term"
    BY DEF Lab!AllReaped
  <2>1. Lab(l)!BoxInv(b) BY DEF Lab!IndInv
  <2> QED BY <2>1 DEF Lab!BoxInv
<1> QED BY <1>2, <1>3

-----------------------------------------------------------------------------
(***************************************************************************)
(* StoneWorkers, RepeatedReports and ChildRelay: who counts its children, and *)
(* who tells them to stop, has waited for all of them at the end.          *)
(***************************************************************************)

\* The workers are processes other than the master.
LEMMA StonesNumbers ==
  /\ 0 \in Procs /\ Stones!Worker \subseteq Procs /\ 0 \notin Stones!Worker
  /\ Workers \in Nat /\ IsFiniteSet(Stones!Worker) /\ Cardinality(Stones!Worker) = Workers
  /\ \A S : Stones!Cardinality(S) = Cardinality(S)
<1>1. \A S : Stones!Cardinality(S) = Cardinality(S) BY DEF Stones!Cardinality, Cardinality
<1>2. Workers \in Nat \ {0} /\ 1 .. Workers \subseteq Procs
  BY ExercisesAssumption DEF Stones!WorkersConstants
<1>3. 1 \in Int /\ Workers \in Int BY <1>2
<1>4. IsFiniteSet(1 .. Workers) /\ Cardinality(1 .. Workers) = Workers
  BY <1>2, <1>3, FS_Interval
<1> QED BY <1>1, <1>2, <1>4, ProcsAssumption DEF Stones!Worker

\* The master begins alone.
LEMMA StonesInit == ASSUME Stones!Init PROVE Stones!IndInv
<1> USE StonesNumbers DEF Stones!Init, Stones!OnlyFirst
<1>1. {w \in Stones!Worker : at[w] = "reaped"} = {} OBVIOUS
<1>2. Cardinality({w \in Stones!Worker : at[w] = "reaped"}) = 0 BY <1>1, FS_EmptySet
<1> QED BY <1>2 DEF Stones!IndInv, Stones!Memory

\* A step of the master or a worker, or a signal of the user.
LEMMA StonesStep ==
  ASSUME Stones!IndInv, NEW p, Stones!Step(p) \/ Stones!User
  PROVE  Stones!IndInv'
<1> USE StonesNumbers DEF Stones!IndInv, Stones!Move
\* A step that reaps no worker.
<1>1. ASSUME NEW q \in Stones!Worker \cup {0}, NEW to, at' = [at EXCEPT ![q] = to],
             at[q] # "reaped", mem' \in Stones!Memory, mem'.counter = mem.counter,
             q = 0 => to \in {"fork", "new", "suspended", "called", "wait", "done"},
             q # 0 => to \in {"new", "suspended", "called", "zombie"},
             at[0] = "done" => q = 0 /\ to = "done",
             q = 0 /\ to = "done" => \A w \in Stones!Worker : at[w] = "reaped"
      PROVE  Stones!IndInv'
  <2>1. {w \in Stones!Worker : at'[w] = "reaped"} = {w \in Stones!Worker : at[w] = "reaped"}
    BY <1>1
  <2> QED BY <1>1, <2>1
<1>2. CASE Stones!User
  <2>1. at' = at /\ mem' = [mem EXCEPT !.asked = TRUE] BY <1>2 DEF Stones!User
  <2>2. mem' \in Stones!Memory /\ mem'.counter = mem.counter BY <2>1 DEF Stones!Memory
  <2> QED BY <2>1, <2>2
<1>3. ASSUME NEW q \in Stones!Worker \cup {0}, Stones!Handle(q) PROVE Stones!IndInv'
  <2>1. /\ at[q] \notin {"none", "zombie", "reaped", "done"}
        /\ at' = [at EXCEPT ![q] = IF at[q] = "suspended" THEN "called" ELSE at[q]]
        /\ mem' = [mem EXCEPT !.early = IF at[q] \in {"fork", "new"} THEN @ \cup {q} ELSE @]
    BY <1>3 DEF Stones!Handle, Stones!Live
  <2>2. mem' \in Stones!Memory /\ mem'.counter = mem.counter BY <2>1 DEF Stones!Memory
  <2>3. at[0] = "done" => q = 0 /\ FALSE BY <2>1
  <2>4. PICK to : to = IF at[q] = "suspended" THEN "called" ELSE at[q] OBVIOUS
  <2> QED BY <1>1, <2>1, <2>2, <2>3, <2>4
<1>n. mem' = mem => mem' \in Stones!Memory /\ mem'.counter = mem.counter OBVIOUS
<1>4. ASSUME NEW q \in Stones!Worker \cup {0}, Stones!Suspend(q) PROVE Stones!IndInv'
  <2>1. at[q] = "new" /\ at' = [at EXCEPT ![q] = "suspended"] /\ mem' = mem
    BY <1>4 DEF Stones!Suspend
  <2> QED BY <1>1, <1>n, <2>1
<1>5. CASE p \in Stones!Worker /\ Stones!Work(p)
  <2>1. at[p] = "called" /\ at' = [at EXCEPT ![p] = "zombie"] /\ mem' = mem
    BY <1>5 DEF Stones!Work
  <2> QED BY <1>1, <1>5, <1>n, <2>1
<1>6. CASE Stones!PassOn
  <2>1. at[0] = "called" /\ at' = [at EXCEPT ![0] = "wait"] /\ mem' = mem
    BY <1>6 DEF Stones!PassOn
  <2> QED BY <1>1, <1>n, <2>1
\* The master has counted all its workers.
<1>7. CASE Stones!AllHome
  <2>1. /\ at[0] = "wait" /\ mem' = mem /\ \A w \in Stones!Worker : at[w] = "reaped"
        /\ at' = [at EXCEPT ![0] = IF mem.counter = Workers THEN "done" ELSE "zombie"]
    BY <1>7 DEF Stones!AllHome
  <2>2. {w \in Stones!Worker : at[w] = "reaped"} = Stones!Worker BY <2>1
  <2>3. at' = [at EXCEPT ![0] = "done"] BY <2>1, <2>2
  <2> QED BY <1>1, <1>n, <2>1, <2>3
<1>8. ASSUME NEW w \in Stones!Worker, Stones!Fork(w) PROVE Stones!IndInv'
  <2>1. /\ at[0] = "fork" /\ at[w] = "none" /\ mem' = mem
        /\ at' = [at EXCEPT ![w] = "new", ![0] = IF w = Workers THEN "new" ELSE "fork"]
    BY <1>8 DEF Stones!Fork
  <2>2. {v \in Stones!Worker : at'[v] = "reaped"} = {v \in Stones!Worker : at[v] = "reaped"}
    BY <2>1
  <2> QED BY <1>n, <2>1, <2>2
<1>9. ASSUME NEW w \in Stones!Worker, Stones!Wait(w) PROVE Stones!IndInv'
  <2> DEFINE R == {v \in Stones!Worker : at[v] = "reaped"}
  <2>1. /\ at[0] = "wait" /\ at[w] = "zombie" /\ at' = [at EXCEPT ![w] = "reaped"]
        /\ mem' = [mem EXCEPT !.counter = @ + 1]
    BY <1>9 DEF Stones!Wait
  <2>2. {v \in Stones!Worker : at'[v] = "reaped"} = R \cup {w} /\ w \notin R BY <2>1
  <2>3. IsFiniteSet(R) BY FS_Subset
  <2>4. Cardinality(R \cup {w}) = Cardinality(R) + 1 BY <2>2, <2>3, FS_AddElement
  <2>5. mem' \in Stones!Memory /\ mem'.counter = mem.counter + 1 BY <2>1 DEF Stones!Memory
  <2>6. mem'.counter = Cardinality({v \in Stones!Worker : at'[v] = "reaped"})
    BY <2>2, <2>4, <2>5
  <2> QED BY <2>1, <2>5, <2>6
<1> QED BY <1>2, <1>3, <1>4, <1>5, <1>6, <1>7, <1>8, <1>9 DEF Stones!Step

\* Who has been counted has been waited for.
LEMMA StonesInvariant == ASSUME Stones!IndInv PROVE Stones!AllReaped
<1> USE StonesNumbers DEF Stones!IndInv, Stones!AllReaped
<1>1. ASSUME at[0] = "done" PROVE mem.counter = Workers
  <2>1. {w \in Stones!Worker : at[w] = "reaped"} = Stones!Worker BY <1>1
  <2> QED BY <1>1, <2>1
<1> QED BY <1>1

-----------------------------------------------------------------------------
\* The children are processes other than the first.
LEMMA ReportNumbers ==
  /\ 0 \in Procs /\ Report!Child \subseteq Procs /\ 0 \notin Report!Child
  /\ Enough \in Nat
BY ExercisesAssumption, ProcsAssumption DEF Report!ReportsConstants, Report!Child

\* The parent begins alone.
LEMMA ReportInit == ASSUME Report!Init PROVE Report!IndInv
<1> USE ReportNumbers DEF Report!Init, Report!OnlyFirst, Report!NothingPending
<1>1. mem \in Report!Memory BY DEF Report!Memory
<1> QED BY <1>1 DEF Report!IndInv, Report!IsPending

\* A step of the parent or a child, in its code or in a handler.
LEMMA ReportStep ==
  ASSUME Report!IndInv, NEW p, Report!Step(p)
  PROVE  Report!IndInv'
<1> USE ReportNumbers DEF Report!Move
<1> USE DEF Report!IndInv
\* A step that neither counts nor posts or handles SIGUSR2.
<1>1. ASSUME mem' = mem, DOMAIN at' = Procs, DOMAIN pending' = Procs,
             at'[0] \in {"fork", "test", "tested", "paused", "stop", "wait", "done"},
             at'[0] \in {"stop", "wait", "done"} => mem.cnt = Enough,
             \A c \in Report!Child :
               Report!IsPending(c, "USR2")' => Report!IsPending(c, "USR2") \/ mem.cnt = Enough,
             at'[0] = "done" => \A c \in Report!Child : at'[c] = "reaped"
      PROVE  Report!IndInv'
  BY <1>1
<1>2. CASE p = 0 /\ Report!Code(0)
  <2>1. CASE \E c \in Report!Child : Report!Fork(c) \/ Report!Wait(c)
    BY <1>1, <2>1 DEF Report!Fork, Report!Wait, Report!IsPending
  <2>2. CASE Report!TestCount \/ Report!Pause \/ Report!NoneLeft
    <3>1. mem.cnt \in Nat /\ mem.cnt <= Enough BY DEF Report!Memory
    <3> QED
      BY <1>1, <2>2, <3>1 DEF Report!TestCount, Report!Pause, Report!NoneLeft, Report!IsPending
  <2>3. CASE Report!StopAll
    <3>1. DOMAIN pending' = Procs
      BY <2>3 DEF Report!StopAll, Report!Signalled, Report!Posted
    <3> QED BY <1>1, <2>3, <3>1 DEF Report!StopAll
  <2> QED BY <1>2, <2>1, <2>2, <2>3 DEF Report!Code
<1>3. CASE p \in Report!Child /\ Report!Code(p)
  <2>0. at[p] \in {"test", "sleep"} /\ at[0] # "done"
    BY <1>3 DEF Report!Code, Report!ChildTest, Report!Report
  <2>1. CASE Report!ChildTest(p)
    BY <1>1, <1>3, <2>0, <2>1 DEF Report!ChildTest, Report!IsPending
  <2>2. CASE Report!Report(p)
    <3>1. /\ pending' = Report!Signalled({0}, "USR1") /\ at' = [at EXCEPT ![p] = "test"]
          /\ mem' = mem
      BY <2>2 DEF Report!Report
    <3>2. DOMAIN pending' = Procs /\ \A c \in Report!Child : pending'[c] = pending[c]
      BY <3>1 DEF Report!Signalled, Report!Posted
    <3> QED BY <1>1, <1>3, <2>0, <3>1, <3>2 DEF Report!IsPending
  <2> QED BY <1>3, <2>1, <2>2 DEF Report!Code
\* The parent counts a report.
<1>4. CASE p = 0 /\ Report!Handler(0)
  <2>1. /\ pending' = Report!Taken(0, {"USR1"}) /\ at[0] # "done"
        /\ mem' = [mem EXCEPT !.cnt = IF @ < Enough THEN @ + 1 ELSE @]
        /\ at' = [at EXCEPT ![0] = IF @ = "paused" THEN "test" ELSE @]
    BY <1>4 DEF Report!Handler, Report!Counted, Report!Live
  <2>2. mem.cnt \in 0 .. Enough BY DEF Report!Memory
  <2>3. /\ mem'.cnt = (IF mem.cnt < Enough THEN mem.cnt + 1 ELSE mem.cnt) /\ mem'.stop = mem.stop
        /\ mem' \in Report!Memory
    BY <2>1, <2>2 DEF Report!Memory
  <2>4. DOMAIN pending' = Procs /\ \A c \in Report!Child : pending'[c] = pending[c]
    BY <2>1 DEF Report!Taken
  <2>5. mem.cnt = Enough => mem'.cnt = Enough BY <2>2, <2>3
  <2>6. /\ at'[0] \in {"fork", "test", "tested", "paused", "stop", "wait"}
        /\ at'[0] \in {"stop", "wait"} => at[0] \in {"stop", "wait"}
        /\ DOMAIN at' = Procs
    BY <2>1
  <2> QED BY <2>3, <2>4, <2>5, <2>6 DEF Report!IsPending
<1>5. CASE p \in Report!Child /\ Report!Handler(p)
  <2>1. /\ Report!IsPending(p, "USR2") /\ pending' = Report!Taken(p, {"USR2"}) /\ at' = at
        /\ mem' = [mem EXCEPT !.stop[p] = TRUE]
    BY <1>5 DEF Report!Handler, Report!Stopped
  <2>2. mem'.cnt = mem.cnt /\ mem' \in Report!Memory /\ mem.cnt = Enough
    BY <1>5, <2>1 DEF Report!Memory
  <2> QED BY <2>1, <2>2 DEF Report!Taken
<1> QED BY <1>2, <1>3, <1>4, <1>5 DEF Report!Step, Report!Code, Report!Handler

\* A parent that is done has waited for all.
LEMMA ReportInvariant == ASSUME Report!IndInv PROVE Report!AllReaped
BY DEF Report!IndInv, Report!AllReaped

-----------------------------------------------------------------------------
\* The children are numbered from 1; the first process is not one of them.
LEMMA RelayNumbers ==
  /\ 0 \in Procs /\ 0 \notin Relay!Child /\ ChildCount \in Relay!Child /\ 1 \in Relay!Child
  /\ \A c \in Relay!Child : c \in Procs /\ c \in Nat /\ c >= 1 /\ c <= ChildCount /\ c \in 0 .. ChildCount
  /\ \A n \in Nat : n >= 1 /\ n <= ChildCount => n \in Relay!Child
  /\ 0 \in 0 .. ChildCount
  /\ \A S : Relay!Cardinality(S) = Cardinality(S)
<1>1. \A S : Relay!Cardinality(S) = Cardinality(S) BY DEF Relay!Cardinality, Cardinality
<1>2. ChildCount \in Nat \ {0} /\ 1 .. ChildCount \subseteq Procs
  BY ExercisesAssumption DEF Relay!RelayConstants
<1> QED BY <1>1, <1>2, ProcsAssumption DEF Relay!Child

\* The parent begins with no call.
LEMMA RelayInit == ASSUME Relay!Init PROVE Relay!IndInv
<1> USE RelayNumbers DEF Relay!Init, Relay!OnlyFirst, Relay!NothingPending
<1>1. mem \in Relay!Memory BY DEF Relay!Memory
<1>2. Relay!Served = 0 /\ Relay!Called0 = 0 /\ Relay!Unspent = 0
  BY DEF Relay!Served, Relay!Called0, Relay!Unspent, Relay!IsPending
<1>3. mem.served = 1 .. Relay!Served /\ Relay!Served + Relay!Called0 + Relay!Unspent <= mem.calls
  BY <1>2
<1> QED BY <1>1, <1>3 DEF Relay!IndInv, Relay!IsPending

\* A step that tells nobody to stop and takes no call.
LEMMA RelayQuiet ==
  ASSUME Relay!IndInv, mem' \in Relay!Memory, mem'.now = mem.now, mem'.calls = mem.calls,
         mem'.served = mem.served, mem'.send = mem.send,
         DOMAIN at' = Procs, DOMAIN pending' = Procs,
         at'[0] \in {"fork", "sethandler", "serve", "await", "reset", "wait", "done"},
         at'[0] = "reset" <=> at[0] = "reset",
         at'[0] \in {"wait", "done"} <=> at[0] \in {"wait", "done"},
         Relay!IsPending(0, "USR1")' => Relay!IsPending(0, "USR1"),
         \A c \in Relay!Child :
           at'[c] \in {"zombie", "reaped"} \/ mem'.stop[c] \/ Relay!IsPending(c, "USR2")' =>
             at[c] \in {"zombie", "reaped"} \/ mem.stop[c] \/ Relay!IsPending(c, "USR2"),
         at'[0] = "done" => \A c \in Relay!Child : at'[c] = "reaped"
  PROVE  Relay!IndInv'
<1> USE RelayNumbers DEF Relay!IndInv
<1>1. /\ Relay!Served' = Relay!Served /\ Relay!Unspent' = Relay!Unspent
      /\ Relay!Called0 \in {0, 1} /\ Relay!Called0' \in {0, 1} /\ Relay!Called0' <= Relay!Called0
  BY DEF Relay!Served, Relay!Unspent, Relay!Called0
<1>2. Relay!Served \in Int /\ Relay!Unspent \in Int /\ mem.calls \in Nat
  BY DEF Relay!Served, Relay!Unspent, Relay!Memory
<1>3. Relay!Served' + Relay!Called0' + Relay!Unspent' <= mem'.calls BY <1>1, <1>2
<1> QED BY <1>1, <1>3

\* A step of the parent or a child, or a call of the user.
LEMMA RelayStep ==
  ASSUME Relay!IndInv, NEW p, Relay!Step(p) \/ Relay!User
  PROVE  Relay!IndInv'
<1> USE RelayNumbers DEF Relay!Move
<1>m. /\ mem \in Relay!Memory /\ DOMAIN at = Procs /\ DOMAIN pending = Procs
      /\ at[0] \in {"fork", "sethandler", "serve", "await", "reset", "wait", "done"}
      /\ mem.now \in Relay!Child /\ mem.calls \in Nat /\ mem.send \in BOOLEAN
      /\ at[0] = "done" => \A c \in Relay!Child : at[c] = "reaped"
  BY DEF Relay!IndInv, Relay!Memory
<1>k. /\ mem.served = 1 .. Relay!Served /\ Relay!Served \in Int
      /\ Relay!Served + Relay!Called0 + Relay!Unspent <= mem.calls
      /\ Relay!Called0 \in {0, 1} /\ Relay!Unspent \in {0, 1}
  BY <1>m DEF Relay!IndInv, Relay!Served, Relay!Called0, Relay!Unspent
<1>1. CASE Relay!User
  <2>1. /\ at' = at /\ mem' = [mem EXCEPT !.calls = mem.calls + 1]
        /\ pending' = Relay!Signalled({0}, "USR1")
    BY <1>1 DEF Relay!User
  <2>2. /\ mem' \in Relay!Memory /\ mem'.calls = mem.calls + 1 /\ mem'.now = mem.now
        /\ mem'.served = mem.served /\ mem'.send = mem.send /\ mem'.stop = mem.stop
    <3>1. mem \in Relay!Memory /\ mem.calls + 1 \in Nat BY <1>m
    <3> QED BY <2>1, <3>1 DEF Relay!Memory
  <2>3. DOMAIN pending' = Procs /\ \A c \in Relay!Child : pending'[c] = pending[c]
    BY <2>1 DEF Relay!Signalled, Relay!Posted
  <2>4. Relay!Served' = Relay!Served /\ Relay!Unspent' = Relay!Unspent /\ Relay!Called0' \in {0, 1}
    BY <2>1, <2>2 DEF Relay!Served, Relay!Unspent, Relay!Called0
  <2>5. Relay!Served' + Relay!Called0' + Relay!Unspent' <= mem'.calls
    BY <1>k, <1>m, <2>2, <2>4
  <2> QED BY <2>1, <2>2, <2>3, <2>4, <2>5 DEF Relay!IndInv, Relay!IsPending
<1>2. ASSUME NEW c \in Relay!Child, Relay!Fork(c) PROVE Relay!IndInv'
  <2>1. /\ at[0] = "fork" /\ at[c] = "none" /\ pending' = pending
        /\ at' = [at EXCEPT ![c] = "idle", ![0] = IF c = ChildCount THEN "sethandler" ELSE "fork"]
        /\ mem' = [mem EXCEPT !.start[c] = mem.start[0]]
    BY <1>2 DEF Relay!Fork
  <2>2. /\ mem' \in Relay!Memory /\ mem'.calls = mem.calls /\ mem'.now = mem.now
        /\ mem'.served = mem.served /\ mem'.send = mem.send /\ mem'.stop = mem.stop
    BY <1>m, <2>1 DEF Relay!Memory
  <2> QED BY <1>m, <2>1, <2>2, RelayQuiet DEF Relay!IsPending
<1>3. CASE Relay!SetHandler
  <2>1. /\ at[0] = "sethandler" /\ pending' = pending /\ mem' = mem
        /\ at' = [at EXCEPT ![0] = "serve"]
    BY <1>3 DEF Relay!SetHandler
  <2> QED BY <1>m, <2>1, RelayQuiet DEF Relay!IsPending
\* A handler of the parent: the call that was pending is noted, or merged.
<1>4. CASE Relay!Called
  <2>1. /\ at' = at /\ Relay!IsPending(0, "USR1") /\ pending' = Relay!Taken(0, {"USR1"})
        /\ mem' = IF at[0] \in {"fork", "sethandler"} THEN [mem EXCEPT !.start[0] = TRUE]
                  ELSE [mem EXCEPT !.send = TRUE]
    BY <1>4 DEF Relay!Called
  <2>2. /\ mem' \in Relay!Memory /\ mem'.calls = mem.calls /\ mem'.now = mem.now
        /\ mem'.served = mem.served /\ mem'.stop = mem.stop
    <3>1. CASE at[0] \in {"fork", "sethandler"} BY <1>m, <2>1, <3>1 DEF Relay!Memory
    <3>2. CASE at[0] \notin {"fork", "sethandler"} BY <1>m, <2>1, <3>2 DEF Relay!Memory
    <3> QED BY <3>1, <3>2
  <2>3. /\ DOMAIN pending' = Procs /\ \A c \in Relay!Child : pending'[c] = pending[c]
        /\ pending'[0] = {r \in pending[0] : r.sig # "USR1"}
    BY <1>m, <2>1 DEF Relay!Taken
  <2>4. Relay!Served' = Relay!Served /\ Relay!Called0' = 0 /\ Relay!Called0 = 1
        /\ Relay!Unspent' \in {0, 1}
    BY <2>1, <2>2, <2>3 DEF Relay!Served, Relay!Unspent, Relay!Called0, Relay!IsPending
  <2>5. Relay!Served' + Relay!Called0' + Relay!Unspent' <= mem'.calls
    BY <1>k, <1>m, <2>2, <2>4
  <2> QED BY <2>1, <2>2, <2>3, <2>4, <2>5 DEF Relay!IndInv, Relay!IsPending
<1>5. CASE Relay!Serve
  <2>1. /\ at[0] = "serve" /\ mem' = mem /\ at' = [at EXCEPT ![0] = "await"]
        /\ pending' = Relay!Signalled({mem.now}, "USR1")
    BY <1>5 DEF Relay!Serve
  <2>2. /\ DOMAIN pending' = Procs /\ pending'[0] = pending[0]
        /\ \A c \in Relay!Child :
             pending'[c] \in {pending[c], pending[c] \cup {[sig |-> "USR1", from |-> 0]}}
    BY <1>m, <2>1 DEF Relay!Signalled, Relay!Posted
  <2>3. \A c \in Relay!Child : Relay!IsPending(c, "USR2")' => Relay!IsPending(c, "USR2")
    BY <2>2 DEF Relay!IsPending
  <2> QED BY <1>m, <2>1, <2>2, <2>3, RelayQuiet DEF Relay!IsPending
\* The child of now is told to stop, and the call that was noted is spent.
<1>6. CASE Relay!StopChild
  <2>1. /\ at[0] = "await" /\ at' = [at EXCEPT ![0] = "reset"] /\ mem.send
        /\ pending' = Relay!Signalled({mem.now}, "USR2")
        /\ mem' = [mem EXCEPT !.served = @ \cup {mem.now}]
    BY <1>6 DEF Relay!StopChild
  <2>2. /\ mem' \in Relay!Memory /\ mem'.calls = mem.calls /\ mem'.now = mem.now
        /\ mem'.served = mem.served \cup {mem.now} /\ mem'.stop = mem.stop
    BY <1>m, <2>1 DEF Relay!Memory
  <2>3. /\ DOMAIN pending' = Procs /\ pending'[0] = pending[0]
        /\ \A c \in Relay!Child \ {mem.now} : pending'[c] = pending[c]
    BY <1>m, <2>1 DEF Relay!Signalled, Relay!Posted
  <2>4. /\ Relay!Served' = mem.now /\ Relay!Served = mem.now - 1 /\ Relay!Called0' = Relay!Called0
        /\ Relay!Unspent' = 0 /\ Relay!Unspent = 1 /\ at'[0] = "reset"
    BY <1>m, <2>1, <2>2, <2>3
    DEF Relay!Served, Relay!Unspent, Relay!Called0, Relay!IsPending
  <2>5. Relay!Served' + Relay!Called0' + Relay!Unspent' <= mem'.calls
    BY <1>k, <1>m, <2>2, <2>4
  <2>6. mem'.served = 1 .. Relay!Served'
    <3>1. 1 .. mem.now = (1 .. (mem.now - 1)) \cup {mem.now} BY <1>m
    <3> QED BY <1>k, <2>2, <2>4, <3>1
  <2>7. ASSUME NEW c \in Relay!Child,
               at'[c] \in {"zombie", "reaped"} \/ mem'.stop[c] \/ Relay!IsPending(c, "USR2")'
        PROVE  c \in mem'.served
    <3>1. CASE c = mem.now BY <2>2, <3>1
    <3>2. CASE c # mem.now
      <4>1. at'[c] = at[c] /\ pending'[c] = pending[c] BY <2>1, <2>3, <3>2
      <4> QED BY <2>2, <2>7, <4>1 DEF Relay!IndInv, Relay!IsPending
    <3> QED BY <3>1, <3>2
  <2> QED BY <1>m, <2>1, <2>2, <2>3, <2>4, <2>5, <2>6, <2>7 DEF Relay!IndInv
<1>7. CASE Relay!Reset
  <2>1. /\ at[0] = "reset" /\ pending' = pending
        /\ at' = [at EXCEPT ![0] = IF mem.now = ChildCount THEN "wait" ELSE "serve"]
        /\ mem' = [mem EXCEPT !.send = FALSE, !.now = IF @ = ChildCount THEN @ ELSE @ + 1]
    BY <1>7 DEF Relay!Reset
  <2>2. (IF mem.now = ChildCount THEN mem.now ELSE mem.now + 1) \in Relay!Child BY <1>m
  <2>3. /\ mem' \in Relay!Memory /\ mem'.calls = mem.calls
        /\ mem'.now = (IF mem.now = ChildCount THEN mem.now ELSE mem.now + 1)
        /\ mem'.served = mem.served /\ mem'.stop = mem.stop /\ mem'.send = FALSE
    BY <1>m, <2>1, <2>2 DEF Relay!Memory
  <2>4. /\ Relay!Served = mem.now /\ Relay!Served' = mem.now /\ Relay!Called0' = Relay!Called0
        /\ Relay!Unspent' = 0
    BY <1>m, <2>1, <2>3
    DEF Relay!Served, Relay!Unspent, Relay!Called0, Relay!IsPending
  <2>5. Relay!Served' + Relay!Called0' + Relay!Unspent' <= mem'.calls
    BY <1>k, <1>m, <2>3, <2>4
  <2> QED BY <1>k, <1>m, <2>1, <2>3, <2>4, <2>5 DEF Relay!IndInv, Relay!IsPending
<1>8. ASSUME NEW c \in Relay!Child, Relay!Wait(c) PROVE Relay!IndInv'
  <2>1. /\ at[0] = "wait" /\ at[c] = "zombie" /\ at' = [at EXCEPT ![c] = "reaped"]
        /\ pending' = pending /\ mem' = mem
    BY <1>8 DEF Relay!Wait
  <2> QED BY <1>m, <2>1, RelayQuiet DEF Relay!IsPending
<1>9. CASE Relay!NoneLeft
  <2>1. /\ at[0] = "wait" /\ at' = [at EXCEPT ![0] = "done"] /\ pending' = pending /\ mem' = mem
        /\ \A c \in Relay!Child : at[c] = "reaped"
    BY <1>9 DEF Relay!NoneLeft
  <2> QED BY <1>m, <2>1, RelayQuiet DEF Relay!IsPending
<1>10. ASSUME NEW c \in Relay!Child, NEW s \in {"USR1", "USR2"}, Relay!ChildHandles(c, s)
       PROVE  Relay!IndInv'
  <2>1. /\ at' = at /\ Relay!IsPending(c, s) /\ pending' = Relay!Taken(c, {s})
        /\ mem' = IF s = "USR1" THEN [mem EXCEPT !.start[c] = TRUE] ELSE [mem EXCEPT !.stop[c] = TRUE]
    BY <1>10 DEF Relay!ChildHandles
  <2>2. /\ mem' \in Relay!Memory /\ mem'.calls = mem.calls /\ mem'.now = mem.now
        /\ mem'.served = mem.served /\ mem'.send = mem.send
        /\ \A e \in Relay!Child : mem'.stop[e] => mem.stop[e] \/ Relay!IsPending(e, "USR2")
    <3>1. CASE s = "USR1" BY <1>m, <2>1, <3>1 DEF Relay!Memory
    <3>2. CASE s = "USR2" BY <1>m, <2>1, <3>2 DEF Relay!Memory
    <3> QED BY <3>1, <3>2
  <2>3. /\ DOMAIN pending' = Procs /\ pending'[0] = pending[0]
        /\ \A e \in Relay!Child : pending'[e] \subseteq pending[e]
    BY <1>m, <2>1 DEF Relay!Taken
  <2> QED BY <1>m, <2>1, <2>2, <2>3, RelayQuiet DEF Relay!IsPending
<1>11. ASSUME NEW c \in Relay!Child, Relay!StartWork(c) \/ Relay!EndWork(c) PROVE Relay!IndInv'
  <2>1. /\ at[c] \in {"idle", "work"} /\ pending' = pending /\ mem' = mem
        /\ \/ at' = [at EXCEPT ![c] = "work"]
           \/ at' = [at EXCEPT ![c] = "zombie"] /\ mem.stop[c]
    BY <1>11 DEF Relay!StartWork, Relay!EndWork
  <2>2. at[0] # "done" BY <1>m, <2>1
  <2> QED BY <1>m, <2>1, <2>2, RelayQuiet DEF Relay!IsPending
<1> QED BY <1>1, <1>2, <1>3, <1>4, <1>5, <1>6, <1>7, <1>8, <1>9, <1>10, <1>11 DEF Relay!Step

\* What the invariant says when the parent is done.
LEMMA RelayInvariant == ASSUME Relay!IndInv PROVE Relay!AllReaped
<1> USE RelayNumbers DEF Relay!IndInv
<1>1. Relay!Served \in Nat /\ Relay!Called0 \in {0, 1} /\ Relay!Unspent \in {0, 1}
  BY DEF Relay!Served, Relay!Called0, Relay!Unspent, Relay!Memory
<1>2. Cardinality(mem.served) = Relay!Served
  <2>1. Cardinality(1 .. Relay!Served) = IF 1 > Relay!Served THEN 0 ELSE Relay!Served - 1 + 1
    <3>1. 1 \in Int /\ Relay!Served \in Int BY <1>1
    <3> QED BY <3>1, FS_Interval
  <2> QED BY <1>1, <2>1
<1>3. Cardinality(mem.served) <= mem.calls BY <1>1, <1>2 DEF Relay!Memory
<1>4. \A c \in Relay!Child : c \in mem.served => 1 .. c \subseteq mem.served BY <1>1
<1> QED BY <1>3, <1>4 DEF Relay!AllReaped

-----------------------------------------------------------------------------
(***************************************************************************)
(* NumberList (prog19.c): the list stays in order and only gets shorter.   *)
(***************************************************************************)

\* Main and the thread that waits for signals are processes.
LEMMA ListNumbers == Length \in Nat /\ 0 \in Procs /\ 1 \in Procs
BY ExercisesAssumption DEF List!ListConstants

\* The list begins complete and in order.
LEMMA ListInit == ASSUME List!Init PROVE List!IndInv
<1> USE ListNumbers DEF List!Init, List!OnlyFirst, List!NothingPending
<1>1. PICK garbage \in BOOLEAN :
        mem = [stop |-> garbage, list |-> [i \in 1 .. Length |-> i], shown |-> <<>>, quit |-> FALSE]
  OBVIOUS
<1>2. [i \in 1 .. Length |-> i] \in Seq(1 .. Length) /\ Len([i \in 1 .. Length |-> i]) = Length
  OBVIOUS
<1>3. mem \in List!Memory BY <1>1, <1>2 DEF List!Memory
<1>4. \A i, j \in 1 .. Len(mem.list) : i < j => mem.list[i] < mem.list[j] BY <1>1, <1>2
<1> QED BY <1>1, <1>3, <1>4 DEF List!IndInv, List!IsPending

\* The entries behind the removed one move up.
LEMMA ListRemoved ==
  ASSUME NEW S, NEW s \in Seq(S), NEW i \in 1 .. Len(s)
  PROVE  LET t == SubSeq(s, 1, i - 1) \o SubSeq(s, i + 1, Len(s)) IN
         /\ t \in Seq(S) /\ Len(t) = Len(s) - 1
         /\ \A k \in 1 .. Len(s) - 1 : t[k] = IF k < i THEN s[k] ELSE s[k + 1]
<1>0. Len(s) \in Nat /\ \A k \in 1 .. Len(s) : s[k] \in S OBVIOUS
<1> DEFINE u == SubSeq(s, 1, i - 1)  v == SubSeq(s, i + 1, Len(s))
<1>1. /\ u \in Seq(S) /\ Len(u) = i - 1 /\ \A k \in 1 .. i - 1 : u[k] = s[k]
  <2>1. 1 \in Int /\ i - 1 \in Int /\ \A k \in 1 .. i - 1 : s[k] \in S BY <1>0
  <2>2. /\ u \in Seq(S) /\ Len(u) = IF 1 <= i - 1 THEN i - 1 - 1 + 1 ELSE 0
        /\ \A k \in 1 .. i - 1 - 1 + 1 : u[k] = s[1 + k - 1]
    BY <2>1, SubSeqProperties
  <2> QED BY <2>2
<1>2. /\ v \in Seq(S) /\ Len(v) = Len(s) - i
      /\ \A k \in 1 .. Len(s) - i : v[k] = s[k + i]
  <2>1. /\ i + 1 \in Int /\ Len(s) \in Int
        /\ \A k \in i + 1 .. Len(s) : s[k] \in S
    BY <1>0
  <2>2. /\ v \in Seq(S)
        /\ Len(v) = IF i + 1 <= Len(s) THEN Len(s) - (i + 1) + 1 ELSE 0
        /\ \A k \in 1 .. Len(s) - (i + 1) + 1 : v[k] = s[i + 1 + k - 1]
    BY <2>1, SubSeqProperties
  <2>3. ASSUME NEW k \in 1 .. Len(s) - i PROVE v[k] = s[k + i]
    <3>1. k \in 1 .. Len(s) - (i + 1) + 1 /\ i + 1 + k - 1 = k + i BY <2>1
    <3> QED BY <2>2, <3>1
  <2>4. Len(v) = Len(s) - i BY <2>1, <2>2
  <2> QED BY <2>2, <2>3, <2>4
<1> HIDE DEF u, v
<1>3. /\ u \o v \in Seq(S) /\ Len(u \o v) = Len(s) - 1
  BY <1>1, <1>2
<1>4. ASSUME NEW k \in 1 .. Len(s) - 1
      PROVE  (u \o v)[k] = IF k < i THEN s[k] ELSE s[k + 1]
  <2>1. (u \o v)[k] = IF k <= Len(u) THEN u[k] ELSE v[k - Len(u)] BY <1>1, <1>2
  <2>2. CASE k < i BY <1>1, <2>1, <2>2
  <2>3. CASE ~(k < i)
    <3>1. k - (i - 1) \in 1 .. Len(s) - i /\ k - (i - 1) + i = k + 1 BY <2>3
    <3> QED BY <1>1, <1>2, <2>1, <2>3, <3>1
  <2> QED BY <2>2, <2>3
<1> QED BY <1>3, <1>4 DEF u, v

\* A step of main or of the thread, or a signal of the user.
LEMMA ListStep ==
  ASSUME List!IndInv, NEW p, List!Step(p) \/ List!User
  PROVE  List!IndInv'
<1> USE ListNumbers DEF List!Move
<1>m. /\ mem \in List!Memory /\ DOMAIN at = Procs /\ DOMAIN pending = Procs
      /\ at[0] \in {"create", "loop", "print", "join", "done"}
      /\ at[0] = "done" => at[1] = "zombie"
      /\ mem.list \in Seq(1 .. Length) /\ mem.shown \in Seq(1 .. Length)
  BY DEF List!IndInv, List!Memory
\* A step that changes nothing that is remembered.
<1>1. ASSUME mem' = mem, DOMAIN at' = Procs, DOMAIN pending' = Procs,
             at'[0] \in {"create", "loop", "print", "join", "done"},
             at'[0] = "done" => at'[1] = "zombie",
             at'[1] \in {"QUIT", "zombie"} \/ List!IsPending(1, "QUIT")' =>
               at[1] \in {"QUIT", "zombie"} \/ List!IsPending(1, "QUIT")
      PROVE  List!IndInv'
  BY <1>1 DEF List!IndInv
<1>2. CASE List!User
  <2>1. PICK s \in {"INT", "QUIT"} :
          /\ at' = at /\ pending' = List!Signalled({1}, s)
          /\ mem' = [mem EXCEPT !.quit = @ \/ (s = "QUIT" /\ List!Live(1))]
    BY <1>2 DEF List!User
  <2>2. /\ mem' \in List!Memory /\ mem'.list = mem.list /\ mem'.shown = mem.shown
        /\ mem'.quit = (mem.quit \/ (s = "QUIT" /\ List!Live(1)))
    BY <1>m, <2>1 DEF List!Memory
  <2>3. DOMAIN pending' = Procs
        /\ pending'[1] = IF List!Live(1) /\ ~List!IsPending(1, s)
                         THEN pending[1] \cup {[sig |-> s, from |-> 0]} ELSE pending[1]
    BY <2>1 DEF List!Signalled, List!Posted
  <2>4. List!IsPending(1, "QUIT")' => List!IsPending(1, "QUIT") \/ (s = "QUIT" /\ List!Live(1))
    BY <2>3 DEF List!IsPending
  <2> QED BY <2>1, <2>2, <2>3, <2>4 DEF List!IndInv
<1>3. CASE p = 0 /\ (List!Create \/ List!TestStop \/ List!Join)
  BY <1>1, <1>3, <1>m DEF List!Create, List!TestStop, List!Join, List!IsPending
<1>4. CASE List!PrintList
  <2>1. /\ at[0] = "print" /\ at' = [at EXCEPT ![0] = "loop"] /\ pending' = pending
        /\ mem' = [mem EXCEPT !.shown = mem.list]
    BY <1>4 DEF List!PrintList
  <2>2. /\ mem' \in List!Memory /\ mem'.list = mem.list /\ mem'.shown = mem.list
        /\ mem'.quit = mem.quit
    BY <1>m, <2>1 DEF List!Memory
  <2> QED BY <1>m, <2>1, <2>2 DEF List!IndInv, List!IsPending
<1>5. ASSUME NEW s \in {"INT", "QUIT"}, List!SigWait(s) PROVE List!IndInv'
  <2>1. /\ at[1] = "wait" /\ at' = [at EXCEPT ![1] = s] /\ mem' = mem
        /\ List!IsPending(1, s) /\ pending' = List!Taken(1, {s})
    BY <1>5 DEF List!SigWait
  <2>2. /\ DOMAIN pending' = Procs /\ at[0] # "done"
        /\ List!IsPending(1, "QUIT")' => List!IsPending(1, "QUIT")
    BY <1>m, <2>1 DEF List!Taken, List!IsPending
  <2> QED BY <1>1, <1>m, <2>1, <2>2
\* An entry is removed: the order stays, and none is new.
<1>6. CASE List!RemoveEntry
  <2>1. at[1] = "INT" /\ at' = [at EXCEPT ![1] = "wait"] /\ pending' = pending /\ at[0] # "done"
    BY <1>6, <1>m DEF List!RemoveEntry
  <2>2. CASE mem' = mem BY <1>1, <1>m, <2>1, <2>2 DEF List!IsPending
  <2>3. ASSUME NEW i \in 1 .. Len(mem.list),
               mem' = [mem EXCEPT !.list = SubSeq(@, 1, i - 1) \o SubSeq(@, i + 1, Len(mem.list))]
        PROVE  List!IndInv'
    <3> DEFINE n == Len(mem.list)
    <3>1. /\ mem' \in List!Memory /\ mem'.shown = mem.shown /\ mem'.quit = mem.quit
          /\ mem'.list \in Seq(1 .. Length) /\ Len(mem'.list) = n - 1
          /\ \A k \in 1 .. n - 1 : mem'.list[k] = IF k < i THEN mem.list[k] ELSE mem.list[k + 1]
      <4> DEFINE t == SubSeq(mem.list, 1, i - 1) \o SubSeq(mem.list, i + 1, n)
      <4>1. /\ t \in Seq(1 .. Length) /\ Len(t) = n - 1
            /\ \A k \in 1 .. n - 1 : t[k] = IF k < i THEN mem.list[k] ELSE mem.list[k + 1]
        BY <1>m, ListRemoved
      <4>2. mem' = [mem EXCEPT !.list = t] BY <2>3
      <4> HIDE DEF t, n
      <4>3. /\ mem' \in List!Memory /\ mem'.shown = mem.shown /\ mem'.quit = mem.quit
            /\ mem'.list = t
        BY <1>m, <4>1, <4>2 DEF List!Memory
      <4> QED BY <4>1, <4>3
    <3>2. \A j, k \in 1 .. n : j < k => mem.list[j] < mem.list[k] BY DEF List!IndInv
    <3>3. n \in Nat /\ \A k \in 1 .. n : mem.list[k] \in Nat BY <1>m
    <3>4. ASSUME NEW j \in 1 .. n - 1, NEW k \in 1 .. n - 1, j < k
          PROVE  mem'.list[j] < mem'.list[k]
      <4>1. /\ j \in 1 .. n /\ k \in 1 .. n /\ j + 1 \in 1 .. n /\ k + 1 \in 1 .. n
            /\ j < k + 1 /\ j + 1 < k + 1
        BY <3>3, <3>4
      <4>2. mem.list[j] < mem.list[k] /\ mem.list[j] < mem.list[k + 1]
            /\ mem.list[j + 1] < mem.list[k + 1]
        BY <3>2, <3>4, <4>1
      <4> HIDE DEF n
      <4>3. k < i => j < i BY <3>3, <3>4
      <4> QED BY <3>1, <4>2, <4>3
    <3>5. ASSUME NEW e \in List!Entries(mem'.list) PROVE e \in List!Entries(mem.list)
      <4>0. DOMAIN mem'.list = 1 .. n - 1 BY <3>1, <3>3
      <4>1. PICK k \in 1 .. n - 1 : e = mem'.list[k] BY <4>0 DEF List!Entries
      <4>2. k \in 1 .. n /\ k + 1 \in 1 .. n BY <3>3
      <4>3. e = mem.list[k] \/ e = mem.list[k + 1] BY <3>1, <4>1
      <4> QED BY <1>m, <4>2, <4>3 DEF List!Entries
    <3>6. mem'.shown # <<>> => List!Entries(mem'.list) \subseteq List!Entries(mem'.shown)
      BY <3>1, <3>5 DEF List!IndInv
    <3> QED BY <1>m, <2>1, <3>1, <3>4, <3>6 DEF List!IndInv, List!IsPending
  <2> QED BY <1>6, <2>2, <2>3 DEF List!RemoveEntry
<1>7. CASE List!SetStop
  <2>1. /\ at[1] = "QUIT" /\ at' = [at EXCEPT ![1] = "zombie"] /\ pending' = pending
        /\ mem' = [mem EXCEPT !.stop = TRUE]
    BY <1>7 DEF List!SetStop
  <2>2. /\ mem' \in List!Memory /\ mem'.list = mem.list /\ mem'.shown = mem.shown
        /\ mem'.quit = mem.quit
    BY <1>m, <2>1 DEF List!Memory
  <2> QED BY <1>m, <2>1, <2>2 DEF List!IndInv, List!IsPending
<1> QED BY <1>2, <1>3, <1>4, <1>5, <1>6, <1>7 DEF List!Step

\* What the invariant says of the last list that was printed.
LEMMA ListInvariant == ASSUME List!IndInv PROVE List!CountsAddUp /\ List!AllReaped
<1>1. List!AllReaped BY DEF List!IndInv, List!AllReaped
<1>2. ASSUME NEW i \in 1 .. Len(mem.list) - 1 PROVE mem.list[i] < mem.list[i + 1]
  <2>1. Len(mem.list) \in Nat BY DEF List!IndInv, List!Memory
  <2>2. i \in 1 .. Len(mem.list) /\ i + 1 \in 1 .. Len(mem.list) /\ i < i + 1 BY <2>1
  <2> QED BY <2>2 DEF List!IndInv
<1> QED BY <1>1, <1>2 DEF List!IndInv, List!CountsAddUp, List!Entries

-----------------------------------------------------------------------------
(***************************************************************************)
(* StudyYears (prog20.c): each counter is the number of students of the year. *)
(***************************************************************************)

\* The students are threads other than main, and finitely many.
LEMMA StudyNumbers ==
  /\ 0 \in Procs /\ Study!Student \subseteq Procs /\ 0 \notin Study!Student /\ 1 \in Study!Student
  /\ IsFiniteSet(Study!Student)
  /\ \A S : Study!Cardinality(S) = Cardinality(S)
<1>1. \A S : Study!Cardinality(S) = Cardinality(S) BY DEF Study!Cardinality, Cardinality
<1>2. StudentNum \in Nat \ {0} /\ 1 .. StudentNum \subseteq Procs
  BY ExercisesAssumption DEF Study!StudyConstants
<1>3. 1 \in Int /\ StudentNum \in Int BY <1>2
<1>4. IsFiniteSet(1 .. StudentNum) BY <1>3, FS_Interval
<1> QED BY <1>1, <1>2, <1>4, ProcsAssumption DEF Study!Student

\* Main begins with empty years.
LEMMA StudyInit == ASSUME Study!Init PROVE Study!IndInv
<1> USE StudyNumbers DEF Study!Init, Study!OnlyFirst
<1>1. mem \in Study!Memory
  <2>1. [s \in Study!Student |-> -1] \in [Study!Student -> -1 .. 3] OBVIOUS
  <2>2. [s \in Study!Student |-> 0] \in [Study!Student -> 0 .. 2] OBVIOUS
  <2>3. [y \in Study!Years |-> 0] \in [Study!Years -> Int] OBVIOUS
  <2> QED BY <2>1, <2>2, <2>3 DEF Study!Memory
<1>2. ASSUME NEW y \in Study!Years PROVE mem.year[y] = Cardinality(Study!In(y))
  <2>1. Study!In(y) = {} BY DEF Study!In, Study!Years
  <2> QED BY <2>1, FS_EmptySet
<1>3. \A s \in Study!Student : Study!StudentInv(s) BY DEF Study!StudentInv
<1> QED BY <1>1, <1>2, <1>3 DEF Study!IndInv

\* A step after which every year has the students it had.
LEMMA StudyQuiet ==
  ASSUME Study!IndInv, mem' \in Study!Memory, DOMAIN at' = Procs,
         at'[0] \in {"create", "loop", "cancel", "join", "done"},
         mem'.year = mem.year,
         \A s \in Study!Student : \/ mem'.current[s] = mem.current[s]
                                  \/ mem.current[s] = -1 /\ mem'.current[s] = -1,
         \A s \in Study!Student : mem'.state[s] = 2 <=> mem.state[s] = 2,
         \A s \in Study!Student : Study!StudentInv(s)',
         at'[0] = "done" => \A s \in Study!Student : at'[s] = "reaped"
  PROVE  Study!IndInv'
<1>1. \A y : Study!In(y)' = Study!In(y) BY DEF Study!In
<1> QED BY <1>1 DEF Study!IndInv

\* A step of main or of a student that moves to the next year, or out of its year.
LEMMA StudyStep ==
  ASSUME Study!IndInv, NEW p, Study!Step(p)
  PROVE  Study!IndInv'
<1> USE StudyNumbers DEF Study!Move
<1>m. /\ mem \in Study!Memory /\ DOMAIN at = Procs
      /\ at[0] \in {"create", "loop", "cancel", "join", "done"}
      /\ \A s \in Study!Student : Study!StudentInv(s)
      /\ at[0] = "done" => \A s \in Study!Student : at[s] = "reaped"
  BY DEF Study!IndInv
<1>f. \A y : IsFiniteSet(Study!In(y)) BY FS_Subset DEF Study!In
\* A step of one student: the others stay as they are.
<1>s. ASSUME NEW s \in Study!Student, NEW to, at' = [at EXCEPT ![s] = to],
             \A r \in Study!Student \ {s} : /\ mem'.current[r] = mem.current[r]
                                            /\ mem'.state[r] = mem.state[r],
             Study!StudentInv(s)'
      PROVE  \A r \in Study!Student : Study!StudentInv(r)'
  BY <1>m, <1>s DEF Study!StudentInv
<1>1. ASSUME NEW s \in Study!Student, Study!Enrol(s) PROVE Study!IndInv'
  <2>1. /\ at[s] = "new" /\ at' = [at EXCEPT ![s] = "study"]
        /\ mem' = [mem EXCEPT !.current[s] = 0, !.state[s] = 0, !.year[0] = @ + 1]
    BY <1>1 DEF Study!Enrol
  <2>2. /\ mem'.current = [mem.current EXCEPT ![s] = 0] /\ mem'.state = [mem.state EXCEPT ![s] = 0]
        /\ mem'.year = [mem.year EXCEPT ![0] = @ + 1] /\ mem' \in Study!Memory
    <3>t. /\ [mem.current EXCEPT ![s] = 0] \in [Study!Student -> -1 .. 3]
          /\ [mem.state EXCEPT ![s] = 0] \in [Study!Student -> 0 .. 2]
          /\ [mem.year EXCEPT ![0] = @ + 1] \in [Study!Years -> Int]
      BY <1>m DEF Study!Memory, Study!Years
    <3> QED BY <1>m, <2>1, <3>t DEF Study!Memory
  <2>3. mem.current[s] = -1 /\ mem.state[s] = 0 /\ at'[s] = "study" /\ at'[0] = at[0]
    BY <1>m, <2>1 DEF Study!StudentInv
  <2>4. /\ mem'.current[s] = 0 /\ mem'.state[s] = 0
        /\ \A r \in Study!Student \ {s} : /\ mem'.current[r] = mem.current[r]
                                         /\ mem'.state[r] = mem.state[r]
    BY <1>m, <2>2 DEF Study!Memory
  <2>5. Study!StudentInv(s)' BY <2>3, <2>4 DEF Study!StudentInv, Study!Years
  <2>6. \A r \in Study!Student : Study!StudentInv(r)' BY <1>s, <2>1, <2>4, <2>5
  <2>7. ASSUME NEW y \in Study!Years PROVE mem'.year[y] = Cardinality(Study!In(y)')
    <3>1. mem.year[y] = Cardinality(Study!In(y)) BY DEF Study!IndInv
    <3>2. CASE y = 0
      <4>1. Study!In(y)' = Study!In(y) \cup {s} /\ s \notin Study!In(y)
        BY <2>3, <2>4, <3>2 DEF Study!In
      <4>2. Cardinality(Study!In(y) \cup {s}) = Cardinality(Study!In(y)) + 1
        BY <1>f, <4>1, FS_AddElement
      <4>3. mem'.year[y] = mem.year[y] + 1 BY <1>m, <2>2, <3>2 DEF Study!Memory
      <4> QED BY <3>1, <4>1, <4>2, <4>3
    <3>3. CASE y # 0
      <4>1. Study!In(y)' = Study!In(y) BY <2>3, <2>4, <3>3 DEF Study!In, Study!Years
      <4>2. mem'.year[y] = mem.year[y] BY <1>m, <2>2, <3>3 DEF Study!Memory
      <4> QED BY <3>1, <4>1, <4>2
    <3> QED BY <3>2, <3>3
  <2>8. at[0] # "done" BY <1>m, <2>1
  <2> QED BY <1>m, <2>1, <2>2, <2>3, <2>6, <2>7, <2>8 DEF Study!IndInv
\* The student leaves a year, and is in the next one.
<1>2. ASSUME NEW s \in Study!Student, Study!MoveYear(s) PROVE Study!IndInv'
  <2>1. PICK from : /\ from = mem.current[s] /\ from < 3 /\ at[s] = "study"
          /\ at' = [at EXCEPT ![s] = "study"]
          /\ mem' = [mem EXCEPT !.year[from] = @ - 1, !.year[from + 1] = @ + 1,
                                !.current[s] = from + 1]
    BY <1>2 DEF Study!MoveYear
  <2>2. from \in 0 .. 2 /\ from \in Study!Years /\ from + 1 \in Study!Years /\ mem.state[s] = 0
    BY <1>m, <2>1 DEF Study!StudentInv, Study!Years
  <2>3. /\ mem'.current = [mem.current EXCEPT ![s] = from + 1] /\ mem'.state = mem.state
        /\ mem'.year = [mem.year EXCEPT ![from] = mem.year[from] - 1, ![from + 1] = mem.year[from + 1] + 1]
        /\ mem' \in Study!Memory
    <3>t. /\ [mem.current EXCEPT ![s] = from + 1] \in [Study!Student -> -1 .. 3]
          /\ [mem.year EXCEPT ![from] = mem.year[from] - 1, ![from + 1] = mem.year[from + 1] + 1] \in [Study!Years -> Int]
      BY <1>m, <2>2 DEF Study!Memory, Study!Years
    <3> QED BY <1>m, <2>1, <3>t DEF Study!Memory
  <2>4. /\ mem'.current[s] = from + 1 /\ at'[s] = "study" /\ at'[0] = at[0]
        /\ \A r \in Study!Student \ {s} : mem'.current[r] = mem.current[r]
    <3>1. DOMAIN mem.current = Study!Student BY <1>m DEF Study!Memory
    <3>2. DOMAIN at = Procs /\ s \in Procs /\ 0 \in Procs /\ s # 0 BY <1>m, StudyNumbers
    <3>3. at'[s] = "study" /\ at'[0] = at[0] BY <2>1, <3>2
    <3> QED BY <2>3, <3>1, <3>3
  <2>5. Study!StudentInv(s)' BY <2>2, <2>3, <2>4 DEF Study!StudentInv, Study!Years
  <2>6. \A r \in Study!Student : Study!StudentInv(r)' BY <1>s, <2>1, <2>3, <2>4, <2>5
  <2>7. ASSUME NEW y \in Study!Years PROVE mem'.year[y] = Cardinality(Study!In(y)')
    <3>1. mem.year[y] = Cardinality(Study!In(y)) /\ mem.year[y] \in Int
      BY <1>m DEF Study!IndInv, Study!Memory
    <3>2. CASE y = from
      <4>1. Study!In(y)' = Study!In(y) \ {s} /\ s \in Study!In(y)
        BY <2>1, <2>2, <2>3, <2>4, <3>2 DEF Study!In
      <4>2. Cardinality(Study!In(y) \ {s}) = Cardinality(Study!In(y)) - 1
        BY <1>f, <4>1, FS_RemoveElement
      <4>3. mem'.year[y] = mem.year[y] - 1 BY <1>m, <2>2, <2>3, <3>2 DEF Study!Memory
      <4> QED BY <3>1, <4>1, <4>2, <4>3
    <3>3. CASE y = from + 1
      <4>1. Study!In(y)' = Study!In(y) \cup {s} /\ s \notin Study!In(y)
        BY <2>1, <2>2, <2>3, <2>4, <3>3 DEF Study!In
      <4>2. Cardinality(Study!In(y) \cup {s}) = Cardinality(Study!In(y)) + 1
        BY <1>f, <4>1, FS_AddElement
      <4>3. mem'.year[y] = mem.year[y] + 1 BY <1>m, <2>2, <2>3, <3>3 DEF Study!Memory
      <4> QED BY <3>1, <4>1, <4>2, <4>3
    <3>4. CASE y # from /\ y # from + 1
      <4>1. Study!In(y)' = Study!In(y) BY <2>1, <2>3, <2>4, <3>4 DEF Study!In
      <4>2. mem'.year[y] = mem.year[y] BY <1>m, <2>3, <3>4 DEF Study!Memory
      <4> QED BY <3>1, <4>1, <4>2
    <3> QED BY <3>2, <3>3, <3>4
  <2>8. at[0] # "done" BY <1>m, <2>1
  <2> QED BY <1>m, <2>1, <2>3, <2>4, <2>6, <2>7, <2>8 DEF Study!IndInv
\* The student leaves the year it is cancelled in.
<1>3. ASSUME NEW s \in Study!Student, Study!Cancelled(s) PROVE Study!IndInv'
  <2>1. PICK from : /\ from = mem.current[s] /\ from < 3 /\ at[s] = "study"
          /\ at' = [at EXCEPT ![s] = "zombie"]
          /\ mem' = [mem EXCEPT !.year[from] = @ - 1, !.state[s] = 2]
    BY <1>3 DEF Study!Cancelled
  <2>2. from \in 0 .. 2 /\ from \in Study!Years /\ mem.state[s] = 0
    BY <1>m, <2>1 DEF Study!StudentInv, Study!Years
  <2>3. /\ mem'.state = [mem.state EXCEPT ![s] = 2] /\ mem'.current = mem.current
        /\ mem'.year = [mem.year EXCEPT ![from] = @ - 1]
        /\ mem' \in Study!Memory
    <3>t. /\ [mem.state EXCEPT ![s] = 2] \in [Study!Student -> 0 .. 2]
          /\ [mem.year EXCEPT ![from] = @ - 1] \in [Study!Years -> Int]
      BY <1>m, <2>2 DEF Study!Memory, Study!Years
    <3> QED BY <1>m, <2>1, <3>t DEF Study!Memory
  <2>4. /\ mem'.state[s] = 2 /\ at'[s] = "zombie" /\ at'[0] = at[0]
        /\ \A r \in Study!Student \ {s} : mem'.state[r] = mem.state[r]
    BY <1>m, <2>1, <2>3 DEF Study!Memory
  <2>5. Study!StudentInv(s)' BY <2>1, <2>2, <2>3, <2>4 DEF Study!StudentInv
  <2>6. \A r \in Study!Student : Study!StudentInv(r)' BY <1>s, <2>1, <2>3, <2>4, <2>5
  <2>7. ASSUME NEW y \in Study!Years PROVE mem'.year[y] = Cardinality(Study!In(y)')
    <3>1. mem.year[y] = Cardinality(Study!In(y)) /\ mem.year[y] \in Int
      BY <1>m DEF Study!IndInv, Study!Memory
    <3>2. CASE y = from
      <4>1. Study!In(y)' = Study!In(y) \ {s} /\ s \in Study!In(y)
        BY <2>1, <2>2, <2>3, <2>4, <3>2 DEF Study!In
      <4>2. Cardinality(Study!In(y) \ {s}) = Cardinality(Study!In(y)) - 1
        BY <1>f, <4>1, FS_RemoveElement
      <4>3. mem'.year[y] = mem.year[y] - 1 BY <1>m, <2>2, <2>3, <3>2 DEF Study!Memory
      <4> QED BY <3>1, <4>1, <4>2, <4>3
    <3>4. CASE y # from
      <4>1. Study!In(y)' = Study!In(y) BY <2>1, <2>3, <2>4, <3>4 DEF Study!In
      <4>2. mem'.year[y] = mem.year[y] BY <1>m, <2>3, <3>4 DEF Study!Memory
      <4> QED BY <3>1, <4>1, <4>2
    <3> QED BY <3>2, <3>4
  <2>8. at[0] # "done" BY <1>m, <2>1
  <2> QED BY <1>m, <2>1, <2>3, <2>4, <2>6, <2>7, <2>8 DEF Study!IndInv
<1>4. ASSUME NEW s \in Study!Student, Study!Graduate(s) PROVE Study!IndInv'
  <2>1. /\ mem.current[s] = 3 /\ at[s] = "study" /\ at' = [at EXCEPT ![s] = "zombie"]
        /\ mem' = [mem EXCEPT !.state[s] = 1]
    BY <1>4 DEF Study!Graduate
  <2>2. /\ mem'.state = [mem.state EXCEPT ![s] = 1] /\ mem'.current = mem.current
        /\ mem'.year = mem.year /\ mem' \in Study!Memory /\ mem.state[s] = 0
    BY <1>m, <2>1 DEF Study!Memory, Study!StudentInv
  <2>3. /\ mem'.state[s] = 1 /\ at'[s] = "zombie" /\ at'[0] = at[0]
        /\ \A r \in Study!Student \ {s} : mem'.state[r] = mem.state[r]
    BY <1>m, <2>1, <2>2 DEF Study!Memory
  <2>4. Study!StudentInv(s)' BY <2>1, <2>2, <2>3 DEF Study!StudentInv
  <2>5. \A r \in Study!Student : Study!StudentInv(r)' BY <1>s, <2>1, <2>2, <2>3, <2>4
  <2>6. at[0] # "done" BY <1>m, <2>1
  <2>7. \A r \in Study!Student : mem'.state[r] = 2 <=> mem.state[r] = 2 BY <2>2, <2>3
  <2> QED BY <1>m, <2>1, <2>2, <2>3, <2>5, <2>6, <2>7, StudyQuiet
<1>5. ASSUME NEW s \in Study!Student, Study!Create(s) PROVE Study!IndInv'
  <2>1. /\ at[0] = "create" /\ at[s] = "none" /\ mem' = mem
        /\ at' = [at EXCEPT ![s] = "new", ![0] = IF s = StudentNum THEN "loop" ELSE "create"]
    BY <1>5 DEF Study!Create
  <2>2. \A r \in Study!Student : Study!StudentInv(r)' BY <1>m, <2>1 DEF Study!StudentInv
  <2> QED BY <1>m, <2>1, <2>2, StudyQuiet
<1>6. ASSUME NEW s \in Study!Student, Study!ReadState(s) PROVE Study!IndInv'
  <2>1. /\ at[0] = "loop" /\ at' = [at EXCEPT ![0] = "cancel"]
        /\ mem' = [mem EXCEPT !.index = s, !.seen = mem.state[s], !.rounds = @ + 1]
    BY <1>6 DEF Study!ReadState
  <2>2. /\ mem' \in Study!Memory /\ mem'.state = mem.state /\ mem'.current = mem.current
        /\ mem'.year = mem.year
    <3>t. mem.state[s] \in 0 .. 2 /\ mem.rounds + 1 \in Nat BY <1>m DEF Study!Memory
    <3> QED BY <1>m, <2>1, <3>t DEF Study!Memory
  <2>3. \A r \in Study!Student : Study!StudentInv(r)' BY <1>m, <2>1, <2>2 DEF Study!StudentInv
  <2> QED BY <1>m, <2>1, <2>2, <2>3, StudyQuiet
<1>7. CASE Study!Cancel \/ Study!TimeIsUp
  <2>1. PICK to \in {"loop", "join"} :
          at[0] \in {"cancel", "loop"} /\ at' = [at EXCEPT ![0] = to] /\ mem' = mem
    BY <1>7 DEF Study!Cancel, Study!TimeIsUp
  <2>2. \A r \in Study!Student : Study!StudentInv(r)' BY <1>m, <2>1 DEF Study!StudentInv
  <2> QED BY <1>m, <2>1, <2>2, StudyQuiet
<1>8. ASSUME NEW s \in Study!Student, Study!Join(s) PROVE Study!IndInv'
  <2>1. /\ at[0] = "join" /\ at[s] = "zombie" /\ mem' = mem /\ at' = [at EXCEPT ![s] = "reaped"]
    BY <1>8 DEF Study!Join
  <2>2. \A r \in Study!Student : Study!StudentInv(r)' BY <1>m, <2>1 DEF Study!StudentInv
  <2> QED BY <1>m, <2>1, <2>2, StudyQuiet
<1>9. CASE Study!PrintYears
  <2>1. /\ at[0] = "join" /\ at' = [at EXCEPT ![0] = "done"] /\ mem' = mem
        /\ \A s \in Study!Student : at[s] = "reaped"
    BY <1>9 DEF Study!PrintYears
  <2>2. \A r \in Study!Student : Study!StudentInv(r)' BY <1>m, <2>1 DEF Study!StudentInv
  <2> QED BY <1>m, <2>1, <2>2, StudyQuiet
<1> QED BY <1>1, <1>2, <1>3, <1>4, <1>5, <1>6, <1>7, <1>8, <1>9 DEF Study!Step

\* What the invariant says when main prints the years.
LEMMA StudyInvariant == ASSUME Study!IndInv PROVE Study!CountsAddUp /\ Study!CancelsUnjoined
<1> USE StudyNumbers
<1>m. /\ mem \in Study!Memory /\ \A s \in Study!Student : Study!StudentInv(s)
      /\ \A y \in Study!Years : mem.year[y] = Cardinality(Study!In(y))
      /\ at[0] = "done" => \A s \in Study!Student : at[s] = "reaped"
  BY DEF Study!IndInv
<1>1. Study!CancelsUnjoined
  BY <1>m DEF Study!CancelsUnjoined, Study!StudentInv, Study!Memory
<1>2. ASSUME at[0] = "done"
      PROVE  /\ \A y \in 0 .. 2 : mem.year[y] = 0
             /\ mem.year[3] = Cardinality({s \in Study!Student : mem.state[s] = 1})
  <2>1. \A s \in Study!Student : \/ mem.current[s] = 3 /\ mem.state[s] = 1
                                 \/ mem.current[s] \in 0 .. 2 /\ mem.state[s] = 2
    BY <1>2, <1>m DEF Study!StudentInv
  <2>2. ASSUME NEW y \in 0 .. 2 PROVE mem.year[y] = 0
    <3>1. Study!In(y) = {} BY <2>1 DEF Study!In
    <3> QED BY <1>m, <3>1, FS_EmptySet DEF Study!Years
  <2>3. Study!In(3) = {s \in Study!Student : mem.state[s] = 1} BY <2>1 DEF Study!In
  <2> QED BY <1>m, <2>2, <2>3 DEF Study!Years
<1> QED BY <1>m, <1>1, <1>2 DEF Study!CountsAddUp, Study!In

-----------------------------------------------------------------------------
(***************************************************************************)
(* BallThrowers (prog18.c): a ball waits, is with a thread or has been counted, *)
(* and is in its bin before it is counted.                                 *)
(***************************************************************************)

\* The throwers are threads other than main, and finitely many.
LEMMA ThrowNumbers ==
  /\ 0 \in Procs /\ Throw!Thrower \subseteq Procs /\ 0 \notin Throw!Thrower
  /\ Balls \in Nat \ {0} /\ Bins \in Nat \ {0} /\ 0 \in 0 .. Bins /\ Bins \in 0 .. Bins
  /\ IsFiniteSet(Throw!Thrower)
  /\ \A S : Throw!Cardinality(S) = Cardinality(S)
<1>1. \A S : Throw!Cardinality(S) = Cardinality(S) BY DEF Throw!Cardinality, Cardinality
<1>2. /\ Throwers \in Nat \ {0} /\ 1 .. Throwers \subseteq Procs
      /\ Balls \in Nat \ {0} /\ Bins \in Nat \ {0}
  BY ExercisesAssumption DEF Throw!ThrowersConstants
<1>3. 1 \in Int /\ Throwers \in Int BY <1>2
<1>4. IsFiniteSet(1 .. Throwers) BY <1>3, FS_Interval
<1> QED BY <1>1, <1>2, <1>4, ProcsAssumption DEF Throw!Thrower

\* The threads that have a ball.
LEMMA ThrowSets ==
  /\ IsFiniteSet(Throw!Throwing) /\ IsFiniteSet(Throw!Counting)
  /\ Cardinality(Throw!Throwing) \in Nat /\ Cardinality(Throw!Counting) \in Nat
  /\ Throw!Counting \subseteq Throw!Throwing
<1>1. /\ Throw!Throwing \subseteq Throw!Thrower /\ Throw!Counting \subseteq Throw!Thrower
      /\ Throw!Counting \subseteq Throw!Throwing
  BY DEF Throw!Throwing, Throw!Counting
<1> QED BY <1>1, ThrowNumbers, FS_Subset, FS_CardinalityType

\* All balls wait at the beginning.
LEMMA ThrowInit == ASSUME Throw!Init PROVE Throw!IndInv
<1> USE ThrowNumbers DEF Throw!Init, Throw!OnlyFirst
<1>1. mem \in Throw!Memory BY DEF Throw!Memory
<1>2. Throw!Throwing = {} /\ Throw!Counting = {} BY DEF Throw!Throwing, Throw!Counting
<1>3. Cardinality(Throw!Throwing) = 0 /\ Cardinality(Throw!Counting) = 0 BY <1>2, FS_EmptySet
<1> DEFINE sum == [b \in 0 .. Bins |-> 0]
<1>4. sum \in Throw!PartialSums BY DEF Throw!PartialSums
<1>5. /\ Throw!SumsOf(sum) /\ mem.total = sum[mem.added]
      /\ sum[Bins] = mem.thrown + Cardinality(Throw!Counting)
  BY <1>3 DEF Throw!SumsOf
<1>6. mem.waiting + mem.thrown + Cardinality(Throw!Throwing) = Balls BY <1>3
<1> HIDE DEF sum
<1> QED BY <1>1, <1>4, <1>5, <1>6 DEF Throw!IndInv

\* A step of main, or of a thread with no ball, leaves the bins alone.
LEMMA ThrowQuiet ==
  ASSUME Throw!IndInv, mem' \in Throw!Memory, DOMAIN at' = Procs,
         at'[0] \in {"create", "poll", "done"},
         \A t \in Throw!Thrower : at'[t] \in {"none", "take", "throw", "count", "zombie"},
         Throw!Throwing' = Throw!Throwing, Throw!Counting' = Throw!Counting,
         mem'.waiting = mem.waiting, mem'.thrown = mem.thrown, mem'.bins = mem.bins,
         mem'.counter = mem.counter, mem'.added = mem.added, mem'.total = mem.total,
         at'[0] = "done" => at[0] = "done"
  PROVE  Throw!IndInv'
<1>1. PICK sum \in Throw!PartialSums :
        /\ Throw!SumsOf(sum) /\ mem.total = sum[mem.added]
        /\ sum[Bins] = mem.thrown + Throw!Cardinality(Throw!Counting)
  BY DEF Throw!IndInv
<1>2. Throw!SumsOf(sum)' BY <1>1 DEF Throw!SumsOf
<1>3. Throw!PartialSums' = Throw!PartialSums BY DEF Throw!PartialSums
<1> QED BY <1>1, <1>2, <1>3 DEF Throw!IndInv

\* A step of main or of a thread that takes, throws or counts a ball.
LEMMA ThrowStep ==
  ASSUME Throw!IndInv, NEW p, Throw!Step(p)
  PROVE  Throw!IndInv'
<1> USE ThrowNumbers DEF Throw!Move
<1>m. /\ mem \in Throw!Memory /\ DOMAIN at = Procs
      /\ at[0] \in {"create", "poll", "done"}
      /\ \A t \in Throw!Thrower : at[t] \in {"none", "take", "throw", "count", "zombie"}
      /\ mem.waiting + mem.thrown + Cardinality(Throw!Throwing) = Balls
      /\ mem.counter <= mem.thrown
      /\ mem.added > 0 => mem.counter = Balls
      /\ at[0] = "done" => mem.added = Bins
  BY DEF Throw!IndInv
<1>n. /\ mem.waiting \in Nat /\ mem.thrown \in Nat /\ mem.counter \in Nat /\ mem.added \in 0 .. Bins
      /\ mem.total \in Nat /\ mem.bins \in [1 .. Bins -> Nat]
  BY <1>m DEF Throw!Memory
<1>s. PICK sum \in Throw!PartialSums :
        /\ Throw!SumsOf(sum) /\ mem.total = sum[mem.added]
        /\ sum[Bins] = mem.thrown + Cardinality(Throw!Counting)
  BY DEF Throw!IndInv
\* A thread that has a ball keeps main from adding up.
<1>b. Throw!Throwing # {} => mem.counter < Balls /\ mem.added = 0 /\ at[0] # "done"
  <2> SUFFICES ASSUME Throw!Throwing # {}
               PROVE  mem.counter < Balls /\ mem.added = 0 /\ at[0] # "done"
    OBVIOUS
  <2>1. Cardinality(Throw!Throwing) \in Nat /\ Cardinality(Throw!Throwing) # 0
    BY ThrowSets, FS_EmptySet
  <2>2. mem.counter < Balls BY <1>m, <1>n, <2>1
  <2> QED BY <1>m, <1>n, <2>2
\* What each thread does to the sets.
<1>t. ASSUME NEW t \in Throw!Thrower, NEW to, at' = [at EXCEPT ![t] = to],
             to \in {"take", "throw", "count", "zombie"}
      PROVE  /\ DOMAIN at' = Procs /\ at'[0] = at[0]
             /\ \A r \in Throw!Thrower : at'[r] \in {"none", "take", "throw", "count", "zombie"}
             /\ Throw!Throwing' = IF to \in {"throw", "count"} THEN Throw!Throwing \cup {t}
                                  ELSE Throw!Throwing \ {t}
             /\ Throw!Counting' = IF to = "count" THEN Throw!Counting \cup {t}
                                  ELSE Throw!Counting \ {t}
  BY <1>m, <1>t DEF Throw!Throwing, Throw!Counting
<1>1. ASSUME NEW t \in Throw!Thrower, Throw!Take(t) PROVE Throw!IndInv'
  <2>0. at[t] = "take" /\ t \notin Throw!Throwing /\ t \notin Throw!Counting
    BY <1>1 DEF Throw!Take, Throw!Throwing, Throw!Counting
  <2>1. CASE mem.waiting > 0
    <3>1. at' = [at EXCEPT ![t] = "throw"] /\ mem' = [mem EXCEPT !.waiting = @ - 1]
      BY <1>1, <2>1 DEF Throw!Take
    <3>2. /\ mem' \in Throw!Memory /\ mem'.waiting = mem.waiting - 1 /\ mem'.thrown = mem.thrown
          /\ mem'.bins = mem.bins /\ mem'.counter = mem.counter /\ mem'.added = mem.added
          /\ mem'.total = mem.total
      <4>1. mem.waiting - 1 \in Nat BY <1>n, <2>1
      <4> QED BY <1>m, <3>1, <4>1 DEF Throw!Memory
    <3>3. /\ DOMAIN at' = Procs /\ at'[0] = at[0]
          /\ \A r \in Throw!Thrower : at'[r] \in {"none", "take", "throw", "count", "zombie"}
          /\ Throw!Throwing' = Throw!Throwing \cup {t} /\ Throw!Counting' = Throw!Counting \ {t}
      BY <1>t, <3>1
    <3>4. Cardinality(Throw!Throwing') = Cardinality(Throw!Throwing) + 1
      BY <2>0, <3>3, ThrowSets, FS_AddElement
    <3>5. Throw!Counting' = Throw!Counting BY <2>0, <3>3
    <3>6. mem'.waiting + mem'.thrown + Cardinality(Throw!Throwing') = Balls
      <4>1. PICK c \in Nat : c = Cardinality(Throw!Throwing) BY ThrowSets
      <4>2. Cardinality(Throw!Throwing') = c + 1 BY <3>4, <4>1
      <4>3. mem.waiting + mem.thrown + c = Balls BY <1>m, <4>1
      <4>4. mem.waiting - 1 + mem.thrown + (c + 1) = mem.waiting + mem.thrown + c
        <5>1. mem.waiting \in Nat /\ mem.thrown \in Nat /\ c \in Nat BY <1>n
        <5> QED BY ONLY <5>1
      <4> QED BY <3>2, <4>2, <4>3, <4>4
    <3>7. Throw!SumsOf(sum)' BY <1>s, <3>2 DEF Throw!SumsOf
    <3>8. Throw!PartialSums' = Throw!PartialSums BY DEF Throw!PartialSums
    <3> QED BY <1>m, <1>s, <3>2, <3>3, <3>5, <3>6, <3>7, <3>8 DEF Throw!IndInv
  <2>2. CASE ~(mem.waiting > 0)
    <3>1. at' = [at EXCEPT ![t] = "zombie"] /\ mem' = mem BY <1>1, <2>2 DEF Throw!Take
    <3>2. /\ DOMAIN at' = Procs /\ at'[0] = at[0]
          /\ \A r \in Throw!Thrower : at'[r] \in {"none", "take", "throw", "count", "zombie"}
          /\ Throw!Throwing' = Throw!Throwing \ {t} /\ Throw!Counting' = Throw!Counting \ {t}
      BY <1>t, <3>1
    <3>3. Throw!Throwing' = Throw!Throwing /\ Throw!Counting' = Throw!Counting BY <2>0, <3>2
    <3> QED BY <1>m, <3>1, <3>2, <3>3, ThrowQuiet
  <2> QED BY <2>1, <2>2
\* A ball goes into a bin: the sums from there on grow.
<1>2. ASSUME NEW t \in Throw!Thrower, NEW b \in 1 .. Bins, Throw!Throw(t, b) PROVE Throw!IndInv'
  <2>1. /\ at[t] = "throw" /\ at' = [at EXCEPT ![t] = "count"]
        /\ mem' = [mem EXCEPT !.bins[b] = @ + 1]
    BY <1>2 DEF Throw!Throw
  <2>2. /\ mem' \in Throw!Memory /\ mem'.waiting = mem.waiting /\ mem'.thrown = mem.thrown
        /\ mem'.bins = [mem.bins EXCEPT ![b] = @ + 1] /\ mem'.counter = mem.counter
        /\ mem'.added = mem.added /\ mem'.total = mem.total
    <3>1. [mem.bins EXCEPT ![b] = @ + 1] \in [1 .. Bins -> Nat] BY <1>n
    <3> QED BY <1>m, <2>1, <3>1 DEF Throw!Memory
  <2>3. /\ DOMAIN at' = Procs /\ at'[0] = at[0]
        /\ \A r \in Throw!Thrower : at'[r] \in {"none", "take", "throw", "count", "zombie"}
        /\ Throw!Throwing' = Throw!Throwing \cup {t} /\ Throw!Counting' = Throw!Counting \cup {t}
    BY <1>t, <2>1
  <2>4. t \in Throw!Throwing /\ t \notin Throw!Counting BY <2>1 DEF Throw!Throwing, Throw!Counting
  <2>5. Throw!Throwing' = Throw!Throwing BY <2>3, <2>4
  <2>6. Cardinality(Throw!Counting') = Cardinality(Throw!Counting) + 1
    BY <2>3, <2>4, ThrowSets, FS_AddElement
  <2>7. mem.added = 0 /\ at[0] # "done" BY <1>b, <2>4
  <2> DEFINE new == [i \in 0 .. Bins |-> IF i < b THEN sum[i] ELSE sum[i] + 1]
  <2>8. new \in Throw!PartialSums /\ sum \in [0 .. Bins -> Nat]
    BY <1>s DEF Throw!PartialSums
  <2>9. new[0] = 0 /\ new[Bins] = sum[Bins] + 1 BY <1>s, <2>8 DEF Throw!SumsOf
  <2>10. ASSUME NEW i \in 1 .. Bins PROVE new[i] = new[i - 1] + mem'.bins[i]
    <3>1. sum[i] = sum[i - 1] + mem.bins[i] BY <1>s DEF Throw!SumsOf
    <3>2. i \in 0 .. Bins /\ i - 1 \in 0 .. Bins OBVIOUS
    <3>3. sum[i] \in Nat /\ sum[i - 1] \in Nat /\ mem.bins[i] \in Nat BY <1>n, <2>8, <3>2
    <3>4. /\ new[i] = IF i < b THEN sum[i] ELSE sum[i] + 1
          /\ new[i - 1] = IF i - 1 < b THEN sum[i - 1] ELSE sum[i - 1] + 1
      BY <3>2
    <3> HIDE DEF new
    <3>5. mem'.bins[i] = IF i = b THEN mem.bins[i] + 1 ELSE mem.bins[i] BY <1>n, <2>2
    <3> QED BY <3>1, <3>3, <3>4, <3>5
  <2>11. Throw!PartialSums' = Throw!PartialSums BY DEF Throw!PartialSums
  <2> HIDE DEF new
  <2>p. PICK s2 : s2 = new OBVIOUS
  <2>12. Throw!SumsOf(s2)' BY <2>9, <2>10, <2>p DEF Throw!SumsOf
  <2>13. s2 \in Throw!PartialSums' BY <2>8, <2>11, <2>p
  <2>14. mem'.total = s2[mem'.added]
    <3>1. mem'.added = 0 /\ mem'.total = sum[0] BY <1>s, <2>2, <2>7
    <3> QED BY <1>s, <2>9, <2>p, <3>1 DEF Throw!SumsOf
  <2>15. s2[Bins] = mem'.thrown + Cardinality(Throw!Counting')
    <3>1. PICK c \in Nat : c = Cardinality(Throw!Counting) BY ThrowSets
    <3>2. Cardinality(Throw!Counting') = c + 1 BY <2>6, <3>1
    <3>3. sum[Bins] = mem.thrown + c BY <1>s, <3>1
    <3>4. s2[Bins] = sum[Bins] + 1 BY <2>9, <2>p
    <3>5. mem'.thrown = mem.thrown BY <2>2
    <3>6. (mem.thrown + c) + 1 = mem.thrown + (c + 1)
      <4>1. mem.thrown \in Nat /\ c \in Nat BY <1>n
      <4> QED BY ONLY <4>1
    <3> QED BY <3>2, <3>3, <3>4, <3>5, <3>6
  <2> QED BY <1>m, <2>2, <2>3, <2>5, <2>12, <2>13, <2>14, <2>15 DEF Throw!IndInv
<1>3. ASSUME NEW t \in Throw!Thrower, Throw!Count(t) PROVE Throw!IndInv'
  <2>1. /\ at[t] = "count" /\ at' = [at EXCEPT ![t] = "take"]
        /\ mem' = [mem EXCEPT !.thrown = @ + 1, !.own[t] = @ + 1]
    BY <1>3 DEF Throw!Count
  <2>2. /\ mem' \in Throw!Memory /\ mem'.waiting = mem.waiting /\ mem'.thrown = mem.thrown + 1
        /\ mem'.bins = mem.bins /\ mem'.counter = mem.counter
        /\ mem'.added = mem.added /\ mem'.total = mem.total
    <3>1. [mem.own EXCEPT ![t] = @ + 1] \in [Throw!Thrower -> Nat] /\ mem.thrown + 1 \in Nat
      BY <1>m DEF Throw!Memory
    <3> QED BY <1>m, <2>1, <3>1 DEF Throw!Memory
  <2>3. /\ DOMAIN at' = Procs /\ at'[0] = at[0]
        /\ \A r \in Throw!Thrower : at'[r] \in {"none", "take", "throw", "count", "zombie"}
        /\ Throw!Throwing' = Throw!Throwing \ {t} /\ Throw!Counting' = Throw!Counting \ {t}
    BY <1>t, <2>1
  <2>4. t \in Throw!Throwing /\ t \in Throw!Counting BY <2>1 DEF Throw!Throwing, Throw!Counting
  <2>5. /\ Cardinality(Throw!Throwing') = Cardinality(Throw!Throwing) - 1
        /\ Cardinality(Throw!Counting') = Cardinality(Throw!Counting) - 1
    BY <2>3, <2>4, ThrowSets, FS_RemoveElement
  <2>6. mem'.waiting + mem'.thrown + Cardinality(Throw!Throwing') = Balls
    <3>1. PICK c \in Nat : c = Cardinality(Throw!Throwing) BY ThrowSets
    <3>2. Cardinality(Throw!Throwing') = c - 1 BY <2>5, <3>1
    <3>3. mem.waiting + mem.thrown + c = Balls BY <1>m, <3>1
    <3>4. mem'.waiting = mem.waiting /\ mem'.thrown = mem.thrown + 1 BY <2>2
    <3>5. mem.waiting + (mem.thrown + 1) + (c - 1) = Balls BY <1>n, <3>3
    <3> QED BY <3>2, <3>4, <3>5
  <2>7. mem'.counter <= mem'.thrown BY <1>m, <1>n, <2>2
  <2>8. sum[Bins] = mem'.thrown + Cardinality(Throw!Counting')
    <3>1. PICK c \in Nat : c = Cardinality(Throw!Counting) BY ThrowSets
    <3>2. Cardinality(Throw!Counting') = c - 1 BY <2>5, <3>1
    <3>3. sum[Bins] = mem.thrown + c BY <1>s, <3>1
    <3>4. mem'.thrown = mem.thrown + 1 BY <2>2
    <3>5. PICK n \in Nat : n = mem.thrown BY <1>n
    <3>6. n + c = (n + 1) + (c - 1) OBVIOUS
    <3> QED BY <3>2, <3>3, <3>4, <3>5, <3>6
  <2>9. Throw!SumsOf(sum)' BY <1>s, <2>2 DEF Throw!SumsOf
  <2>10. Throw!PartialSums' = Throw!PartialSums BY DEF Throw!PartialSums
  <2> QED BY <1>m, <1>s, <2>2, <2>3, <2>6, <2>7, <2>8, <2>9, <2>10 DEF Throw!IndInv
<1>4. ASSUME NEW t \in Throw!Thrower, Throw!Create(t) PROVE Throw!IndInv'
  <2>1. /\ at[0] = "create" /\ at[t] = "none" /\ mem' = mem
        /\ at' = [at EXCEPT ![t] = "take", ![0] = IF t = Throwers THEN "poll" ELSE "create"]
    BY <1>4 DEF Throw!Create
  <2>2. /\ DOMAIN at' = Procs /\ at'[0] \in {"create", "poll"}
        /\ \A r \in Throw!Thrower : at'[r] = IF r = t THEN "take" ELSE at[r]
    BY <1>m, <2>1
  <2>3. Throw!Throwing' = Throw!Throwing /\ Throw!Counting' = Throw!Counting
    BY <2>1, <2>2 DEF Throw!Throwing, Throw!Counting
  <2> QED BY <1>m, <2>1, <2>2, <2>3, ThrowQuiet
<1>5. CASE Throw!Poll
  <2>1. at[0] = "poll" /\ mem.counter < Balls /\ at' = at /\ mem' = [mem EXCEPT !.counter = mem.thrown]
    BY <1>5 DEF Throw!Poll
  <2>2. /\ mem' \in Throw!Memory /\ mem'.waiting = mem.waiting /\ mem'.thrown = mem.thrown
        /\ mem'.bins = mem.bins /\ mem'.counter = mem.thrown
        /\ mem'.added = mem.added /\ mem'.total = mem.total
    BY <1>m, <2>1 DEF Throw!Memory
  <2>3. mem.added = 0 /\ mem'.counter <= mem'.thrown BY <1>m, <1>n, <2>1, <2>2
  <2>4. Throw!Throwing' = Throw!Throwing /\ Throw!Counting' = Throw!Counting
    BY <2>1 DEF Throw!Throwing, Throw!Counting
  <2>5. Throw!SumsOf(sum)' BY <1>s, <2>2 DEF Throw!SumsOf
  <2>6. Throw!PartialSums' = Throw!PartialSums BY DEF Throw!PartialSums
  <2> QED BY <1>m, <1>s, <2>1, <2>2, <2>3, <2>4, <2>5, <2>6 DEF Throw!IndInv
\* Main adds a bin; nobody throws any more.
<1>6. CASE Throw!AddBin
  <2> DEFINE k == mem.added + 1
  <2>1. /\ at[0] = "poll" /\ mem.counter >= Balls /\ mem.added < Bins
        /\ mem' = [mem EXCEPT !.added = k, !.total = @ + mem.bins[k]]
        /\ at' = IF k = Bins
                 THEN [q \in Procs |-> IF q = 0 THEN "done" ELSE IF Throw!Live(q) THEN "zombie" ELSE at[q]]
                 ELSE at
    BY <1>6 DEF Throw!AddBin
  <2>2. k \in 1 .. Bins /\ k \in 0 .. Bins /\ k - 1 = mem.added /\ k > 0 BY <1>n, <2>1
  <2>3. sum[k] = sum[mem.added] + mem.bins[k] /\ mem.bins[k] \in Nat
    BY <1>n, <1>s, <2>2 DEF Throw!SumsOf
  <2>4. Throw!Throwing = {} /\ Throw!Counting = {}
    <3>1. Throw!Throwing = {} BY <1>b, <1>n, <2>1
    <3> QED BY <3>1, ThrowSets
  <2>5. mem.counter = Balls BY <1>m, <1>n, <2>1, ThrowSets
  <2>6. /\ DOMAIN at' = Procs /\ at'[0] \in {"poll", "done"} /\ (at'[0] = "done" <=> k = Bins)
        /\ \A t \in Throw!Thrower : at'[t] \in {at[t], "zombie"}
    BY <1>m, <2>1
  <2>7. Throw!Throwing' = {} /\ Throw!Counting' = {}
    BY <2>4, <2>6 DEF Throw!Throwing, Throw!Counting
  <2> HIDE DEF k
  <2>8. /\ mem' \in Throw!Memory /\ mem'.waiting = mem.waiting /\ mem'.thrown = mem.thrown
        /\ mem'.bins = mem.bins /\ mem'.counter = mem.counter
        /\ mem'.added = k /\ mem'.total = mem.total + mem.bins[k]
    <3>1. mem.total + mem.bins[k] \in Nat BY <1>n, <2>3
    <3> QED BY <1>m, <2>1, <2>2, <3>1 DEF Throw!Memory
  <2>9. Throw!SumsOf(sum)' BY <1>s, <2>8 DEF Throw!SumsOf
  <2>10. Throw!PartialSums' = Throw!PartialSums BY DEF Throw!PartialSums
  <2>11. mem'.total = sum[mem'.added] BY <1>s, <2>3, <2>8
  <2>12. \A t \in Throw!Thrower : at'[t] \in {"none", "take", "throw", "count", "zombie"}
    BY <1>m, <2>6
  <2>13. Throw!Throwing' = Throw!Throwing /\ Throw!Counting' = Throw!Counting BY <2>4, <2>7
  <2> QED BY <1>m, <1>s, <2>2, <2>5, <2>6, <2>8, <2>9, <2>10, <2>11, <2>12, <2>13 DEF Throw!IndInv
<1> QED BY <1>1, <1>2, <1>3, <1>4, <1>5, <1>6 DEF Throw!Step

\* What the invariant says when all balls are counted.
LEMMA ThrowInvariant == ASSUME Throw!IndInv PROVE Throw!CountsAddUp
<1> USE ThrowNumbers DEF Throw!IndInv
<1>1. /\ mem.waiting \in Nat /\ mem.thrown \in Nat /\ mem.counter \in Nat /\ mem.added \in 0 .. Bins
  BY DEF Throw!Memory
<1>2. ASSUME mem.counter = Balls
      PROVE  mem.thrown = Balls /\ Cardinality(Throw!Throwing) = 0 /\ Throw!Throwing = {}
  <2>1. mem.waiting + mem.thrown + Cardinality(Throw!Throwing) = Balls OBVIOUS
  <2>2. mem.thrown = Balls /\ Cardinality(Throw!Throwing) = 0 BY <1>1, <1>2, <2>1, ThrowSets
  <2> QED BY <2>2, ThrowSets, FS_EmptySet
<1>3. ASSUME at[0] = "done" PROVE mem.total = Balls
  <2>1. mem.added = Bins /\ mem.counter = Balls BY <1>1, <1>3
  <2>2. Throw!Counting = {} BY <1>2, <2>1, ThrowSets
  <2>3. Cardinality(Throw!Counting) = 0 BY <2>2, FS_EmptySet
  <2>4. mem.total = mem.thrown + Cardinality(Throw!Counting) BY <2>1
  <2> QED BY <1>1, <1>2, <2>1, <2>3, <2>4
<1> QED BY <1>2, <1>3 DEF Throw!CountsAddUp, Throw!Throwing

-----------------------------------------------------------------------------
(***************************************************************************)
(* Office (ops-admin.c): every document is somewhere.                      *)
(***************************************************************************)

\* The superior of an official is an official.
LEMMA OfficeNumbers ==
  /\ 0 \in Procs /\ 0 \in Admin!Official /\ Admin!Official \subseteq Procs
  /\ IsFiniteSet(Admin!Official)
  /\ \A p \in Admin!Official \ {0} : Admin!Superior(p) \in Admin!Official
  /\ \A S : Admin!Cardinality(S) = Cardinality(S)
<1>1. \A S : Admin!Cardinality(S) = Cardinality(S) BY DEF Admin!Cardinality, Cardinality
<1>2. Officials \in Nat /\ 0 .. Officials \subseteq Procs
  BY ExercisesAssumption DEF Admin!OfficeConstants
<1>3. 0 \in Int /\ Officials \in Int BY <1>2
<1>4. IsFiniteSet(0 .. Officials) BY <1>3, FS_Interval
<1>5. \A p \in 0 .. Officials : p # 0 => (p - 1) \div 2 \in 0 .. Officials BY <1>2
<1> QED BY <1>1, <1>2, <1>4, <1>5, ProcsAssumption DEF Admin!Official, Admin!Superior

\* The documents on the desks and those being decided upon are finitely many.
LEMMA OfficeSets ==
  /\ IsFiniteSet(Admin!OnDesk) /\ Cardinality(Admin!OnDesk) \in Nat
  /\ IsFiniteSet(Admin!Choosing) /\ Cardinality(Admin!Choosing) \in Nat
<1>1. IsFiniteSet({"USR1"}) BY FS_Singleton
<1>2. IsFiniteSet({"USR1"} \cup {"USR2"}) BY <1>1, FS_AddElement
<1>3. {"USR1"} \cup {"USR2"} = {"USR1", "USR2"} OBVIOUS
<1>4. IsFiniteSet(Admin!Official \X {"USR1", "USR2"}) BY <1>2, <1>3, OfficeNumbers, FS_Product
<1>5. Admin!OnDesk \subseteq Admin!Official \X {"USR1", "USR2"} BY DEF Admin!OnDesk
<1>6. Admin!Choosing \subseteq Admin!Official BY DEF Admin!Choosing
<1> QED BY <1>4, <1>5, <1>6, OfficeNumbers, FS_Subset, FS_CardinalityType

\* Nobody leaves the office.
LEMMA OfficePlaces ==
  ASSUME Admin!IndInv, NEW p \in Admin!Official, at[p] # "none"
  PROVE  Admin!Live(p)
BY OfficeNumbers DEF Admin!IndInv, Admin!Live, Admin!Places

\* One official moves: nobody loses its superior, and the choices are one more
\* or one less when it comes to one or leaves one.
LEMMA OfficeChoosing ==
  ASSUME Admin!IndInv, NEW p \in Admin!Official, NEW to \in Admin!Places,
         at' = [at EXCEPT ![p] = to]
  PROVE  /\ at' \in [Procs -> Admin!Places]
         /\ to # "none" /\ at[p] # "none" =>
              /\ \A q \in Admin!Official \ {0} : at'[q] # "none" => at'[Admin!Superior(q)] # "none"
              /\ at'[0] # "none"
         /\ Cardinality(Admin!Choosing') =
              IF to = "choice" /\ at[p] # "choice" THEN Cardinality(Admin!Choosing) + 1
              ELSE IF to # "choice" /\ at[p] = "choice" THEN Cardinality(Admin!Choosing) - 1
              ELSE Cardinality(Admin!Choosing)
<1> USE OfficeNumbers
<1>1. at \in [Procs -> Admin!Places] /\ p \in Procs BY DEF Admin!IndInv
<1>2. at' \in [Procs -> Admin!Places] /\ at'[p] = to BY <1>1
<1>3. \A q \in Procs : at'[q] = IF q = p THEN to ELSE at[q] BY <1>1
<1>4. Admin!Choosing' = IF to = "choice" THEN Admin!Choosing \cup {p} ELSE Admin!Choosing \ {p}
  BY <1>3 DEF Admin!Choosing
<1>5. p \in Admin!Choosing <=> at[p] = "choice" BY DEF Admin!Choosing
<1>6. Cardinality(Admin!Choosing \cup {p}) =
        IF p \in Admin!Choosing THEN Cardinality(Admin!Choosing) ELSE Cardinality(Admin!Choosing) + 1
  BY OfficeSets, FS_AddElement
<1>7. Cardinality(Admin!Choosing \ {p}) =
        IF p \in Admin!Choosing THEN Cardinality(Admin!Choosing) - 1 ELSE Cardinality(Admin!Choosing)
  BY OfficeSets, FS_RemoveElement
<1>8. Cardinality(Admin!Choosing') =
        IF to = "choice" /\ at[p] # "choice" THEN Cardinality(Admin!Choosing) + 1
        ELSE IF to # "choice" /\ at[p] = "choice" THEN Cardinality(Admin!Choosing) - 1
        ELSE Cardinality(Admin!Choosing)
  BY <1>4, <1>5, <1>6, <1>7
<1>9. ASSUME to # "none", at[p] # "none"
      PROVE  /\ \A q \in Admin!Official \ {0} : at'[q] # "none" => at'[Admin!Superior(q)] # "none"
             /\ at'[0] # "none"
  BY <1>3, <1>9 DEF Admin!IndInv
<1> QED BY <1>2, <1>8, <1>9

\* A document for somebody who is there: a new one on the desks, or one merged.
LEMMA OfficePost ==
  ASSUME Admin!IndInv, NEW q \in Admin!Official, at[q] # "none",
         NEW s \in {"USR1", "USR2"}, pending' = Admin!Signalled({q}, s)
  PROVE  /\ pending' \in [Procs -> SUBSET Admin!Papers]
         /\ Cardinality(Admin!OnDesk') =
              IF Admin!IsPending(q, s) THEN Cardinality(Admin!OnDesk)
              ELSE Cardinality(Admin!OnDesk) + 1
<1> USE OfficeNumbers
<1>1. pending \in [Procs -> SUBSET Admin!Papers] /\ Admin!Live(q)
  BY OfficePlaces DEF Admin!IndInv
<1>2. [sig |-> s, from |-> 0] \in Admin!Papers BY DEF Admin!Papers
<1>3. pending' = IF Admin!IsPending(q, s) THEN pending
                 ELSE [pending EXCEPT ![q] = @ \cup {[sig |-> s, from |-> 0]}]
  BY <1>1 DEF Admin!Signalled, Admin!Posted
<1>4. CASE Admin!IsPending(q, s)
  <2>1. pending' = pending BY <1>3, <1>4
  <2>2. Admin!OnDesk' = Admin!OnDesk BY <2>1 DEF Admin!OnDesk, Admin!IsPending
  <2> QED BY <1>1, <1>4, <2>1, <2>2
<1>5. CASE ~Admin!IsPending(q, s)
  <2>1. /\ pending' \in [Procs -> SUBSET Admin!Papers]
        /\ \A p \in Procs : pending'[p] = IF p = q THEN pending[p] \cup {[sig |-> s, from |-> 0]}
                                          ELSE pending[p]
    BY <1>1, <1>2, <1>3, <1>5
  <2>p. [sig |-> s, from |-> 0].sig = s OBVIOUS
  <2>a. ASSUME NEW p \in Admin!Official, NEW z \in {"USR1", "USR2"}
        PROVE  Admin!IsPending(p, z)' <=> Admin!IsPending(p, z) \/ (p = q /\ z = s)
    <3>1. CASE p = q
      <4>1. pending'[p] = pending[p] \cup {[sig |-> s, from |-> 0]} BY <2>1, <3>1
      <4> QED BY <2>p, <3>1, <4>1 DEF Admin!IsPending
    <3>2. CASE p # q
      <4>1. pending'[p] = pending[p] BY <2>1, <3>2
      <4> QED BY <3>2, <4>1 DEF Admin!IsPending
    <3> QED BY <3>1, <3>2
  <2>2. Admin!OnDesk' = Admin!OnDesk \cup {<<q, s>>} BY <2>a DEF Admin!OnDesk
  <2>3. <<q, s>> \notin Admin!OnDesk BY <1>5 DEF Admin!OnDesk
  <2> QED BY <1>5, <2>1, <2>2, <2>3, OfficeSets, FS_AddElement
<1> QED BY <1>4, <1>5

\* A desk holds as many documents as signals are pending.
LEMMA OfficeDesk ==
  ASSUME NEW p \in Admin!Official, pending[p] \subseteq Admin!Papers
  PROVE  LET desk == {d \in {p} \X {"USR1", "USR2"} : Admin!IsPending(d[1], d[2])}
         IN  /\ IsFiniteSet(desk) /\ Cardinality(desk) = Cardinality(pending[p])
             /\ Cardinality(desk) \in Nat /\ (pending[p] # {} => Cardinality(desk) > 0)
<1> DEFINE r1 == [sig |-> "USR1", from |-> 0]
           r2 == [sig |-> "USR2", from |-> 0]
           desk == {d \in {p} \X {"USR1", "USR2"} : Admin!IsPending(d[1], d[2])}
<1>1. Admin!Papers = {r1, r2} /\ r1 # r2
  <2>1. r1 \in Admin!Papers /\ r2 \in Admin!Papers BY DEF Admin!Papers
  <2>2. ASSUME NEW r \in Admin!Papers PROVE r = r1 \/ r = r2 BY DEF Admin!Papers
  <2>3. r1.sig # r2.sig OBVIOUS
  <2> HIDE DEF r1, r2
  <2>4. r1 # r2 BY <2>3
  <2> QED BY <2>1, <2>2, <2>4
<1>2. \A s \in {"USR1", "USR2"} :
        Admin!IsPending(p, s) <=> (IF s = "USR1" THEN r1 ELSE r2) \in pending[p]
  BY <1>1 DEF Admin!IsPending
<1>3. /\ <<p, "USR1">> \in desk <=> r1 \in pending[p]
      /\ <<p, "USR2">> \in desk <=> r2 \in pending[p]
      /\ desk \subseteq {<<p, "USR1">>, <<p, "USR2">>}
  BY <1>2
<1>4. r1.sig = "USR1" /\ r2.sig = "USR2" OBVIOUS
<1>5. \A x, y : x # y => IsFiniteSet({x, y}) /\ Cardinality({x, y}) = 2
  <2> SUFFICES ASSUME NEW x, NEW y, x # y
               PROVE  IsFiniteSet({x, y}) /\ Cardinality({x, y}) = 2
    OBVIOUS
  <2>1. {x, y} = {x} \cup {y} OBVIOUS
  <2>2. IsFiniteSet({x}) /\ Cardinality({x}) = 1 BY FS_Singleton
  <2>3. y \notin {x} OBVIOUS
  <2>4. IsFiniteSet({x} \cup {y}) /\ Cardinality({x} \cup {y}) = 1 + 1
    BY <2>2, <2>3, FS_AddElement
  <2> QED BY <2>1, <2>4
<1>6. <<p, "USR1">> # <<p, "USR2">> OBVIOUS
<1> HIDE DEF r1, r2, desk
<1>7. CASE r1 \in pending[p] /\ r2 \in pending[p]
  <2>1. pending[p] = {r1, r2} /\ desk = {<<p, "USR1">>, <<p, "USR2">>} BY <1>1, <1>3, <1>7
  <2>3. Cardinality({r1, r2}) = 2 BY <1>1, <1>5
  <2>4. /\ Cardinality({<<p, "USR1">>, <<p, "USR2">>}) = 2
        /\ IsFiniteSet({<<p, "USR1">>, <<p, "USR2">>})
    BY <1>5, <1>6
  <2>2. Cardinality(pending[p]) = 2 /\ Cardinality(desk) = 2 /\ IsFiniteSet(desk)
    BY <2>1, <2>3, <2>4
  <2> QED BY <2>2 DEF desk
<1>8. CASE r1 \in pending[p] /\ r2 \notin pending[p]
  <2>1. pending[p] = {r1} /\ desk = {<<p, "USR1">>} BY <1>1, <1>3, <1>8
  <2>2. Cardinality(pending[p]) = 1 /\ Cardinality(desk) = 1 /\ IsFiniteSet(desk)
    BY <2>1, FS_Singleton
  <2> QED BY <2>2 DEF desk
<1>9. CASE r1 \notin pending[p] /\ r2 \in pending[p]
  <2>1. pending[p] = {r2} /\ desk = {<<p, "USR2">>} BY <1>1, <1>3, <1>9
  <2>2. Cardinality(pending[p]) = 1 /\ Cardinality(desk) = 1 /\ IsFiniteSet(desk)
    BY <2>1, FS_Singleton
  <2> QED BY <2>2 DEF desk
<1>10. CASE r1 \notin pending[p] /\ r2 \notin pending[p]
  <2>1. pending[p] = {} /\ desk = {} BY <1>1, <1>3, <1>10
  <2>2. Cardinality(pending[p]) = 0 /\ Cardinality(desk) = 0 /\ IsFiniteSet(desk)
    BY <2>1, FS_EmptySet
  <2> QED BY <2>1, <2>2 DEF desk
<1> QED BY <1>7, <1>8, <1>9, <1>10

\* An official takes what is on its desk.
LEMMA OfficeTake ==
  ASSUME Admin!IndInv, NEW p \in Admin!Official, pending' = [pending EXCEPT ![p] = {}]
  PROVE  /\ pending' \in [Procs -> SUBSET Admin!Papers]
         /\ Cardinality(pending[p]) \in Nat /\ (pending[p] # {} => Cardinality(pending[p]) > 0)
         /\ Cardinality(Admin!OnDesk') + Cardinality(pending[p]) = Cardinality(Admin!OnDesk)
<1> USE OfficeNumbers
<1> DEFINE desk == {d \in {p} \X {"USR1", "USR2"} : Admin!IsPending(d[1], d[2])}
<1>1. pending \in [Procs -> SUBSET Admin!Papers] BY DEF Admin!IndInv
<1>2. pending[p] \subseteq Admin!Papers BY <1>1
<1>3. /\ IsFiniteSet(desk) /\ Cardinality(desk) = Cardinality(pending[p])
      /\ Cardinality(desk) \in Nat /\ (pending[p] # {} => Cardinality(desk) > 0)
  BY <1>2, OfficeDesk
<1>4. /\ pending' \in [Procs -> SUBSET Admin!Papers]
      /\ \A q \in Procs : pending'[q] = IF q = p THEN {} ELSE pending[q]
  BY <1>1
<1>5. Admin!OnDesk = Admin!OnDesk' \cup desk /\ Admin!OnDesk' \cap desk = {}
  BY <1>4 DEF Admin!OnDesk, Admin!IsPending
<1>6. PICK rest : rest = Admin!OnDesk' OBVIOUS
<1>7. IsFiniteSet(rest) /\ Cardinality(rest) \in Nat
  BY <1>5, <1>6, OfficeSets, FS_Subset, FS_CardinalityType
<1> HIDE DEF desk
<1>8. Cardinality(rest \cup desk) = Cardinality(rest) + Cardinality(desk) - Cardinality(rest \cap desk)
  BY <1>3, <1>7, FS_Union
<1>9. Cardinality(rest \cap desk) = 0 BY <1>5, <1>6, FS_EmptySet
<1> QED BY <1>3, <1>4, <1>5, <1>6, <1>7, <1>8, <1>9

\* The highest official begins alone, with no document.
LEMMA OfficeInit == ASSUME Admin!Init PROVE Admin!IndInv
<1> USE OfficeNumbers DEF Admin!Init, Admin!OnlyFirst, Admin!NothingPending
<1>1. Admin!OnDesk = {} /\ Admin!Choosing = {}
  BY DEF Admin!OnDesk, Admin!Choosing, Admin!IsPending
<1>2. Cardinality(Admin!OnDesk) = 0 /\ Cardinality(Admin!Choosing) = 0 BY <1>1, FS_EmptySet
<1>3. mem \in Admin!Memory BY DEF Admin!Memory
<1>4. at \in [Procs -> Admin!Places] /\ at[0] # "none" BY DEF Admin!Places
<1>5. \A p \in Admin!Official \ {0} : at[p] = "none" OBVIOUS
<1> QED BY <1>2, <1>3, <1>4, <1>5 DEF Admin!IndInv

\* An account of the documents that stays balanced.
LEMMA OfficeBalance ==
  ASSUME Admin!IndInv, mem' \in Admin!Memory, NEW desk \in Int, NEW choosing \in Int,
         Cardinality(Admin!OnDesk') = Cardinality(Admin!OnDesk) + desk,
         Cardinality(Admin!Choosing') = Cardinality(Admin!Choosing) + choosing,
         mem'.brought + mem.archived + mem.ignored + mem.merged + mem.opened =
           mem.brought + mem'.archived + mem'.ignored + mem'.merged + mem'.opened
           + desk + choosing
  PROVE  mem'.brought = mem'.archived + mem'.ignored + mem'.merged + mem'.opened
                        + Cardinality(Admin!OnDesk') + Cardinality(Admin!Choosing')
<1>1. /\ mem.brought \in Nat /\ mem.archived \in Nat /\ mem.ignored \in Nat
      /\ mem.merged \in Nat /\ mem.opened \in Nat
      /\ mem'.brought \in Nat /\ mem'.archived \in Nat /\ mem'.ignored \in Nat
      /\ mem'.merged \in Nat /\ mem'.opened \in Nat
  BY DEF Admin!IndInv, Admin!Memory
<1>2. PICK d \in Nat, c \in Nat : d = Cardinality(Admin!OnDesk) /\ c = Cardinality(Admin!Choosing)
  BY OfficeSets
<1>3. mem.brought = mem.archived + mem.ignored + mem.merged + mem.opened + d + c
  BY <1>2, OfficeNumbers DEF Admin!IndInv
<1>4. mem'.brought = mem'.archived + mem'.ignored + mem'.merged + mem'.opened
                     + (d + desk) + (c + choosing)
  BY <1>1, <1>3
<1> QED BY <1>2, <1>4

\* A step of an official, or a document of the user.
LEMMA OfficeStep ==
  ASSUME Admin!IndInv, NEW p, Admin!Step(p) \/ Admin!User
  PROVE  Admin!IndInv'
<1> USE OfficeNumbers DEF Admin!Move
<1>m. /\ mem \in Admin!Memory /\ at \in [Procs -> Admin!Places]
      /\ pending \in [Procs -> SUBSET Admin!Papers]
      /\ \A q \in Admin!Official \ {0} : at[q] # "none" => at[Admin!Superior(q)] # "none"
      /\ at[0] # "none" /\ (at[0] = "start" => mem.opened = 0)
  BY DEF Admin!IndInv
<1>n. /\ mem.brought \in Nat /\ mem.archived \in Nat /\ mem.ignored \in Nat
      /\ mem.merged \in Nat /\ mem.opened \in Nat
  BY <1>m DEF Admin!Memory
<1>s. PICK d \in Nat, c \in Nat : d = Cardinality(Admin!OnDesk) /\ c = Cardinality(Admin!Choosing)
  BY OfficeSets
<1>1. CASE Admin!User
  <2>1. PICK q \in Admin!Official, s \in {"USR1", "USR2"} :
          /\ Admin!Live(q) /\ pending' = Admin!Signalled({q}, s) /\ at' = at
          /\ mem' = [mem EXCEPT !.brought = @ + 1,
                                !.merged = IF Admin!IsPending(q, s) THEN @ + 1 ELSE @]
    BY <1>1 DEF Admin!User
  <2>2. at[q] # "none" BY <2>1 DEF Admin!Live
  <2>3. /\ pending' \in [Procs -> SUBSET Admin!Papers]
        /\ Cardinality(Admin!OnDesk') = IF Admin!IsPending(q, s) THEN d ELSE d + 1
    BY <1>s, <2>1, <2>2, OfficePost
  <2>4. Admin!Choosing' = Admin!Choosing BY <2>1 DEF Admin!Choosing
  <2>5. /\ mem' \in Admin!Memory /\ mem'.brought = mem.brought + 1 /\ mem'.archived = mem.archived
        /\ mem'.ignored = mem.ignored /\ mem'.opened = mem.opened
        /\ mem'.merged = IF Admin!IsPending(q, s) THEN mem.merged + 1 ELSE mem.merged
    <3>1. mem.brought + 1 \in Nat /\ mem.merged + 1 \in Nat BY <1>n
    <3> QED BY <1>m, <2>1, <3>1 DEF Admin!Memory
  <2>6. PICK more \in {0, 1} : more = IF Admin!IsPending(q, s) THEN 0 ELSE 1 OBVIOUS
  <2>7. /\ Cardinality(Admin!OnDesk') = d + more /\ mem'.merged = mem.merged + 1 - more
    BY <1>n, <2>3, <2>5, <2>6
  <2>8. Cardinality(Admin!Choosing') = c + 0 BY <1>s, <2>4
  <2>9. mem'.brought + mem.archived + mem.ignored + mem.merged + mem.opened =
          mem.brought + mem'.archived + mem'.ignored + mem'.merged + mem'.opened + more + 0
    BY <1>n, <2>5, <2>7
  <2>10. mem'.brought = mem'.archived + mem'.ignored + mem'.merged + mem'.opened
                        + Cardinality(Admin!OnDesk') + Cardinality(Admin!Choosing')
    BY <1>s, <2>5, <2>7, <2>8, <2>9, OfficeBalance
  <2> QED BY <1>m, <2>1, <2>3, <2>5, <2>10 DEF Admin!IndInv
\* What a step that moves one official and does not touch the signals has to show.
<1>q. ASSUME NEW q \in Admin!Official, NEW to \in Admin!Places \ {"none", "start"}, at[q] # "none",
             at' = [at EXCEPT ![q] = to], pending' = pending, mem' \in Admin!Memory,
             NEW k \in {-1, 0, 1},
             mem'.brought = mem.brought, mem'.opened = mem.opened,
             mem'.archived + mem'.ignored + mem'.merged + k =
               mem.archived + mem.ignored + mem.merged,
             at[q] # "choice" => k = IF to = "choice" THEN 1 ELSE 0,
             at[q] = "choice" => k = IF to = "choice" THEN 0 ELSE -1
      PROVE  Admin!IndInv'
  <2>1. Admin!OnDesk' = Admin!OnDesk BY <1>q DEF Admin!OnDesk, Admin!IsPending
  <2>2. to \in Admin!Places BY <1>q
  <2>3. /\ at' \in [Procs -> Admin!Places]
        /\ \A r \in Admin!Official \ {0} : at'[r] # "none" => at'[Admin!Superior(r)] # "none"
        /\ at'[0] # "none"
        /\ Cardinality(Admin!Choosing') =
             IF to = "choice" /\ at[q] # "choice" THEN c + 1
             ELSE IF to # "choice" /\ at[q] = "choice" THEN c - 1 ELSE c
    BY <1>q, <1>s, <2>2, OfficeChoosing
  <2>4. Cardinality(Admin!Choosing') = c + k BY <1>q, <2>3
  <2>5. at'[0] = "start" => at[0] = "start" BY <1>m, <1>q
  <2>6. /\ mem'.archived \in Nat /\ mem'.ignored \in Nat /\ mem'.merged \in Nat
    BY <1>q DEF Admin!Memory
  <2>7. mem'.brought + mem.archived + mem.ignored + mem.merged + mem.opened =
          mem.brought + mem'.archived + mem'.ignored + mem'.merged + mem'.opened + 0 + k
    BY <1>n, <1>q, <2>6
  <2>8. mem'.brought = mem'.archived + mem'.ignored + mem'.merged + mem'.opened
                       + Cardinality(Admin!OnDesk') + Cardinality(Admin!Choosing')
    <3>1. Cardinality(Admin!OnDesk') = Cardinality(Admin!OnDesk) + 0 BY <1>s, <2>1
    <3>2. Cardinality(Admin!Choosing') = Cardinality(Admin!Choosing) + k BY <1>s, <2>4
    <3> QED BY <1>q, <2>7, <3>1, <3>2, OfficeBalance
  <2> QED BY <1>m, <1>q, <2>3, <2>5, <2>8 DEF Admin!IndInv
\* All that is pending for one official is taken at once.
<1>t. ASSUME NEW q \in Admin!Official, NEW to \in {"inspect", "choice"}, at[q] # "none",
             at[q] # "choice", at' = [at EXCEPT ![q] = to],
             pending[q] # {}, pending' = [pending EXCEPT ![q] = {}],
             mem' = IF to = "choice" THEN [mem EXCEPT !.merged = @ + Cardinality(pending[q]) - 1]
                    ELSE [mem EXCEPT !.opened = Cardinality(pending[q])],
             to = "inspect" => q = 0 /\ mem.opened = 0
      PROVE  Admin!IndInv'
  <2>1. PICK n \in Nat : n = Cardinality(pending[q]) /\ n > 0 BY <1>t, OfficeTake
  <2>2. /\ pending' \in [Procs -> SUBSET Admin!Papers]
        /\ Cardinality(Admin!OnDesk') + n = Cardinality(Admin!OnDesk)
    BY <1>t, <2>1, OfficeTake
  <2>3. to \in Admin!Places BY DEF Admin!Places
  <2>4. /\ at' \in [Procs -> Admin!Places]
        /\ \A r \in Admin!Official \ {0} : at'[r] # "none" => at'[Admin!Superior(r)] # "none"
        /\ at'[0] # "none"
        /\ Cardinality(Admin!Choosing') = IF to = "choice" THEN c + 1 ELSE c
    BY <1>t, <1>s, <2>3, OfficeChoosing
  <2>5. at'[0] = "start" => at[0] = "start" BY <1>m, <1>t
  <2>6. Cardinality(Admin!OnDesk') = Cardinality(Admin!OnDesk) + (0 - n)
    <3>1. IsFiniteSet(Admin!OnDesk')
      <4>1. Admin!OnDesk' \subseteq Admin!OnDesk
        BY <1>m, <1>t DEF Admin!OnDesk, Admin!IsPending
      <4>2. PICK rest : rest = Admin!OnDesk' OBVIOUS
      <4> QED BY <4>1, <4>2, OfficeSets, FS_Subset
    <3>2. PICK e \in Nat : e = Cardinality(Admin!OnDesk')
      <4>1. PICK rest : rest = Admin!OnDesk' OBVIOUS
      <4> QED BY <3>1, <4>1, FS_CardinalityType
    <3>3. e + n = d BY <1>s, <2>2, <3>2
    <3>4. e = d + (0 - n) BY <3>3
    <3> QED BY <1>s, <3>2, <3>4
  <2>7. CASE to = "choice"
    <3>1. mem.merged + n - 1 \in Nat BY <1>n, <2>1
    <3>2. /\ mem' \in Admin!Memory /\ mem'.brought = mem.brought /\ mem'.archived = mem.archived
          /\ mem'.ignored = mem.ignored /\ mem'.opened = mem.opened
          /\ mem'.merged = mem.merged + n - 1
      BY <1>m, <1>t, <2>1, <2>7, <3>1 DEF Admin!Memory
    <3>3. mem'.brought + mem.archived + mem.ignored + mem.merged + mem.opened =
            mem.brought + mem'.archived + mem'.ignored + mem'.merged + mem'.opened + (0 - n) + 1
      <4>1. (mem.merged + n - 1) + (0 - n) + 1 = mem.merged BY <1>n
      <4>2. PICK m \in Int : m = mem.merged + n - 1 BY <1>n
      <4>3. m + (0 - n) + 1 = mem.merged /\ mem'.merged = m BY <3>2, <4>1, <4>2
      <4> QED BY <1>n, <3>2, <4>3
    <3>4. Cardinality(Admin!Choosing') = Cardinality(Admin!Choosing) + 1 BY <1>s, <2>4, <2>7
    <3>5. mem'.brought = mem'.archived + mem'.ignored + mem'.merged + mem'.opened
                         + Cardinality(Admin!OnDesk') + Cardinality(Admin!Choosing')
      BY <2>6, <3>2, <3>3, <3>4, OfficeBalance
    <3> QED BY <1>m, <2>2, <2>4, <2>5, <3>2, <3>5 DEF Admin!IndInv
  <2>8. CASE to = "inspect"
    <3>2. /\ mem' \in Admin!Memory /\ mem'.brought = mem.brought /\ mem'.archived = mem.archived
          /\ mem'.ignored = mem.ignored /\ mem'.opened = n /\ mem'.merged = mem.merged
      BY <1>m, <1>t, <2>1, <2>8 DEF Admin!Memory
    <3>3. mem'.brought + mem.archived + mem.ignored + mem.merged + mem.opened =
            mem.brought + mem'.archived + mem'.ignored + mem'.merged + mem'.opened + (0 - n) + 0
      BY <1>n, <1>t, <2>8, <3>2
    <3>4. Cardinality(Admin!Choosing') = Cardinality(Admin!Choosing) + 0 BY <1>s, <2>4, <2>8
    <3>5. mem'.brought = mem'.archived + mem'.ignored + mem'.merged + mem'.opened
                         + Cardinality(Admin!OnDesk') + Cardinality(Admin!Choosing')
      BY <2>6, <3>2, <3>3, <3>4, OfficeBalance
    <3>6. at'[0] # "start" BY <1>m, <1>t, <2>8
    <3> QED BY <1>m, <2>2, <2>4, <3>2, <3>5, <3>6 DEF Admin!IndInv
  <2> QED BY <2>7, <2>8
<1>2. CASE p = 0 /\ Admin!OpenOffice
  <2>1. /\ at[0] = "start" /\ at' = [at EXCEPT ![0] = "inspect"]
        /\ pending[0] # {} /\ pending' = [pending EXCEPT ![0] = {}]
        /\ mem' = [mem EXCEPT !.opened = Cardinality(pending[0])]
    BY <1>2 DEF Admin!OpenOffice
  <2> QED BY <1>m, <1>t, <2>1
<1>3. CASE p \in Admin!Official /\ Admin!Receive(p)
  <2>1. /\ at[p] = "suspended" /\ at' = [at EXCEPT ![p] = "choice"]
        /\ pending[p] # {} /\ pending' = [pending EXCEPT ![p] = {}]
        /\ mem' = [mem EXCEPT !.merged = @ + Cardinality(pending[p]) - 1]
    BY <1>3 DEF Admin!Receive
  <2> QED BY <1>3, <1>m, <1>t, <2>1
<1>4. CASE p \in Admin!Official /\ Admin!Inspected(p)
  <2>1. at[p] = "inspect" /\ at' = [at EXCEPT ![p] = "suspended"] /\ pending' = pending /\ mem' = mem
    BY <1>4 DEF Admin!Inspected
  <2>2. "suspended" \in Admin!Places \ {"none", "start"} BY DEF Admin!Places
  <2>3. mem'.archived + mem'.ignored + mem'.merged + 0 = mem.archived + mem.ignored + mem.merged
    BY <1>n, <2>1
  <2> QED BY <1>4, <1>m, <1>q, <2>1, <2>2, <2>3
<1>5. CASE p \in Admin!Official /\ Admin!Archive(p)
  <2>1. /\ at[p] = "choice" /\ at' = [at EXCEPT ![p] = "suspended"] /\ pending' = pending
        /\ mem' = [mem EXCEPT !.archived = @ + 1]
    BY <1>5 DEF Admin!Archive
  <2>2. "suspended" \in Admin!Places \ {"none", "start"} BY DEF Admin!Places
  <2>3. /\ mem' \in Admin!Memory /\ mem'.brought = mem.brought /\ mem'.opened = mem.opened
        /\ mem'.archived = mem.archived + 1 /\ mem'.ignored = mem.ignored /\ mem'.merged = mem.merged
    BY <1>m, <2>1 DEF Admin!Memory
  <2>4. mem'.archived + mem'.ignored + mem'.merged + (-1) = mem.archived + mem.ignored + mem.merged
    BY <1>n, <2>3
  <2> QED BY <1>5, <1>q, <2>1, <2>2, <2>3, <2>4
<1>6. CASE p = 0 /\ Admin!Ignore
  <2>1. /\ at[0] = "choice" /\ at' = [at EXCEPT ![0] = "suspended"] /\ pending' = pending
        /\ mem' = [mem EXCEPT !.ignored = @ + 1]
    BY <1>6 DEF Admin!Ignore
  <2>2. "suspended" \in Admin!Places \ {"none", "start"} BY DEF Admin!Places
  <2>3. /\ mem' \in Admin!Memory /\ mem'.brought = mem.brought /\ mem'.opened = mem.opened
        /\ mem'.archived = mem.archived /\ mem'.ignored = mem.ignored + 1 /\ mem'.merged = mem.merged
    BY <1>m, <2>1 DEF Admin!Memory
  <2>4. mem'.archived + mem'.ignored + mem'.merged + (-1) = mem.archived + mem.ignored + mem.merged
    BY <1>n, <2>3
  <2> QED BY <1>q, <2>1, <2>2, <2>3, <2>4
\* A new official, whose superior is the one that forks it.
<1>7. ASSUME NEW s \in Admin!Subordinates(p), p \in Admin!Official, Admin!Fork(p, s)
      PROVE  Admin!IndInv'
  <2>1. /\ s \in Admin!Official \ {0} /\ Admin!Superior(s) = p /\ at[p] = "inspect"
        /\ at[s] = "none" /\ at' = [at EXCEPT ![s] = "inspect"] /\ pending' = pending /\ mem' = mem
    BY <1>7 DEF Admin!Fork, Admin!Subordinates
  <2>2. "inspect" \in Admin!Places BY DEF Admin!Places
  <2>3. at' \in [Procs -> Admin!Places] /\ Cardinality(Admin!Choosing') = Cardinality(Admin!Choosing)
    BY <2>1, <2>2, OfficeChoosing
  <2>4. \A r \in Procs : at'[r] = IF r = s THEN "inspect" ELSE at[r] BY <1>m, <2>1
  <2>5. \A r \in Admin!Official \ {0} : at'[r] # "none" => at'[Admin!Superior(r)] # "none"
    BY <1>m, <2>1, <2>4
  <2>6. at'[0] = at[0] BY <2>1, <2>4
  <2>7. Admin!OnDesk' = Admin!OnDesk BY <2>1 DEF Admin!OnDesk, Admin!IsPending
  <2> QED BY <1>m, <2>1, <2>3, <2>5, <2>6, <2>7 DEF Admin!IndInv
\* The choice becomes a document of the superior, or merges with one.
<1>8. CASE p \in Admin!Official /\ Admin!PassOn(p)
  <2> DEFINE up == Admin!Superior(p)
  <2>1. /\ p # 0 /\ at[p] = "choice" /\ at' = [at EXCEPT ![p] = "suspended"]
        /\ pending' = Admin!Signalled({up}, "USR2")
        /\ mem' = [mem EXCEPT !.merged = IF Admin!IsPending(up, "USR2") THEN @ + 1 ELSE @]
    BY <1>8 DEF Admin!PassOn
  <2>2. up \in Admin!Official /\ at[up] # "none" BY <1>8, <1>m, <2>1
  <2> HIDE DEF up
  <2>3. /\ pending' \in [Procs -> SUBSET Admin!Papers]
        /\ Cardinality(Admin!OnDesk') = IF Admin!IsPending(up, "USR2") THEN d ELSE d + 1
    BY <1>s, <2>1, <2>2, OfficePost
  <2>4. "suspended" \in Admin!Places BY DEF Admin!Places
  <2>5. /\ at' \in [Procs -> Admin!Places]
        /\ \A r \in Admin!Official \ {0} : at'[r] # "none" => at'[Admin!Superior(r)] # "none"
        /\ at'[0] # "none"
        /\ Cardinality(Admin!Choosing') = c - 1
    BY <1>8, <1>s, <2>1, <2>4, OfficeChoosing
  <2>6. at'[0] = at[0] BY <1>m, <2>1
  <2>7. /\ mem' \in Admin!Memory /\ mem'.brought = mem.brought /\ mem'.archived = mem.archived
        /\ mem'.ignored = mem.ignored /\ mem'.opened = mem.opened
        /\ mem'.merged = IF Admin!IsPending(up, "USR2") THEN mem.merged + 1 ELSE mem.merged
    BY <1>m, <2>1 DEF Admin!Memory
  <2>8. PICK more \in {0, 1} : more = IF Admin!IsPending(up, "USR2") THEN 0 ELSE 1 OBVIOUS
  <2>9. /\ Cardinality(Admin!OnDesk') = d + more /\ mem'.merged = mem.merged + 1 - more
    BY <1>n, <2>3, <2>7, <2>8
  <2>10. Cardinality(Admin!Choosing') = c + (-1) BY <2>5
  <2>11. mem'.brought + mem.archived + mem.ignored + mem.merged + mem.opened =
           mem.brought + mem'.archived + mem'.ignored + mem'.merged + mem'.opened + more + (-1)
    BY <1>n, <2>7, <2>9
  <2>12. mem'.brought = mem'.archived + mem'.ignored + mem'.merged + mem'.opened
                        + Cardinality(Admin!OnDesk') + Cardinality(Admin!Choosing')
    BY <1>s, <2>7, <2>9, <2>10, <2>11, OfficeBalance
  <2> QED BY <1>m, <2>3, <2>5, <2>6, <2>7, <2>12 DEF Admin!IndInv
<1> QED BY <1>1, <1>2, <1>3, <1>4, <1>5, <1>6, <1>7, <1>8 DEF Admin!Step

\* The account is that of the property.
LEMMA OfficeInvariant == ASSUME Admin!IndInv PROVE Admin!CountsAddUp
BY OfficeNumbers DEF Admin!IndInv, Admin!CountsAddUp, Admin!OnDesk, Admin!Choosing

-----------------------------------------------------------------------------
(***************************************************************************)
(* All programs: the inductive invariant of a run is that of its program.  *)
(***************************************************************************)

\* The invariant of the program that runs.
ProgramInv ==
  /\ program \in Programs
  /\ program = "class"  => Class!IndInv
  /\ program = "first"  => FirstClass!IndInv
  /\ program = "sign"   => Sign!IndInv
  /\ program = "sop"    => Lab(FALSE)!IndInv
  /\ program = "pol"    => Lab(TRUE)!IndInv
  /\ program = "tree"   => Tree!IndInv
  /\ program = "throw"  => Throw!IndInv
  /\ program = "list"   => List!IndInv
  /\ program = "study"  => Study!IndInv
  /\ program = "report" => Report!IndInv
  /\ program = "stones" => Stones!IndInv
  /\ program = "relay"  => Relay!IndInv
  /\ program = "office" => Admin!IndInv

\* A step of the teacher or of a student.
LEMMA ClassStep ==
  ASSUME Class!IndInv, NEW p, Class!Step(p) PROVE Class!IndInv'
BY ClassStudents, ClassTeacher DEF Class!Step

\* The same of the first version of the classroom.
LEMMA FirstStep ==
  ASSUME FirstClass!IndInv, NEW p, FirstClass!Step(p) PROVE FirstClass!IndInv'
<1>1. p = 0 \/ p \in FirstClass!Students BY DEF FirstClass!Step
<1> QED BY <1>1, FirstStudents, FirstTeacher

\* The same of the signers.
LEMMA SignStep ==
  ASSUME Sign!IndInv, NEW p, Sign!Step(p) PROVE Sign!IndInv'
<1>1. p = 0 \/ p \in Sign!Signer BY DEF Sign!Step
<1> QED BY <1>1, SignFirst, SignSigner

\* A step that leaves the machine alone keeps the invariant of the classroom.
LEMMA ClassSame == ASSUME Class!IndInv, UNCHANGED machine PROVE Class!IndInv'
BY DEF machine, Class!IndInv, Class!TypeOK, Class!MemOK, Class!ForkInv, Class!PendingInv,
       Class!StatisticsComplete, Class!StudentInv, Class!IsPending, Class!Waits, Class!Reported

\* The same of the first version of the classroom.
LEMMA FirstSame == ASSUME FirstClass!IndInv, UNCHANGED machine PROVE FirstClass!IndInv'
BY DEF machine, FirstClass!IndInv, FirstClass!MemOK, FirstClass!ForkInv, FirstClass!PendingInv,
       FirstClass!CountInv, FirstClass!Answered, FirstClass!ReapedInv, FirstClass!StudentInv,
       FirstClass!IsPending, FirstClass!Reported, FirstClass!Unanswered

\* The same of the signers.
LEMMA SignSame == ASSUME Sign!IndInv, UNCHANGED machine PROVE Sign!IndInv'
<1>1. at' = at /\ mem' = mem /\ pending' = pending BY DEF machine
<1>2. Sign!MemOK' <=> Sign!MemOK BY <1>1 DEF Sign!MemOK
<1>3. \A s \in Sign!Signer : Sign!SignerInv(s)' <=> Sign!SignerInv(s) BY <1>1 DEF Sign!SignerInv
<1>4. \A s, p : Sign!LinesOf(s, p)' = Sign!LinesOf(s, p) BY <1>1 DEF Sign!LinesOf
<1>5. \A p : Sign!PageInv(p)' <=> Sign!PageInv(p) BY <1>1, <1>4 DEF Sign!PageInv
<1>6. Sign!LeftInv' <=> Sign!LeftInv BY <1>1 DEF Sign!LeftInv
<1> QED BY <1>1, <1>2, <1>3, <1>5, <1>6 DEF Sign!IndInv

\* The same of both collections.
LEMMA LabSame ==
  ASSUME NEW l \in BOOLEAN, Lab(l)!IndInv, UNCHANGED machine PROVE Lab(l)!IndInv'
<1> USE DEF machine
<1>1. Lab(l)!MemOK' /\ Lab(l)!PlaceInv' BY DEF Lab!IndInv, Lab!MemOK, Lab!PlaceInv
<1>2. ASSUME NEW b \in Lab(l)!Box PROVE Lab(l)!BoxInv(b)'
  <2>1. Lab(l)!BoxInv(b) BY DEF Lab!IndInv
  <2>2. Lab(l)!FileInv(b)' BY <2>1, LabFile DEF Lab!BoxInv, Lab!Written
  <2>3. Lab(l)!ReadInv(b)'
    BY <2>1 DEF Lab!BoxInv, Lab!ReadInv, Lab!Written, Lab!ToRead, Lab!Live, Lab!IsPending, Lab!Donation
  <2> QED BY <2>1, <2>2, <2>3 DEF Lab!BoxInv, Lab!IsPending
<1> QED BY <1>1, <1>2 DEF Lab!IndInv

\* The same of the tree.
LEMMA TreeSame == ASSUME Tree!IndInv, UNCHANGED machine PROVE Tree!IndInv'
BY DEF machine, Tree!IndInv, Tree!NodeInv, Tree!Ended

\* The same of the throwers.
LEMMA ThrowSame == ASSUME Throw!IndInv, UNCHANGED machine PROVE Throw!IndInv'
BY DEF machine, Throw!IndInv, Throw!Throwing, Throw!Counting, Throw!SumsOf, Throw!PartialSums

\* The same of the list.
LEMMA ListSame == ASSUME List!IndInv, UNCHANGED machine PROVE List!IndInv'
BY DEF machine, List!IndInv, List!Entries, List!IsPending

\* The same of the years.
LEMMA StudySame == ASSUME Study!IndInv, UNCHANGED machine PROVE Study!IndInv'
BY DEF machine, Study!IndInv, Study!StudentInv, Study!In

\* The same of the reports.
LEMMA ReportSame == ASSUME Report!IndInv, UNCHANGED machine PROVE Report!IndInv'
BY DEF machine, Report!IndInv, Report!IsPending

\* The same of the workers.
LEMMA StonesSame == ASSUME Stones!IndInv, UNCHANGED machine PROVE Stones!IndInv'
BY DEF machine, Stones!IndInv

\* The same of the relay.
LEMMA RelaySame == ASSUME Relay!IndInv, UNCHANGED machine PROVE Relay!IndInv'
BY DEF machine, Relay!IndInv, Relay!Served, Relay!Called0, Relay!Unspent, Relay!IsPending

\* The same of the office.
LEMMA OfficeSame == ASSUME Admin!IndInv, UNCHANGED machine PROVE Admin!IndInv'
BY DEF machine, Admin!IndInv, Admin!OnDesk, Admin!Choosing, Admin!IsPending

-----------------------------------------------------------------------------
\* Every program starts in its invariant.
LEMMA ProgramInit == ASSUME Init PROVE ProgramInv
<1>1. Lab(FALSE)!Init => Lab(FALSE)!IndInv BY LabInit
<1>2. Lab(TRUE)!Init => Lab(TRUE)!IndInv BY LabInit
<1> QED
  BY <1>1, <1>2, ClassInit, FirstInit, SignInit, TreeInit, ThrowInit, ListInit, StudyInit,
     ReportInit, StonesInit, RelayInit, OfficeInit
  DEF Init, ProgramInv

\* A signal of the user keeps it.
LEMMA ProgramUser == ASSUME ProgramInv, User PROVE ProgramInv'
<1> USE DEF ProgramInv
<1>0. program' = program BY DEF User
<1>1. CASE program = "sop"
  <2>1. Lab(FALSE)!IndInv /\ Lab(FALSE)!User BY <1>1 DEF User
  <2>2. Lab(FALSE)!IndInv' BY <2>1, LabFirstStep
  <2> QED BY <1>0, <1>1, <2>2
<1>2. CASE program = "pol"
  <2>1. Lab(TRUE)!IndInv /\ Lab(TRUE)!User BY <1>2 DEF User
  <2>2. Lab(TRUE)!IndInv' BY <2>1, LabFirstStep
  <2> QED BY <1>0, <1>2, <2>2
<1>3. CASE program = "tree"
  <2>1. Tree!IndInv' BY <1>3, TreeUser DEF User
  <2> QED BY <1>0, <1>3, <2>1
<1>4. CASE program = "list"
  <2>1. List!IndInv' BY <1>4, ListStep DEF User
  <2> QED BY <1>0, <1>4, <2>1
<1>5. CASE program = "stones"
  <2>1. Stones!IndInv' BY <1>5, StonesStep DEF User
  <2> QED BY <1>0, <1>5, <2>1
<1>6. CASE program = "relay"
  <2>1. Relay!IndInv' BY <1>6, RelayStep DEF User
  <2> QED BY <1>0, <1>6, <2>1
<1>7. CASE program = "office"
  <2>1. Admin!IndInv' BY <1>7, OfficeStep DEF User
  <2> QED BY <1>0, <1>7, <2>1
<1> QED BY <1>1, <1>2, <1>3, <1>4, <1>5, <1>6, <1>7 DEF User

\* A step of a process or thread keeps it.
LEMMA ProgramStep == ASSUME ProgramInv, NEW p \in Procs, Step(p) PROVE ProgramInv'
<1> USE DEF ProgramInv
<1>0. program' = program BY DEF Step
<1>1. CASE program = "class"
  <2>1. Class!IndInv' BY <1>1, ClassStep DEF Step
  <2> QED BY <1>0, <1>1, <2>1
<1>2. CASE program = "first"
  <2>1. FirstClass!IndInv' BY <1>2, FirstStep DEF Step
  <2> QED BY <1>0, <1>2, <2>1
<1>3. CASE program = "sign"
  <2>1. Sign!IndInv' BY <1>3, SignStep DEF Step
  <2> QED BY <1>0, <1>3, <2>1
<1>4. CASE program = "sop"
  <2>1. Lab(FALSE)!IndInv /\ Lab(FALSE)!Step(p) BY <1>4 DEF Step
  <2>2. Lab(FALSE)!IndInv' BY <2>1, LabStep
  <2> QED BY <1>0, <1>4, <2>2
<1>5. CASE program = "pol"
  <2>1. Lab(TRUE)!IndInv /\ Lab(TRUE)!Step(p) BY <1>5 DEF Step
  <2>2. Lab(TRUE)!IndInv' BY <2>1, LabStep
  <2> QED BY <1>0, <1>5, <2>2
<1>6. CASE program = "tree"
  <2>1. Tree!IndInv' BY <1>6, TreeStep DEF Step
  <2> QED BY <1>0, <1>6, <2>1
<1>7. CASE program = "throw"
  <2>1. Throw!IndInv' BY <1>7, ThrowStep DEF Step
  <2> QED BY <1>0, <1>7, <2>1
<1>8. CASE program = "list"
  <2>1. List!IndInv' BY <1>8, ListStep DEF Step
  <2> QED BY <1>0, <1>8, <2>1
<1>9. CASE program = "study"
  <2>1. Study!IndInv' BY <1>9, StudyStep DEF Step
  <2> QED BY <1>0, <1>9, <2>1
<1>10. CASE program = "report"
  <2>1. Report!IndInv' BY <1>10, ReportStep DEF Step
  <2> QED BY <1>0, <1>10, <2>1
<1>11. CASE program = "stones"
  <2>1. Stones!IndInv' BY <1>11, StonesStep DEF Step
  <2> QED BY <1>0, <1>11, <2>1
<1>12. CASE program = "relay"
  <2>1. Relay!IndInv' BY <1>12, RelayStep DEF Step
  <2> QED BY <1>0, <1>12, <2>1
<1>13. CASE program = "office"
  <2>1. Admin!IndInv' BY <1>13, OfficeStep DEF Step
  <2> QED BY <1>0, <1>13, <2>1
<1> QED
  BY <1>1, <1>2, <1>3, <1>4, <1>5, <1>6, <1>7, <1>8, <1>9, <1>10, <1>11, <1>12, <1>13 DEF Step

\* A step that changes nothing keeps it.
LEMMA ProgramSame == ASSUME ProgramInv, UNCHANGED vars PROVE ProgramInv'
<1>0. UNCHANGED machine /\ program' = program BY DEF vars
<1>1. program' = "sop" => Lab(FALSE)!IndInv'
  <2>1. program = "sop" => Lab(FALSE)!IndInv BY DEF ProgramInv
  <2> QED BY <1>0, <2>1, LabSame
<1>2. program' = "pol" => Lab(TRUE)!IndInv'
  <2>1. program = "pol" => Lab(TRUE)!IndInv BY DEF ProgramInv
  <2> QED BY <1>0, <2>1, LabSame
<1>3. program' = "class" => Class!IndInv'
  <2>1. program = "class" => Class!IndInv BY DEF ProgramInv
  <2> QED BY <1>0, <2>1, ClassSame
<1>4. program' = "first" => FirstClass!IndInv'
  <2>1. program = "first" => FirstClass!IndInv BY DEF ProgramInv
  <2> QED BY <1>0, <2>1, FirstSame
<1>5. program' = "sign" => Sign!IndInv'
  <2>1. program = "sign" => Sign!IndInv BY DEF ProgramInv
  <2> QED BY <1>0, <2>1, SignSame
<1>6. program' = "tree" => Tree!IndInv'
  <2>1. program = "tree" => Tree!IndInv BY DEF ProgramInv
  <2> QED BY <1>0, <2>1, TreeSame
<1>7. program' = "throw" => Throw!IndInv'
  <2>1. program = "throw" => Throw!IndInv BY DEF ProgramInv
  <2> QED BY <1>0, <2>1, ThrowSame
<1>8. program' = "list" => List!IndInv'
  <2>1. program = "list" => List!IndInv BY DEF ProgramInv
  <2> QED BY <1>0, <2>1, ListSame
<1>9. program' = "study" => Study!IndInv'
  <2>1. program = "study" => Study!IndInv BY DEF ProgramInv
  <2> QED BY <1>0, <2>1, StudySame
<1>10. program' = "report" => Report!IndInv'
  <2>1. program = "report" => Report!IndInv BY DEF ProgramInv
  <2> QED BY <1>0, <2>1, ReportSame
<1>11. program' = "stones" => Stones!IndInv'
  <2>1. program = "stones" => Stones!IndInv BY DEF ProgramInv
  <2> QED BY <1>0, <2>1, StonesSame
<1>12. program' = "relay" => Relay!IndInv'
  <2>1. program = "relay" => Relay!IndInv BY DEF ProgramInv
  <2> QED BY <1>0, <2>1, RelaySame
<1>13. program' = "office" => Admin!IndInv'
  <2>1. program = "office" => Admin!IndInv BY DEF ProgramInv
  <2> QED BY <1>0, <2>1, OfficeSame
<1> QED
  BY <1>0, <1>1, <1>2, <1>3, <1>4, <1>5, <1>6, <1>7, <1>8, <1>9, <1>10, <1>11, <1>12, <1>13
  DEF ProgramInv

\* Each program of the run keeps its own invariant, for every number of
\* processes, threads, parts, pages, boxes, balls and documents.
THEOREM ProgramsKeep == Spec => []ProgramInv
<1>1. Init => ProgramInv BY ProgramInit
<1>2. ProgramInv /\ [Next]_vars => ProgramInv'
  <2> SUFFICES ASSUME ProgramInv, [Next]_vars PROVE ProgramInv' OBVIOUS
  <2>1. CASE User BY <2>1, ProgramUser
  <2>2. ASSUME NEW p \in Procs, Step(p) PROVE ProgramInv' BY <2>2, ProgramStep
  <2>3. CASE UNCHANGED vars BY <2>3, ProgramSame
  <2> QED BY <2>1, <2>2, <2>3 DEF Next
<1> QED BY <1>1, <1>2, PTL DEF Spec

\* A student of either classroom that waits for an answer that will not come
\* had its report merged with one that was pending (task2_alternative.c:173,
\* task2.c:75): a report is lost in no other way, for every size of the class.
THEOREM OnlyMergedReportsLost == Spec => []OnlyMergedLost
<1>1. ProgramInv => OnlyMergedLost
  BY ClassInvariant, FirstInvariant DEF ProgramInv, OnlyMergedLost
<1> QED BY <1>1, ProgramsKeep, PTL

\* The teacher of either classroom answers each part of a student once, after
\* the student has finished it and before it goes on (task2_alternative.c:88-108,
\* task2.c:44-71).
THEOREM PartsAnsweredOnce == Spec => []OneAnswerPerPart
<1>1. ProgramInv => OneAnswerPerPart
  BY ClassInvariant, FirstInvariant DEF ProgramInv, OneAnswerPerPart
<1> QED BY <1>1, ProgramsKeep, PTL

\* The signers of ops-sign.c that append to the same files lose no line and
\* write none twice, for every number of signers and pages.
THEOREM PagesAreSigned == Spec => []PagesSigned
<1>1. ProgramInv => PagesSigned BY SignInvariant DEF ProgramInv, PagesSigned
<1> QED BY <1>1, ProgramsKeep, PTL

\* A process of lab.c that ends by itself has waited for both its children,
\* however signals interrupt its waits and whatever the shape of its tree.
THEOREM TreeHasWaited == Spec => []TreeWaits
<1>1. ProgramInv => TreeWaits BY TreeInvariant DEF ProgramInv, TreeWaits
<1> QED BY <1>1, ProgramsKeep, PTL

\* A box of either collection that always reads in time has read each donation
\* whole, once and in order, though the file is written in two parts and the
\* donor and the box run side by side.
THEOREM BoxesReadDonations == Spec => []BoxesCount
<1>1. Lab(FALSE)!IndInv => Lab(FALSE)!BoxesCount BY LabInvariant
<1>2. Lab(TRUE)!IndInv => Lab(TRUE)!BoxesCount BY LabInvariant
<1> QED
  <2>1. ProgramInv => BoxesCount BY <1>1, <1>2 DEF ProgramInv, BoxesCount
  <2> QED BY <2>1, ProgramsKeep, PTL

\* Who has ended by itself has waited for its children or threads, and what it
\* counted or recorded of them is what they did: the ten programs that wait,
\* for every number of children.
THEOREM ChildrenAreReaped == Spec => []AllReaped
<1>1. Lab(FALSE)!IndInv => Lab(FALSE)!AllReaped BY LabInvariant
<1>2. Lab(TRUE)!IndInv => Lab(TRUE)!AllReaped BY LabInvariant
<1>3. ProgramInv => AllReaped
  BY <1>1, <1>2, ClassInvariant, FirstInvariant, SignInvariant, ListInvariant, StudyInvariant,
     ReportInvariant, StonesInvariant, RelayInvariant
  DEF ProgramInv, AllReaped
<1> QED BY <1>3, ProgramsKeep, PTL

\* What the threads of prog18.c, prog19.c and prog20.c count under their mutexes
\* is what main reads at the end, and no document of ops-admin.c is lost but by
\* merging or made twice, for every number of threads, balls and officials.
THEOREM CountsAreRight == Spec => []CountsAddUp
<1>1. ProgramInv => CountsAddUp
  BY ThrowInvariant, ListInvariant, StudyInvariant, OfficeInvariant DEF ProgramInv, CountsAddUp
<1> QED BY <1>1, ProgramsKeep, PTL
=============================================================================
