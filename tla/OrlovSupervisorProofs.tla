----------------------- MODULE OrlovSupervisorProofs -----------------------
(***************************************************************************)
(* Proofs about OrlovSupervisor, for every set of sources, targets and     *)
(* process numbers, every size of the list and every bound: its inductive  *)
(* invariant, that the list is exact, and that the supervisor implements   *)
(* BackupService.                                                          *)
(***************************************************************************)
EXTENDS OrlovSupervisor, SequenceTheorems, TLAPS

-----------------------------------------------------------------------------
(* Facts about commands, entries and the list.                             *)

Ops == {"none", "list", "add", "end", "restore", "exit"}

Commands == [op : Ops, src : Sources, todo : Seq(Targets)]

Stages == Live \cup {"none", "zombie"}

\* The command after one target has been dealt with is a command again.
LEMMA NextTargetType ==
  ASSUME cmd \in Commands, cmd.todo # <<>>
  PROVE  /\ [cmd EXCEPT !.todo = Tail(@)] \in Commands
         /\ Head(cmd.todo) \in Targets
BY DEF Commands

\* The empty command is a command.
LEMMA NoCommandType == NoCommand \in Commands
BY ConstantsAssumption DEF NoCommand, Commands, Ops

\* The lines of Todos are not empty.
LEMMA TodoType == ASSUME NEW todo \in Todos PROVE todo \in Seq(Targets) /\ todo # <<>>
BY ConstantsAssumption DEF Todos

\* A pair is not the pair of nobody.
LEMMA PairNotNoPair == ASSUME NEW s, NEW t PROVE <<s, t>> # NoPair
BY DEF NoPair

\* Entries are entries.
LEMMA EntryType ==
  ASSUME TypeOK, NEW i \in DOMAIN backups
  PROVE  /\ i \in 1 .. Len(backups) /\ Len(backups) \in Nat
         /\ backups[i] \in Entry
         /\ backups[i].src \in Sources /\ backups[i].dst \in Targets
         /\ backups[i].pid \in Workers
<1>1. backups \in Seq(Entry) BY DEF TypeOK
<1>2. i \in 1 .. Len(backups) /\ Len(backups) \in Nat /\ backups[i] \in Entry BY <1>1
<1> QED BY <1>2 DEF Entry

\* The index that an entry of the shortened list had before.
Old(i, j) == IF j = i THEN Len(backups) ELSE j

\* Removing entry i keeps the others, one of them in another place.
EntryGone(i) ==
  /\ backups' \in Seq(Entry) /\ Len(backups') <= MAX_BACKUPS
  /\ \A j \in DOMAIN backups' :
       Old(i, j) \in DOMAIN backups \ {i} /\ backups'[j] = backups[Old(i, j)]
  /\ \A j, k \in DOMAIN backups' : Old(i, j) = Old(i, k) => j = k
  /\ \A k \in DOMAIN backups \ {i} : \E j \in DOMAIN backups' : Old(i, j) = k

LEMMA WithoutEffect ==
  ASSUME TypeOK, NEW i \in DOMAIN backups, backups' = Without(i)
  PROVE  EntryGone(i)
<1> DEFINE n == Len(backups)
<1>1. n \in Nat /\ n <= MAX_BACKUPS /\ i \in 1 .. n /\ DOMAIN backups = 1 .. n
      /\ MAX_BACKUPS \in Nat /\ \A j \in 1 .. n : backups[j] \in Entry
  BY ConstantsAssumption, EntryType DEF TypeOK
<1>2. /\ n - 1 \in Nat /\ DOMAIN backups' = 1 .. n - 1
      /\ \A j \in 1 .. n - 1 : Old(i, j) \in 1 .. n /\ backups'[j] = backups[Old(i, j)]
  BY <1>1 DEF Without, Old
<1>3. backups' = [j \in 1 .. n - 1 |-> backups[Old(i, j)]] BY DEF Without, Old
<1>4. backups' \in [1 .. n - 1 -> Entry] BY <1>1, <1>2, <1>3
<1>5. backups' \in Seq(Entry) /\ Len(backups') = n - 1
  <2> DEFINE m == n - 1
  <2>1. m \in Nat /\ backups' \in [1 .. m -> Entry] BY <1>2, <1>4
  <2> HIDE DEF m
  <2>2. backups' \in Seq(Entry) /\ Len(backups') = m BY <2>1
  <2> QED BY <2>2 DEF m
<1>6. \A j \in DOMAIN backups' :
        Old(i, j) \in DOMAIN backups \ {i} /\ backups'[j] = backups[Old(i, j)]
  BY <1>1, <1>2 DEF Old
<1>7. \A j, k \in DOMAIN backups' : Old(i, j) = Old(i, k) => j = k
  BY <1>1, <1>2 DEF Old
<1>8. ASSUME NEW k \in DOMAIN backups \ {i} PROVE \E j \in DOMAIN backups' : Old(i, j) = k
  <2>1. CASE k = n
    <3>1. i \in DOMAIN backups' /\ Old(i, i) = k BY <1>1, <1>2, <2>1 DEF Old
    <3> QED BY <3>1
  <2>2. CASE k # n
    <3>1. k \in DOMAIN backups' /\ Old(i, k) = k BY <1>1, <1>2, <2>2 DEF Old
    <3> QED BY <3>1
  <2> QED BY <2>1, <2>2
<1> QED BY <1>1, <1>5, <1>6, <1>7, <1>8 DEF EntryGone

-----------------------------------------------------------------------------
(* The parts of the invariant.                                             *)

ListInv == UniquePids /\ UniquePairs /\ NumbersInUse /\ CurrentAreChildren /\ UnlistedWereLeft

\* The invariant in its parts.
LEMMA IndInvParts ==
  IndInv <=> TypeOK /\ ListInv /\ AcceptedInv /\ AwaitedInv /\ LeavingInv
BY DEF IndInv, ListInv

\* A step that starts and reaps no worker and leaves the list alone; workers may die.
SameList ==
  /\ UNCHANGED <<backups, pair, left, Current>>
  /\ \A w \in Workers : /\ stage'[w] = "none" <=> stage[w] = "none"
                        /\ stage'[w] \in Live => stage[w] \in Live

\* Such a step keeps what is said of the list.
LEMMA SameListKeeps == ASSUME IndInv, SameList PROVE ListInv'
<1> USE DEF IndInv, SameList
<1>1. UniquePids' /\ UniquePairs' BY DEF UniquePids, UniquePairs
<1>2. NumbersInUse' BY DEF NumbersInUse
<1>3. CurrentAreChildren' BY DEF CurrentAreChildren
<1>4. UnlistedWereLeft' BY DEF UnlistedWereLeft, IsLive
<1> QED BY <1>1, <1>2, <1>3, <1>4 DEF ListInv

\* Outside stop_all every entry is current.
LEMMA AllCurrent ==
  ASSUME pc # "draining" PROVE Current = DOMAIN backups
BY DEF Current

\* The number of a current entry is in use.
LEMMA CurrentInUse ==
  ASSUME IndInv, NEW i \in Current
  PROVE  /\ i \in DOMAIN backups /\ backups[i].pid \in Workers
         /\ stage[backups[i].pid] # "none"
         /\ pair[backups[i].pid] = <<backups[i].src, backups[i].dst>>
<1>1. i \in DOMAIN backups BY DEF Current
<1>2. backups[i].pid \in Workers BY <1>1, EntryType DEF IndInv
<1> QED BY <1>1, <1>2, PairNotNoPair DEF IndInv, CurrentAreChildren, NumbersInUse

\* SIGTERM makes a blocked worker test its flag, at most.
LEMMA TerminateWorkers ==
  ASSUME IndInv, NEW ws \in SUBSET Workers, NEW woken, Terminate(ws, woken)
  PROVE  /\ stage' \in [Workers -> Stages] /\ worker_stop' \in [Workers -> BOOLEAN]
         /\ deaf' \subseteq Workers
         /\ \A w \in Workers : stage'[w] = stage[w] \/ (stage[w] = "reading" /\ stage'[w] = "test")
<1>1. \A w \in Workers : stage'[w] = stage[w] \/ (stage[w] = "reading" /\ stage'[w] = "test")
  BY DEF Terminate
<1>2. stage' \in [Workers -> Stages] BY DEF Terminate, IndInv, TypeOK, Stages, Live
<1>3. worker_stop' \in [Workers -> BOOLEAN] /\ deaf' \subseteq Workers
  BY DEF Terminate, IndInv, TypeOK
<1> QED BY <1>1, <1>2, <1>3

-----------------------------------------------------------------------------
(* Initial states.                                                         *)

\* An empty list, no worker.
LEMMA InitInv == Init => IndInv
<1> SUFFICES ASSUME Init PROVE IndInv OBVIOUS
<1> USE ConstantsAssumption DEF Init
<1>1. TypeOK
  <2>1. signals \in 0 .. MaxSignals /\ drained \in 0 .. MAX_BACKUPS OBVIOUS
  <2>2. backups \in Seq(Entry) /\ Len(backups) <= MAX_BACKUPS /\ accepted \in Seq(Targets)
    OBVIOUS
  <2>3. cmd \in Commands BY NoCommandType
  <2> QED BY <2>1, <2>2, <2>3 DEF TypeOK, Commands, Ops
<1>2. ListInv
  BY DEF ListInv, UniquePids, UniquePairs, NumbersInUse, CurrentAreChildren, UnlistedWereLeft,
         Current, IsLive, Live
<1>3. AcceptedInv /\ AwaitedInv /\ LeavingInv BY DEF AcceptedInv, AwaitedInv, LeavingInv
<1> QED BY <1>1, <1>2, <1>3, IndInvParts

-----------------------------------------------------------------------------
(* Steps that leave the list alone.                                        *)

\* A worker moves, and may die.
LEMMA WorkerMoves ==
  ASSUME NEW w \in Workers, WorkerStep(w) \/ ReadEvents(w)
  PROVE  /\ \E to \in Live \cup {"zombie"} :
              stage[w] \in Live /\ stage' = [stage EXCEPT ![w] = to]
         /\ WorkerOnly /\ deaf' \subseteq deaf
BY DEF WorkerStep, ReadEvents, InitialCopy, WatchSource, TestStop, HandleEvents, WorkerAt, Live

LEMMA WorkerInv ==
  ASSUME IndInv, NEW w \in Workers, WorkerStep(w) \/ ReadEvents(w) PROVE IndInv'
<1>1. PICK to \in Live \cup {"zombie"} :
        stage[w] \in Live /\ stage' = [stage EXCEPT ![w] = to]
  BY WorkerMoves
<1>2. WorkerOnly /\ deaf' \subseteq deaf BY WorkerMoves
<1> USE <1>1, <1>2 DEF WorkerOnly, parent
<1>3. TypeOK' BY DEF IndInv, TypeOK
<1>4. SameList BY DEF IndInv, TypeOK, SameList, Live, Current
<1>5. AcceptedInv' /\ AwaitedInv' /\ LeavingInv'
  BY DEF IndInv, AcceptedInv, AwaitedInv, LeavingInv, FindBackup
<1> QED BY <1>3, <1>4, <1>5, SameListKeeps DEF IndInv, ListInv

\* A line is typed, a source comes or goes, a signal arrives.
LEMMA UserInv == ASSUME IndInv, User PROVE IndInv'
<1>1. CASE TypeNothing \/ TypeEnd
  <2>1. /\ pc = "prompt" /\ pc' \in {"prompt", "stopping"}
        /\ cmd' \in Commands /\ accepted' = <<>>
        /\ UNCHANGED <<backups, stop_flag, awaited, drained, intr, worker, srcDir, signals,
                       deaf, left>>
    BY <1>1, NoCommandType
    DEF TypeNothing, TypeEnd, Again, IndInv, TypeOK, AcceptedInv, Commands, Ops
  <2>2. TypeOK' BY <2>1 DEF IndInv, TypeOK, worker, Commands, Ops
  <2>3. SameList BY <2>1 DEF worker, SameList, Current
  <2>4. AcceptedInv' BY <2>1 DEF IndInv, AcceptedInv
  <2>5. AwaitedInv' /\ LeavingInv' BY <2>1 DEF IndInv, AwaitedInv, LeavingInv
  <2> QED BY <2>2, <2>3, <2>4, <2>5, SameListKeeps DEF IndInv, ListInv
<1>2. ASSUME NEW op \in {"list", "add", "end", "restore", "exit"}, NEW s \in Sources,
             NEW todo \in Todos, TypeCommand(op, s, todo)
      PROVE  IndInv'
  <2>1. todo \in Seq(Targets) /\ todo # <<>> BY TodoType
  <2>2. TypeOK' BY <1>2, <2>1 DEF IndInv, TypeOK, TypeCommand, worker
  <2>3. SameList BY <1>2 DEF TypeCommand, worker, SameList, Current
  <2>4. AcceptedInv' BY <1>2 DEF TypeCommand, IndInv, AcceptedInv
  <2>5. AwaitedInv' /\ LeavingInv' BY <1>2 DEF TypeCommand, IndInv, AwaitedInv, LeavingInv
  <2> QED BY <2>2, <2>3, <2>4, <2>5, SameListKeeps DEF IndInv, ListInv
<1>3. ASSUME NEW s \in Sources, RemoveSource(s) \/ MakeSource(s) PROVE IndInv'
  <2>1. UNCHANGED <<parent, stage, pair, left>> BY <1>3 DEF RemoveSource, MakeSource, worker
  <2>2. TypeOK' BY <1>3 DEF IndInv, TypeOK, RemoveSource, MakeSource, worker, parent
  <2>3. SameList BY <2>1 DEF SameList, parent, Current
  <2>4. AcceptedInv' /\ AwaitedInv' /\ LeavingInv'
    BY <2>1 DEF parent, IndInv, AcceptedInv, AwaitedInv, LeavingInv, FindBackup
  <2> QED BY <2>2, <2>3, <2>4, SameListKeeps DEF IndInv, ListInv
<1>4. CASE Signal
  <2>1. /\ stop_flag' = TRUE
        /\ \/ UNCHANGED <<pc, intr>>
           \/ pc = "prompt" /\ pc' = "stopping" /\ UNCHANGED intr
           \/ pc \in {"waiting", "draining"} /\ intr' = TRUE /\ UNCHANGED pc
        /\ UNCHANGED <<backups, cmd, accepted, awaited, drained, worker, srcDir, deaf, left>>
    BY <1>4 DEF Signal
  <2>2. signals' \in 0 .. MaxSignals
    <3>1. signals \in 0 .. MaxSignals /\ MaxSignals \in Nat
      BY ConstantsAssumption DEF IndInv, TypeOK
    <3>2. signals < MaxSignals /\ signals' = signals + 1 BY <1>4 DEF Signal
    <3> QED BY <3>1, <3>2
  <2>3. TypeOK' BY <2>1, <2>2 DEF IndInv, TypeOK, worker
  <2>4. SameList BY <2>1 DEF worker, SameList, Current
  <2>5. AcceptedInv' BY <2>1 DEF IndInv, AcceptedInv, FindBackup
  <2>6. AwaitedInv' /\ LeavingInv' BY <2>1 DEF IndInv, AwaitedInv, LeavingInv, FindBackup
  <2> QED BY <2>3, <2>4, <2>5, <2>6, SameListKeeps DEF IndInv, ListInv
<1> QED BY <1>1, <1>2, <1>3, <1>4 DEF User

\* The parent goes on without a worker.
GoesOn ==
  \/ ExitCommand \/ ListBackups \/ RefuseSource \/ Begin \/ AllChecked \/ AllAdded
  \/ NothingToStop \/ AllEnded \/ RestoreEntry \/ Return

\* Where it goes, and what it leaves alone.
LEMMA GoesOnEffect ==
  ASSUME IndInv, GoesOn
  PROVE  /\ UNCHANGED <<backups, stop_flag, awaited, drained, intr, worker, signals, deaf, left>>
         /\ cmd' \in Commands /\ srcDir' \in [Sources -> BOOLEAN]
         /\ (accepted' = <<>> \/ (UNCHANGED <<accepted, cmd>> /\ pc' = "adding"))
         /\ \/ pc = "reaping" /\ pc' \in {"stopping", "prompt", "checking", "ending"}
            \/ pc = "checking" /\ pc' = "adding"
            \/ pc \in {"adding", "restoring"}
               /\ pc' = IF stop_flag THEN "stopping" ELSE "prompt"
            \/ pc = "ending"
               /\ \/ pc' \in {"ending", IF stop_flag THEN "stopping" ELSE "prompt"}
                  \/ pc' = "restoring" /\ cmd' = cmd /\ cmd.todo # <<>>
            \/ pc = "last" /\ pc' = "done"
<1> DEFINE back == IF stop_flag THEN "stopping" ELSE "prompt"
<1>1. /\ cmd \in Commands /\ srcDir \in [Sources -> BOOLEAN]
      /\ pc \notin {"checking", "adding"} => accepted = <<>>
  BY DEF IndInv, TypeOK, Commands, Ops, AcceptedInv
<1>2. Again => cmd' \in Commands /\ accepted' = <<>> /\ pc' = back
  BY NoCommandType DEF Again
<1>3. cmd.todo # <<>> /\ NextTarget => cmd' \in Commands
  BY <1>1, NextTargetType DEF NextTarget
<1> HIDE DEF back
<1>4. CASE ExitCommand \/ ListBackups \/ RefuseSource \/ Begin
  <2>1. /\ pc = "reaping"
        /\ UNCHANGED <<backups, stop_flag, awaited, drained, intr, worker, srcDir, signals, deaf,
                       left>>
        /\ Again \/ (UNCHANGED <<cmd, accepted>> /\ pc' \in {"stopping", "checking", "ending"})
    BY <1>4 DEF ExitCommand, ListBackups, RefuseSource, Begin, Dispatched
  <2> QED BY <1>1, <1>2, <2>1 DEF back
<1>5. CASE AllChecked BY <1>1, <1>5 DEF AllChecked
<1>6. CASE AllAdded BY <1>1, <1>2, <1>6 DEF AllAdded, back
<1>7. CASE NothingToStop \/ AllEnded
  <2>1. /\ pc = "ending"
        /\ UNCHANGED <<backups, stop_flag, awaited, drained, intr, worker, srcDir, signals, deaf,
                       left>>
        /\ \/ Again
           \/ UNCHANGED <<pc, accepted>> /\ cmd.todo # <<>> /\ NextTarget
           \/ UNCHANGED <<cmd, accepted>> /\ cmd.todo # <<>> /\ pc' = "restoring"
    BY <1>7 DEF NothingToStop, AllEnded
  <2> QED BY <1>1, <1>2, <1>3, <2>1 DEF back
<1>8. CASE RestoreEntry
  <2>1. /\ pc = "restoring" /\ Again
        /\ UNCHANGED <<backups, stop_flag, awaited, drained, intr, worker, signals, deaf, left>>
        /\ srcDir' \in {srcDir, [srcDir EXCEPT ![cmd.src] = TRUE]}
    BY <1>8 DEF RestoreEntry
  <2>2. srcDir' \in [Sources -> BOOLEAN] BY <1>1, <2>1
  <2> QED BY <1>2, <2>1, <2>2 DEF back
<1>9. CASE Return BY <1>1, <1>9 DEF Return
<1> QED BY <1>4, <1>5, <1>6, <1>7, <1>8, <1>9 DEF GoesOn

LEMMA GoesOnInv == ASSUME IndInv, GoesOn PROVE IndInv'
<1> USE GoesOnEffect
<1>1. TypeOK'
  <2>1. accepted' \in Seq(Targets)
    <3>1. accepted \in Seq(Targets) BY DEF IndInv, TypeOK
    <3>2. accepted' = <<>> \/ accepted' = accepted OBVIOUS
    <3>3. <<>> \in Seq(Targets) BY EmptySeq
    <3> QED BY ONLY <3>1, <3>2, <3>3
  <2>2. UNCHANGED <<stage, worker_stop, pair, rootGone>> BY DEF worker
  <2>3. pc' \in {"prompt", "reaping", "dispatch", "checking", "adding", "ending", "waiting",
                "restoring", "stopping", "draining", "last", "done"}
    OBVIOUS
  <2>4. cmd' \in Commands /\ srcDir' \in [Sources -> BOOLEAN]
        /\ UNCHANGED <<backups, stop_flag, awaited, drained, intr, signals, deaf, left>>
    OBVIOUS
  <2> QED BY ONLY IndInv, <2>1, <2>2, <2>3, <2>4 DEF IndInv, TypeOK, Commands, Ops
<1>2. SameList BY DEF SameList, Current, worker
<1>3. AcceptedInv' BY DEF IndInv, AcceptedInv, FindBackup
<1>4. AwaitedInv' BY DEF IndInv, AwaitedInv
<1>5. LeavingInv' BY DEF IndInv, LeavingInv
<1> QED BY <1>1, <1>2, <1>3, <1>4, <1>5, SameListKeeps DEF IndInv, ListInv

\* add looks at one target more.
LEMMA CheckInv == ASSUME IndInv, CheckTarget PROVE IndInv'
<1>1. /\ pc = "checking" /\ cmd.todo # <<>>
      /\ UNCHANGED <<backups, stop_flag, awaited, drained, intr, worker, srcDir, signals,
                     deaf, left>>
  BY DEF CheckTarget
<1>2. SameList BY <1>1 DEF SameList, Current, worker, CheckTarget, Again
<1>3. CASE Again
  <2>1. cmd' \in Commands /\ accepted' = <<>> BY <1>3, NoCommandType DEF Again
  <2>2. TypeOK' BY <1>1, <1>3, <2>1 DEF Again, IndInv, TypeOK, Commands, Ops, worker
  <2>3. AcceptedInv' /\ AwaitedInv' /\ LeavingInv'
    BY <1>1, <1>3, <2>1 DEF Again, IndInv, AcceptedInv, AwaitedInv, LeavingInv
  <2> QED BY <1>2, <2>2, <2>3, SameListKeeps DEF IndInv, ListInv
<1>4. ASSUME ~Refused(Head(cmd.todo)), accepted' = Append(accepted, Head(cmd.todo)),
             NextTarget, UNCHANGED pc
      PROVE  IndInv'
  <2>1. PICK t \in Targets : t = Head(cmd.todo)
    BY <1>1, NextTargetType DEF IndInv, TypeOK, Commands, Ops
  <2>2. cmd' \in Commands /\ cmd'.src = cmd.src
    BY <1>1, <1>4, NextTargetType DEF NextTarget, IndInv, TypeOK, Commands, Ops
  <2>3. /\ accepted \in Seq(Targets) /\ accepted' \in Seq(Targets)
        /\ DOMAIN accepted' = DOMAIN accepted \cup {Len(accepted) + 1}
        /\ accepted'[Len(accepted) + 1] = t
        /\ \A j \in DOMAIN accepted : accepted'[j] = accepted[j] /\ accepted[j] # t
    BY <1>4, <2>1 DEF Refused, IndInv, TypeOK
  <2>4. FindBackup(cmd.src, t) = {} BY <1>4, <2>1 DEF Refused
  <2>5. TypeOK' BY <1>1, <1>4, <2>2, <2>3 DEF IndInv, TypeOK, Commands, Ops, worker
  <2>6. AcceptedInv'
    <3>1. \A u : FindBackup(cmd.src, u)' = FindBackup(cmd.src, u)
      BY <1>1, <2>2 DEF FindBackup
    <3>2. \A j \in DOMAIN accepted' : FindBackup(cmd.src, accepted'[j]) = {}
      BY <2>3, <2>4 DEF IndInv, AcceptedInv
    <3>3. \A j \in DOMAIN accepted' : FindBackup(cmd.src, accepted[j])' = {}
      BY <1>1, <2>2, <3>2 DEF FindBackup
    <3>4. \A j, k \in DOMAIN accepted' : accepted'[j] = accepted'[k] => j = k
      BY <2>3 DEF IndInv, AcceptedInv
    <3> QED BY <1>1, <1>4, <3>3, <3>4 DEF AcceptedInv
  <2>7. AwaitedInv' /\ LeavingInv' BY <1>1, <1>4 DEF IndInv, AwaitedInv, LeavingInv
  <2> QED BY <1>2, <2>5, <2>6, <2>7, SameListKeeps DEF IndInv, ListInv
<1> QED BY <1>3, <1>4 DEF CheckTarget

\* kill: nobody dies of it at once.
LEMMA StopInv == ASSUME IndInv, StopBackup PROVE IndInv'
<1>1. PICK i \in FindBackup(cmd.src, Head(cmd.todo)), woken \in SUBSET Workers :
        Terminate({backups[i].pid}, woken) /\ awaited' = backups[i].pid
  BY DEF StopBackup
<1>2. /\ pc = "ending" /\ pc' = "waiting" /\ cmd.todo # <<>>
      /\ UNCHANGED <<backups, stop_flag, cmd, accepted, drained, intr, pair, rootGone, srcDir,
                     signals, left>>
  BY DEF StopBackup
<1>3. backups[i].pid \in Workers BY EntryType DEF FindBackup, IndInv
<1>4. /\ stage' \in [Workers -> Stages] /\ worker_stop' \in [Workers -> BOOLEAN]
      /\ deaf' \subseteq Workers
      /\ \A w \in Workers : stage'[w] = stage[w] \/ (stage[w] = "reading" /\ stage'[w] = "test")
  BY <1>1, <1>3, TerminateWorkers
<1>5. TypeOK' BY <1>1, <1>2, <1>3, <1>4 DEF IndInv, TypeOK, Stages
<1>6. SameList BY <1>2, <1>4 DEF SameList, Current, Live
<1>7. AcceptedInv' /\ LeavingInv' BY <1>2 DEF IndInv, AcceptedInv, LeavingInv
<1>8. AwaitedInv' BY <1>1, <1>2 DEF AwaitedInv, FindBackup
<1> QED BY <1>5, <1>6, <1>7, <1>8, SameListKeeps DEF IndInv, ListInv

LEMMA KillAllInv == ASSUME IndInv, KillAll PROVE IndInv'
<1>1. PICK woken \in SUBSET Workers : Terminate(Listed, woken) BY DEF KillAll
<1>2. /\ pc = "stopping" /\ pc' = "draining" /\ drained' = 0
      /\ UNCHANGED <<backups, stop_flag, cmd, accepted, awaited, intr, pair, rootGone, srcDir,
                     signals, left>>
  BY DEF KillAll
<1>3. Listed \subseteq Workers BY EntryType DEF Listed, IndInv
<1>4. /\ stage' \in [Workers -> Stages] /\ worker_stop' \in [Workers -> BOOLEAN]
      /\ deaf' \subseteq Workers
      /\ \A w \in Workers : stage'[w] = stage[w] \/ (stage[w] = "reading" /\ stage'[w] = "test")
  BY <1>1, <1>3, TerminateWorkers
<1>5. drained' \in 0 .. MAX_BACKUPS BY <1>2, ConstantsAssumption
<1>6. TypeOK' BY <1>2, <1>4, <1>5 DEF IndInv, TypeOK, Stages
<1>7. Current' = DOMAIN backups /\ Current = DOMAIN backups
  <2>1. \A i \in DOMAIN backups : i > 0 BY EntryType DEF IndInv
  <2> QED BY <1>2, <2>1 DEF Current
<1>8. SameList BY <1>2, <1>4, <1>7 DEF SameList, Live
<1>9. AcceptedInv' /\ AwaitedInv' /\ LeavingInv'
  BY <1>2 DEF IndInv, AcceptedInv, AwaitedInv, LeavingInv
<1> QED BY <1>6, <1>8, <1>9, SameListKeeps DEF IndInv, ListInv

-----------------------------------------------------------------------------
(* Steps that change the list, or who is waited for.                       *)

\* The types of what says how the workers are.
WorkerTypes ==
  /\ stage \in [Workers -> Stages] /\ worker_stop \in [Workers -> BOOLEAN]
  /\ pair \in [Workers -> (Sources \X Targets) \cup {NoPair}]
  /\ rootGone \in [Workers -> BOOLEAN]
  /\ deaf \subseteq Workers /\ left \subseteq Workers

\* The supervisor is done with w, which was reaped or given up; the others go on.
DoneWith(w) ==
  /\ \A v \in Workers \ {w} :
       stage'[v] = stage[v] /\ pair'[v] = pair[v] /\ (v \in left' <=> v \in left)
  /\ stage'[w] = "none" <=> pair'[w] = NoPair
  /\ IsLive(w)' => w \in left'

LEMMA ReapEffect ==
  ASSUME IndInv, NEW w \in Workers, Reaped(w)
  PROVE  WorkerTypes' /\ DoneWith(w) /\ left' \subseteq left
<1>1. WorkerTypes' BY DEF Reaped, IndInv, TypeOK, WorkerTypes, Stages
<1>2. stage'[w] = "none" /\ pair'[w] = NoPair BY DEF Reaped, IndInv, TypeOK
<1>3. \A v \in Workers \ {w} :
        stage'[v] = stage[v] /\ pair'[v] = pair[v] /\ (v \in left' <=> v \in left)
  BY DEF Reaped, IndInv, TypeOK
<1> QED BY <1>1, <1>2, <1>3 DEF DoneWith, IsLive, Live, Reaped

LEMMA WaitEffect ==
  ASSUME IndInv, NEW w \in Workers, stage[w] # "none", WaitReturns(w)
  PROVE  /\ WorkerTypes' /\ DoneWith(w)
         /\ left' # {} => intr \/ left # {}
         /\ intr' = FALSE /\ UNCHANGED <<srcDir, signals>>
<1>1. intr' = FALSE /\ UNCHANGED <<srcDir, signals>> BY DEF WaitReturns
<1>2. CASE Reaped(w)
  BY <1>1, <1>2, ReapEffect
<1>3. CASE intr /\ left' = left \cup {w} /\ UNCHANGED <<worker, deaf>>
  BY <1>1, <1>3 DEF worker, IndInv, TypeOK, WorkerTypes, Stages, DoneWith, NumbersInUse
<1> QED BY <1>1, <1>2, <1>3 DEF WaitReturns

\* The entry of such a worker is removed.
LEMMA RemovalKeeps ==
  ASSUME IndInv, NEW w \in Workers, NEW i \in DOMAIN backups, backups[i].pid = w,
         backups' = Without(i), DoneWith(w), pc # "draining", pc' # "draining"
  PROVE  ListInv'
<1>1. EntryGone(i) BY WithoutEffect DEF IndInv
<1>2. Current = DOMAIN backups /\ Current' = DOMAIN backups' BY DEF Current
<1>3. \A j \in DOMAIN backups' :
        Old(i, j) \in DOMAIN backups \ {i} /\ backups'[j] = backups[Old(i, j)]
  BY <1>1 DEF EntryGone
<1>4. \A j, k \in DOMAIN backups' : Old(i, j) = Old(i, k) => j = k BY <1>1 DEF EntryGone
<1>5. \A k \in DOMAIN backups \ {i} : backups[k].pid \in Workers \ {w}
  BY EntryType DEF IndInv, UniquePids
<1>6. UniquePids' BY <1>3, <1>4 DEF IndInv, UniquePids
<1>7. UniquePairs' BY <1>3, <1>4 DEF IndInv, UniquePairs
<1>8. NumbersInUse' BY DEF DoneWith, IndInv, NumbersInUse
<1>9. CurrentAreChildren'
  <2> SUFFICES ASSUME NEW j \in DOMAIN backups'
               PROVE  pair'[backups'[j].pid] = <<backups'[j].src, backups'[j].dst>>
    BY <1>2 DEF CurrentAreChildren
  <2>1. PICK k \in DOMAIN backups \ {i} : backups'[j] = backups[k] BY <1>3
  <2>2. pair[backups[k].pid] = <<backups[k].src, backups[k].dst>>
    BY <1>2 DEF IndInv, CurrentAreChildren
  <2>3. pair'[backups[k].pid] = pair[backups[k].pid] BY <1>5 DEF DoneWith
  <2> QED BY <2>1, <2>2, <2>3
<1>10. UnlistedWereLeft'
  <2> SUFFICES ASSUME NEW v \in Workers, IsLive(v)', v \notin left'
               PROVE  \E j \in DOMAIN backups' : backups'[j].pid = v
    BY <1>2 DEF UnlistedWereLeft
  <2>1. v # w BY DEF DoneWith
  <2>2. IsLive(v) /\ v \notin left BY <2>1 DEF DoneWith, IsLive
  <2>3. PICK k \in DOMAIN backups : backups[k].pid = v
    BY <1>2, <2>2 DEF IndInv, UnlistedWereLeft
  <2>4. PICK j \in DOMAIN backups' : Old(i, j) = k BY <1>1, <2>1, <2>3 DEF EntryGone
  <2> QED BY <1>3, <2>3, <2>4
<1> QED BY <1>6, <1>7, <1>8, <1>9, <1>10 DEF ListInv

\* reap_children.
LEMMA ReapInv == ASSUME IndInv, NEW w \in Workers, ReapChild(w) PROVE IndInv'
<1>1. /\ pc \in {"reaping", "last"} /\ Reaped(w)
      /\ UNCHANGED <<stop_flag, pc, cmd, accepted, awaited, drained, intr, srcDir, signals>>
  BY DEF ReapChild
<1>2. WorkerTypes' /\ DoneWith(w) /\ left' \subseteq left BY <1>1, ReapEffect
<1>3. backups' \in Seq(Entry) /\ Len(backups') <= MAX_BACKUPS /\ ListInv'
  <2>1. CASE \E i \in EntriesOf(w) : backups' = Without(i)
    <3>1. PICK i \in DOMAIN backups : backups[i].pid = w /\ backups' = Without(i)
      BY <2>1 DEF EntriesOf
    <3>2. EntryGone(i) BY <3>1, WithoutEffect DEF IndInv
    <3> QED BY <1>1, <1>2, <3>1, <3>2, RemovalKeeps DEF EntryGone
  <2>2. CASE EntriesOf(w) = {} /\ UNCHANGED backups
    <3>1. \A k \in DOMAIN backups : backups[k].pid \in Workers \ {w}
      BY <2>2, EntryType DEF IndInv, EntriesOf
    <3>2. Current = DOMAIN backups /\ Current' = DOMAIN backups BY <1>1, <2>2 DEF Current
    <3>3. UniquePids' /\ UniquePairs' BY <2>2 DEF IndInv, UniquePids, UniquePairs
    <3>4. NumbersInUse' BY <1>2 DEF DoneWith, IndInv, NumbersInUse
    <3>5. CurrentAreChildren'
      BY <1>2, <2>2, <3>1, <3>2 DEF DoneWith, IndInv, CurrentAreChildren
    <3>6. UnlistedWereLeft'
      BY <1>2, <2>2, <3>2 DEF DoneWith, IndInv, UnlistedWereLeft, IsLive
    <3> QED BY <2>2, <3>3, <3>4, <3>5, <3>6 DEF ListInv, IndInv, TypeOK
  <2> QED BY <2>1, <2>2 DEF ReapChild
<1>4. TypeOK' BY <1>1, <1>2, <1>3 DEF IndInv, TypeOK, WorkerTypes, Stages
<1>5. AcceptedInv' BY <1>1 DEF IndInv, AcceptedInv
<1>6. AwaitedInv' BY <1>1 DEF AwaitedInv
<1>7. LeavingInv'
  <2>1. CASE pc = "reaping" BY <1>1, <1>2, <2>1 DEF IndInv, LeavingInv
  <2>2. CASE pc = "last"
    <3>1. backups = <<>> /\ EntriesOf(w) = {} BY <2>2 DEF IndInv, LeavingInv, EntriesOf
    <3>2. backups' = <<>> BY <3>1 DEF ReapChild
    <3> QED BY <1>1, <1>2, <2>2, <3>2 DEF IndInv, LeavingInv
  <2> QED BY <1>1, <2>1, <2>2
<1> QED BY <1>3, <1>4, <1>5, <1>6, <1>7 DEF IndInv, ListInv

\* stop_backup returns.
LEMMA BackupStoppedInv == ASSUME IndInv, BackupStopped PROVE IndInv'
<1>1. /\ pc = "waiting" /\ WaitReturns(awaited) /\ awaited' = Nobody
      /\ UNCHANGED <<stop_flag, accepted, drained>>
      /\ \/ pc' = "ending" /\ NextTarget
         \/ pc' = "restoring" /\ UNCHANGED cmd
  BY DEF BackupStopped
<1>2. PICK i \in FindBackup(cmd.src, Head(cmd.todo)) : backups' = Without(i)
  BY DEF BackupStopped
<1>3. cmd.todo # <<>> BY <1>1 DEF IndInv, AwaitedInv
<1>4. i \in DOMAIN backups /\ backups[i].pid = awaited
  <2>1. PICK j \in FindBackup(cmd.src, Head(cmd.todo)) : backups[j].pid = awaited
    BY <1>1 DEF IndInv, AwaitedInv
  <2>2. i = j BY <2>1 DEF FindBackup, IndInv, UniquePairs
  <2> QED BY <2>1, <2>2 DEF FindBackup
<1>5. PICK w \in Workers : w = awaited /\ stage[w] # "none"
  BY <1>1, <1>4, AllCurrent, CurrentInUse
<1>6. /\ WorkerTypes' /\ DoneWith(w)
      /\ left' # {} => intr \/ left # {}
      /\ intr' = FALSE /\ UNCHANGED <<srcDir, signals>>
  BY <1>1, <1>5, WaitEffect
<1>7. EntryGone(i) BY <1>2, <1>4, WithoutEffect DEF IndInv
<1>8. ListInv' BY <1>1, <1>2, <1>4, <1>5, <1>6, RemovalKeeps
<1>9. cmd' \in Commands
  BY <1>1, <1>3, NextTargetType DEF NextTarget, IndInv, TypeOK, Commands, Ops
<1>10. TypeOK'
  BY <1>1, <1>6, <1>7, <1>9 DEF IndInv, TypeOK, WorkerTypes, Stages, EntryGone, Commands, Ops
<1>11. AcceptedInv' BY <1>1 DEF IndInv, AcceptedInv
<1>12. AwaitedInv' BY <1>1, <1>3 DEF AwaitedInv
<1>13. LeavingInv' BY <1>1, <1>6 DEF IndInv, LeavingInv
<1> QED BY <1>8, <1>10, <1>11, <1>12, <1>13 DEF IndInv, ListInv

\* stop_all waits for one worker more.
LEMMA WaitForNextInv == ASSUME IndInv, WaitForNext PROVE IndInv'
<1>1. /\ pc = "draining" /\ drained < Len(backups) /\ drained' = drained + 1
      /\ UNCHANGED <<backups, stop_flag, pc, cmd, accepted, awaited>>
  BY DEF WaitForNext
<1>2. drained \in Nat /\ Len(backups) \in Nat /\ MAX_BACKUPS \in Nat
      /\ Len(backups) <= MAX_BACKUPS /\ DOMAIN backups = 1 .. Len(backups)
  BY ConstantsAssumption DEF IndInv, TypeOK
<1>3. PICK i \in Current : i = drained + 1 /\ Current' = Current \ {i}
  BY <1>1, <1>2 DEF Current
<1>4. PICK w \in Workers :
        i \in DOMAIN backups /\ backups[i].pid = w /\ stage[w] # "none" /\ WaitReturns(w)
  BY <1>3, CurrentInUse DEF WaitForNext
<1>5. /\ WorkerTypes' /\ DoneWith(w)
      /\ left' # {} => intr \/ left # {}
      /\ intr' = FALSE /\ UNCHANGED <<srcDir, signals>>
  BY <1>1, <1>4, WaitEffect
<1>6. \A k \in Current \ {i} : k \in DOMAIN backups /\ backups[k].pid \in Workers \ {w}
  BY <1>4, CurrentInUse DEF IndInv, UniquePids
<1>7. drained' \in 0 .. MAX_BACKUPS BY <1>1, <1>2
<1>8. TypeOK' BY <1>1, <1>5, <1>7 DEF IndInv, TypeOK, WorkerTypes, Stages
<1>9. UniquePids' /\ UniquePairs' BY <1>1 DEF IndInv, UniquePids, UniquePairs
<1>10. NumbersInUse' BY <1>5 DEF DoneWith, IndInv, NumbersInUse
<1>11. CurrentAreChildren'
  BY <1>1, <1>3, <1>5, <1>6 DEF DoneWith, IndInv, CurrentAreChildren
<1>12. UnlistedWereLeft'
  <2> SUFFICES ASSUME NEW v \in Workers, IsLive(v)', v \notin left'
               PROVE  \E k \in Current' : backups'[k].pid = v
    BY DEF UnlistedWereLeft
  <2>1. v # w BY <1>5 DEF DoneWith
  <2>2. IsLive(v) /\ v \notin left BY <1>5, <2>1 DEF DoneWith, IsLive
  <2>3. PICK k \in Current : backups[k].pid = v BY <2>2 DEF IndInv, UnlistedWereLeft
  <2>4. k # i BY <1>4, <2>1, <2>3
  <2> QED BY <1>1, <1>3, <2>3, <2>4
<1>13. AcceptedInv' BY <1>1 DEF IndInv, AcceptedInv
<1>14. AwaitedInv' BY <1>1 DEF AwaitedInv
<1>15. LeavingInv' BY <1>1, <1>5 DEF IndInv, LeavingInv
<1> QED BY <1>8, <1>9, <1>10, <1>11, <1>12, <1>13, <1>14, <1>15 DEF IndInv

\* stop_all drops the list: all its entries have been waited for.
LEMMA AllWaitedForInv == ASSUME IndInv, AllWaitedFor PROVE IndInv'
<1>1. /\ pc = "draining" /\ drained = Len(backups) /\ backups' = <<>> /\ drained' = 0
      /\ pc' = "last"
      /\ UNCHANGED <<stop_flag, cmd, accepted, awaited, intr, worker, srcDir, signals, deaf, left>>
  BY DEF AllWaitedFor
<1>2. Current = {} /\ Current' = {} /\ DOMAIN backups' = {}
  <2>1. \A i \in DOMAIN backups : i \in Nat /\ i <= Len(backups) BY EntryType DEF IndInv
  <2>2. Len(backups) \in Nat BY DEF IndInv, TypeOK
  <2> QED BY <1>1, <2>1, <2>2 DEF Current
<1>3. TypeOK'
  <2>1. backups' \in Seq(Entry) /\ Len(backups') <= MAX_BACKUPS /\ drained' \in 0 .. MAX_BACKUPS
    BY <1>1, ConstantsAssumption
  <2> QED BY <1>1, <2>1 DEF IndInv, TypeOK, worker
<1>4. ListInv'
  BY <1>1, <1>2 DEF IndInv, ListInv, UniquePids, UniquePairs, NumbersInUse, CurrentAreChildren,
     UnlistedWereLeft, IsLive, worker
<1>5. AcceptedInv' /\ AwaitedInv' /\ LeavingInv'
  BY <1>1 DEF IndInv, AcceptedInv, AwaitedInv, LeavingInv
<1> QED BY <1>3, <1>4, <1>5 DEF IndInv, ListInv

\* add_backup: the number was free, the pair is not listed, and nobody was given up.
LEMMA AddInv == ASSUME IndInv, AddBackup PROVE IndInv'
<1>1. /\ pc = "adding" /\ accepted # <<>> /\ accepted' = Tail(accepted)
      /\ UNCHANGED <<stop_flag, pc, cmd, awaited, drained, intr, worker_stop, rootGone, srcDir,
                     signals, deaf, left>>
  BY DEF AddBackup
<1>2. PICK s \in Sources, t \in Targets : s = cmd.src /\ t = Head(accepted)
  BY <1>1 DEF IndInv, TypeOK
<1>3. /\ accepted' \in Seq(Targets) /\ Len(accepted) \in Nat /\ 1 \in DOMAIN accepted
      /\ t = accepted[1]
      /\ \A j \in DOMAIN accepted' :
           j # 0 /\ j + 1 \in DOMAIN accepted /\ accepted'[j] = accepted[j + 1] /\ j \in Nat
  BY <1>1, <1>2 DEF IndInv, TypeOK
<1>4. FindBackup(s, t) = {} BY <1>2, <1>3 DEF IndInv, AcceptedInv
<1>5. \A j \in DOMAIN accepted' : accepted'[j] # t /\ FindBackup(s, accepted'[j]) = {}
  BY <1>2, <1>3 DEF IndInv, AcceptedInv
<1>6. \A j, k \in DOMAIN accepted' : accepted'[j] = accepted'[k] => j = k
  BY <1>3 DEF IndInv, AcceptedInv
<1>7. left = {} /\ left' = {} /\ ~intr /\ ~intr' BY <1>1 DEF IndInv, LeavingInv
<1>8. AwaitedInv' /\ LeavingInv' BY <1>1, <1>7 DEF AwaitedInv, LeavingInv
<1>9. CASE UNCHANGED <<stage, pair, backups>>
  <2>1. TypeOK' BY <1>1, <1>3, <1>9 DEF IndInv, TypeOK
  <2>2. SameList BY <1>1, <1>9 DEF SameList, Current
  <2>3. \A j \in DOMAIN accepted', i \in DOMAIN backups' :
          ~(backups'[i].src = cmd'.src /\ backups'[i].dst = accepted'[j])
    BY <1>1, <1>2, <1>5, <1>9 DEF FindBackup
  <2>4. AcceptedInv' BY <1>1, <1>6, <2>3 DEF AcceptedInv, FindBackup
  <2> QED BY <1>8, <2>1, <2>2, <2>4, SameListKeeps DEF IndInv, ListInv
<1>10. ASSUME NEW w \in Workers, Len(backups) < MAX_BACKUPS, stage[w] = "none",
              stage' = [stage EXCEPT ![w] = "copying"], pair' = [pair EXCEPT ![w] = <<s, t>>],
              backups' = Append(backups, [src |-> s, dst |-> t, pid |-> w])
       PROVE  IndInv'
  <2> DEFINE entry == [src |-> s, dst |-> t, pid |-> w]
             n == Len(backups)
  <2>1. entry \in Entry /\ entry.src = s /\ entry.dst = t /\ entry.pid = w BY DEF Entry
  <2> HIDE DEF entry
  <2>2. n \in Nat /\ backups \in Seq(Entry) /\ MAX_BACKUPS \in Nat /\ n < MAX_BACKUPS
        /\ backups' = Append(backups, entry)
    BY <1>10, ConstantsAssumption DEF IndInv, TypeOK, entry
  <2>3. /\ backups' \in Seq(Entry) /\ Len(backups') = n + 1
        /\ DOMAIN backups' = DOMAIN backups \cup {n + 1} /\ n + 1 \notin DOMAIN backups
        /\ backups'[n + 1] = entry
        /\ \A j \in DOMAIN backups : backups'[j] = backups[j]
    BY <2>1, <2>2
  <2>4. Current = DOMAIN backups /\ Current' = DOMAIN backups' BY <1>1 DEF Current
  <2>5. \A j \in DOMAIN backups :
          backups[j].pid \in Workers \ {w} /\ ~(backups[j].src = s /\ backups[j].dst = t)
    BY <1>4, <1>10, <2>4, CurrentInUse DEF FindBackup
  <2>6. /\ stage' \in [Workers -> Live \cup {"none", "zombie"}] /\ stage'[w] = "copying"
        /\ pair' \in [Workers -> (Sources \X Targets) \cup {NoPair}] /\ pair'[w] = <<s, t>>
        /\ \A v \in Workers \ {w} : stage'[v] = stage[v] /\ pair'[v] = pair[v]
    BY <1>10 DEF IndInv, TypeOK, Live
  <2>7. TypeOK' BY <1>1, <1>3, <2>2, <2>3, <2>6 DEF IndInv, TypeOK
  <2>8. UniquePids' BY <2>1, <2>3, <2>5 DEF IndInv, UniquePids
  <2>9. UniquePairs' BY <2>1, <2>3, <2>5 DEF IndInv, UniquePairs
  <2>10. NumbersInUse' BY <2>6, PairNotNoPair DEF IndInv, NumbersInUse
  <2>11. CurrentAreChildren'
    <3> SUFFICES ASSUME NEW i \in DOMAIN backups'
                 PROVE  pair'[backups'[i].pid] = <<backups'[i].src, backups'[i].dst>>
      BY <2>4 DEF CurrentAreChildren
    <3>1. CASE i = n + 1 BY <2>1, <2>3, <2>6, <3>1
    <3>2. CASE i \in DOMAIN backups
      BY <2>3, <2>4, <2>5, <2>6, <3>2 DEF IndInv, CurrentAreChildren
    <3> QED BY <2>3, <3>1, <3>2
  <2>12. UnlistedWereLeft'
    <3> SUFFICES ASSUME NEW v \in Workers, IsLive(v)'
                 PROVE  \E i \in DOMAIN backups' : backups'[i].pid = v
      BY <2>4 DEF UnlistedWereLeft
    <3>1. CASE v = w BY <2>1, <2>3, <3>1
    <3>2. CASE v # w
      <4>1. IsLive(v) BY <2>6, <3>2 DEF IsLive
      <4>2. PICK i \in DOMAIN backups : backups[i].pid = v
        BY <1>7, <2>4, <4>1 DEF IndInv, UnlistedWereLeft
      <4> QED BY <2>3, <4>2
    <3> QED BY <3>1, <3>2
  <2>13. AcceptedInv'
    <3>1. \A j \in DOMAIN accepted', i \in DOMAIN backups :
            ~(backups[i].src = s /\ backups[i].dst = accepted'[j])
      BY <1>5 DEF FindBackup
    <3>2. \A j \in DOMAIN accepted', i \in DOMAIN backups' :
            ~(backups'[i].src = cmd'.src /\ backups'[i].dst = accepted'[j])
      BY <1>1, <1>2, <1>5, <2>1, <2>3, <3>1
    <3> QED BY <1>1, <1>6, <3>2 DEF AcceptedInv, FindBackup
  <2> QED BY <1>8, <2>7, <2>8, <2>9, <2>10, <2>11, <2>12, <2>13 DEF IndInv
<1> QED BY <1>2, <1>9, <1>10 DEF AddBackup

-----------------------------------------------------------------------------
(* The invariant, and what follows from it.                                *)

\* Every step keeps the invariant.
LEMMA NextInv == IndInv /\ [Next]_vars => IndInv'
<1> SUFFICES ASSUME IndInv, [Next]_vars PROVE IndInv' OBVIOUS
<1>1. ASSUME NEW w \in Workers, ReapChild(w) PROVE IndInv' BY <1>1, ReapInv
<1>2. CASE GoesOn BY <1>2, GoesOnInv
<1>3. CASE CheckTarget BY <1>3, CheckInv
<1>4. CASE AddBackup BY <1>4, AddInv
<1>5. CASE StopBackup BY <1>5, StopInv
<1>6. CASE BackupStopped BY <1>6, BackupStoppedInv
<1>7. CASE KillAll BY <1>7, KillAllInv
<1>8. CASE WaitForNext BY <1>8, WaitForNextInv
<1>9. CASE AllWaitedFor BY <1>9, AllWaitedForInv
<1>10. CASE User BY <1>10, UserInv
<1>11. ASSUME NEW w \in Workers, WorkerStep(w) \/ ReadEvents(w) PROVE IndInv'
  BY <1>11, WorkerInv
<1>12. CASE UNCHANGED vars
  <2>1. TypeOK' BY <1>12 DEF vars, parent, worker, IndInv, TypeOK
  <2>2. SameList BY <1>12 DEF vars, parent, worker, SameList, Current
  <2>3. AcceptedInv' /\ AwaitedInv' /\ LeavingInv'
    BY <1>12 DEF vars, parent, worker, IndInv, AcceptedInv, AwaitedInv, LeavingInv, FindBackup
  <2> QED BY <2>1, <2>2, <2>3, SameListKeeps DEF IndInv, ListInv
<1> QED BY <1>1, <1>2, <1>3, <1>4, <1>5, <1>6, <1>7, <1>8, <1>9, <1>10, <1>11, <1>12
        DEF Next, ParentStep, GoesOn

\* The inductive invariant holds in every reachable state (the loop of main, reap_children,
\* add_backup, stop_backup, stop_all and the workers).
THEOREM Invariance == Spec => []IndInv
BY InitInv, NextInv, PTL DEF Spec

\* Every variable keeps its type: the list never outgrows MAX_BACKUPS.
THEOREM TypeCorrectness == Spec => []TypeOK
<1>1. IndInv => TypeOK BY DEF IndInv
<1> QED BY <1>1, Invariance, PTL

\* No entry names a number that belongs to someone else, and no worker is forgotten but by
\* a waitpid that a signal cut short (start_backup, stop_backup, reap_children).
THEOREM ListStaysExact == Spec => []ListIsExact
<1>1. IndInv => ListIsExact
  <2> SUFFICES ASSUME IndInv PROVE ListIsExact OBVIOUS
  <2>1. \A i, j \in DOMAIN backups : backups[i].pid = backups[j].pid => i = j
    BY DEF IndInv, UniquePids
  <2>2. \A i \in DOMAIN backups :
          (pc = "draining" => i > drained) => stage[backups[i].pid] # "none"
    <3>1. \A i \in DOMAIN backups : (pc = "draining" => i > drained) => i \in Current
      BY DEF Current
    <3> QED BY <3>1, CurrentInUse
  <2>3. \A w \in Workers : IsLive(w) => w \in Listed \cup left
    BY DEF IndInv, UnlistedWereLeft, Current, Listed
  <2> QED BY <2>1, <2>2, <2>3 DEF ListIsExact
<1> QED BY <1>1, Invariance, PTL

-----------------------------------------------------------------------------
(* The supervisor implements BackupService.                                *)

\* The variables of the service.
ServiceVars == <<Serves, Writing, intr, Overdue, {}, Open>>

ServiceStep == Service!Next \/ UNCHANGED ServiceVars

\* What a worker serves.
LEMMA ServesValue ==
  ASSUME NEW w \in Workers
  PROVE  /\ IsLive(w) => Serves[w] = {pair[w]}
         /\ ~IsLive(w) => Serves[w] = {}
         /\ Serves[w] # {} <=> IsLive(w)
BY DEF Serves

\* A step that changes no life changes nothing of who serves what or was given up.
SameLife ==
  \A w \in Workers :
    /\ IsLive(w)' <=> IsLive(w)
    /\ IsLive(w) => pair'[w] = pair[w] /\ (w \in left' <=> w \in left)

LEMMA SameLifeServes ==
  ASSUME IndInv, left' \subseteq Workers, SameLife PROVE Serves' = Serves /\ Overdue' = Overdue
<1>1. left \subseteq Workers BY DEF IndInv, TypeOK
<1>2. Serves' = Serves BY DEF SameLife, Serves
<1>3. Overdue' = Overdue BY <1>1 DEF SameLife, Overdue
<1> QED BY <1>2, <1>3

\* A worker dies.
LEMMA DeathStep ==
  ASSUME IndInv, NEW w \in Workers, stage[w] \in Live, stage' = [stage EXCEPT ![w] = "zombie"],
         UNCHANGED <<pair, left, intr, Writing, Open>>
  PROVE  Service!End(w)
<1>1. \A v \in Workers : IsLive(v)' <=> IsLive(v) /\ v # w
  BY DEF IndInv, TypeOK, IsLive, Live
<1>2. left \subseteq Workers BY DEF IndInv, TypeOK
<1>3. Serves' = [Serves EXCEPT ![w] = {}] BY <1>1 DEF Serves
<1>4. Overdue' = Overdue \ {w} BY <1>1, <1>2 DEF Overdue
<1>5. Serves[w] # {} BY ServesValue DEF IsLive
<1> QED BY <1>3, <1>4, <1>5 DEF Service!End

\* The steps of a worker.
LEMMA WorkerServes ==
  ASSUME IndInv, NEW w \in Workers, WorkerStep(w) \/ ReadEvents(w) PROVE ServiceStep
<1>1. PICK to \in Live \cup {"zombie"} :
        stage[w] \in Live /\ stage' = [stage EXCEPT ![w] = to]
  BY WorkerMoves
<1>2. UNCHANGED <<pair, left, intr, pc, cmd>> BY WorkerMoves DEF WorkerOnly, parent
<1>3. UNCHANGED <<Writing, Open>> BY <1>2 DEF Writing, Open
<1>4. CASE to = "zombie"
  <2>1. Service!End(w) BY <1>1, <1>2, <1>3, <1>4, DeathStep
  <2> QED BY <2>1 DEF ServiceStep, Service!Next
<1>5. CASE to \in Live
  <2>1. SameLife /\ left' \subseteq Workers
    BY <1>1, <1>2, <1>5 DEF IndInv, TypeOK, SameLife, IsLive
  <2> QED BY <1>2, <1>3, <2>1, SameLifeServes DEF ServiceStep, ServiceVars
<1> QED BY <1>1, <1>4, <1>5

\* What comes from outside: a signal may interrupt a wait.
LEMMA UserServes == ASSUME IndInv, User PROVE ServiceStep
<1>1. UNCHANGED <<stage, pair, left>>
  BY DEF User, TypeNothing, TypeEnd, TypeCommand, RemoveSource, MakeSource, Signal, parent, worker
<1>2. UNCHANGED <<Serves, Overdue>> BY <1>1 DEF Serves, Overdue, IsLive
<1>3. CASE Signal
  <2>1. /\ pc # "done" /\ cmd' = cmd /\ intr' \in {intr, TRUE}
        /\ pc' = pc \/ (pc = "prompt" /\ pc' = "stopping")
    BY <1>3 DEF Signal, IndInv, TypeOK
  <2>2. UNCHANGED <<Writing, Open>> /\ Open BY <2>1 DEF Writing, Open
  <2>3. CASE intr' = intr BY <1>2, <2>2, <2>3 DEF ServiceStep, ServiceVars
  <2>4. CASE intr' = TRUE BY <1>2, <2>2, <2>4 DEF ServiceStep, Service!Next, Service!Signal
  <2> QED BY <2>1, <2>3, <2>4
<1>4. CASE ~Signal
  <2>1. /\ UNCHANGED intr
        /\ UNCHANGED <<pc, cmd>> \/ (pc = "prompt" /\ pc' \in {"prompt", "stopping", "reaping"})
    BY <1>4 DEF User, TypeNothing, TypeEnd, TypeCommand, RemoveSource, MakeSource, parent, Again
  <2>2. UNCHANGED <<Writing, Open>> BY <2>1 DEF Writing, Open
  <2> QED BY <1>2, <2>1, <2>2 DEF ServiceStep, ServiceVars
<1> QED BY <1>3, <1>4

\* Nobody but the worker awaited, or one that was given up, serves the pair of a restore.
LEMMA PairFree ==
  ASSUME IndInv, NEW s, NEW t, NEW v \in Workers, pc # "draining",
         IsLive(v), pair[v] = <<s, t>>, v \notin left
  PROVE  \E i \in FindBackup(s, t) : backups[i].pid = v
<1>1. PICK i \in Current : backups[i].pid = v BY DEF IndInv, UnlistedWereLeft
<1>2. <<backups[i].src, backups[i].dst>> = <<s, t>> BY <1>1 DEF IndInv, CurrentAreChildren
<1>3. backups[i].src = s /\ backups[i].dst = t BY <1>2
<1> QED BY <1>1, <1>3 DEF FindBackup, Current

\* The parent goes on without a worker; a restore may begin or end, and the program end.
LEMMA GoesOnServes == ASSUME IndInv, GoesOn PROVE ServiceStep
<1>1. UNCHANGED <<stage, pair, left, intr, backups, worker>> BY GoesOnEffect DEF worker
<1>2. UNCHANGED <<Serves, Overdue>> BY <1>1 DEF Serves, Overdue, IsLive
<1>3. CASE pc' = "restoring"
  <2>1. pc = "ending" /\ cmd' = cmd /\ cmd.todo # <<>> BY <1>3, GoesOnEffect
  <2>2. PICK s \in Sources, t \in Targets : s = cmd.src /\ t = Head(cmd.todo)
    BY <2>1, NextTargetType DEF IndInv, TypeOK, Commands, Ops
  <2>3. FindBackup(s, t) = {}
    BY <1>3, <2>1, <2>2, GoesOnEffect
    DEF GoesOn, ExitCommand, ListBackups, RefuseSource, Begin, Dispatched, AllChecked, AllAdded,
        NothingToStop, AllEnded, RestoreEntry, Return, Again
  <2>4. Writing = {} /\ Writing' = {<<s, t>>} /\ Open /\ Open'
    BY <1>3, <2>1, <2>2 DEF Writing, Open
  <2>5. Service!WorkersOf(<<s, t>>) \subseteq Overdue
    <3> SUFFICES ASSUME NEW v \in Workers, <<s, t>> \in Serves[v] PROVE v \in Overdue
      BY DEF Service!WorkersOf
    <3>1. IsLive(v) /\ pair[v] = <<s, t>> BY DEF Serves
    <3> QED BY <2>1, <2>3, <3>1, PairFree DEF Overdue
  <2>6. Service!StartRestore(<<s, t>>) BY <1>1, <1>2, <2>4, <2>5 DEF Service!StartRestore
  <2> QED BY <2>6 DEF ServiceStep, Service!Next
<1>4. CASE pc = "restoring"
  <2>1. Writing' = {} /\ Open' = Open
    BY <1>4, GoesOnEffect DEF Writing, Open
  <2> QED BY <1>1, <1>2, <2>1 DEF ServiceStep, Service!Next, Service!FinishRestore
<1>5. CASE pc = "last"
  <2>1. Current = {} BY <1>5 DEF IndInv, LeavingInv, Current
  <2>2. \A w \in Workers : Serves[w] # {} => w \in Overdue
    BY <2>1, ServesValue DEF IndInv, UnlistedWereLeft, Overdue
  <2>3. Writing = {} /\ Writing' = {} /\ Open' = FALSE
    BY <1>5, GoesOnEffect DEF Writing, Open
  <2>4. Service!Close BY <1>1, <1>2, <2>2, <2>3 DEF Service!Close
  <2> QED BY <2>4 DEF ServiceStep, Service!Next
<1>6. CASE pc \notin {"restoring", "last"} /\ pc' # "restoring"
  <2>1. UNCHANGED <<Writing, Open>> BY <1>6, GoesOnEffect DEF Writing, Open
  <2> QED BY <1>1, <1>2, <2>1 DEF ServiceStep, ServiceVars
<1> QED BY <1>3, <1>4, <1>5, <1>6

\* A target is accepted, a worker is signalled, the list is dropped: nothing a user could see.
LEMMA QuietServes ==
  ASSUME IndInv, CheckTarget \/ StopBackup \/ KillAll \/ AllWaitedFor PROVE ServiceStep
<1>1. /\ UNCHANGED <<pair, left, intr>>
      /\ pc \notin {"restoring", "done"} /\ pc' \notin {"restoring", "done"}
  BY DEF CheckTarget, StopBackup, KillAll, AllWaitedFor, worker, Again
<1>2. \A w \in Workers : IsLive(w)' <=> IsLive(w)
  <2>1. CASE CheckTarget \/ AllWaitedFor BY <2>1 DEF CheckTarget, AllWaitedFor, worker, IsLive
  <2>2. CASE StopBackup \/ KillAll
    <3>1. PICK ws, woken : Terminate(ws, woken) BY <2>2 DEF StopBackup, KillAll
    <3> QED BY <3>1 DEF Terminate, IsLive, Live
  <2> QED BY <2>1, <2>2
<1>3. UNCHANGED <<Serves, Overdue>>
  <2>1. SameLife /\ left' \subseteq Workers BY <1>1, <1>2 DEF SameLife, IndInv, TypeOK
  <2> QED BY <2>1, SameLifeServes
<1>4. UNCHANGED <<Writing, Open>> BY <1>1 DEF Writing, Open
<1> QED BY <1>1, <1>3, <1>4 DEF ServiceStep, ServiceVars

\* A dead child is reaped: it served nobody any more.
LEMMA ReapServes == ASSUME IndInv, NEW w \in Workers, ReapChild(w) PROVE ServiceStep
<1>1. /\ Reaped(w) /\ UNCHANGED <<pc, cmd, intr>> BY DEF ReapChild
<1>2. WorkerTypes' /\ DoneWith(w) BY <1>1, ReapEffect
<1>3. SameLife /\ left' \subseteq Workers
  BY <1>1, <1>2 DEF SameLife, DoneWith, IsLive, Reaped, Live, IndInv, TypeOK, WorkerTypes
<1>4. UNCHANGED <<Writing, Open>> BY <1>1 DEF Writing, Open
<1> QED BY <1>1, <1>3, <1>4, SameLifeServes DEF ServiceStep, ServiceVars

\* fork: the pair is not listed, so that no worker has it.
LEMMA AddServes == ASSUME IndInv, AddBackup PROVE ServiceStep
<1>1. /\ pc = "adding" /\ accepted # <<>> /\ UNCHANGED <<pc, cmd, intr, left>> BY DEF AddBackup
<1>2. PICK s \in Sources, t \in Targets : s = cmd.src /\ t = Head(accepted)
  BY <1>1 DEF IndInv, TypeOK
<1>3. Writing = {} /\ Writing' = {} /\ Open /\ Open' BY <1>1 DEF Writing, Open
<1>4. CASE UNCHANGED <<stage, pair, backups>>
  BY <1>1, <1>3, <1>4 DEF ServiceStep, ServiceVars, Serves, Overdue, IsLive
<1>5. ASSUME NEW w \in Workers, stage[w] = "none", stage' = [stage EXCEPT ![w] = "copying"],
             pair' = [pair EXCEPT ![w] = <<s, t>>]
      PROVE  ServiceStep
  <2>1. /\ ~IsLive(w) /\ IsLive(w)' /\ pair'[w] = <<s, t>>
        /\ \A v \in Workers \ {w} : (IsLive(v)' <=> IsLive(v)) /\ pair'[v] = pair[v]
    BY <1>5 DEF IndInv, TypeOK, IsLive, Live
  <2>2. Serves[w] = {} /\ Serves' = [Serves EXCEPT ![w] = {<<s, t>>}] BY <2>1 DEF Serves
  <2>3. left = {} BY <1>1 DEF IndInv, LeavingInv
  <2>4. FindBackup(s, t) = {}
    <3>1. accepted \in Seq(Targets) BY DEF IndInv, TypeOK
    <3>2. 1 \in DOMAIN accepted /\ t = accepted[1] BY <1>1, <1>2, <3>1
    <3> QED BY <1>2, <3>2 DEF IndInv, AcceptedInv
  <2>5. Service!WorkersOf(<<s, t>>) = {}
    <3> SUFFICES ASSUME NEW v \in Workers, <<s, t>> \in Serves[v] PROVE FALSE
      BY DEF Service!WorkersOf
    <3>1. IsLive(v) /\ pair[v] = <<s, t>> BY DEF Serves
    <3> QED BY <1>1, <2>3, <2>4, <3>1, PairFree
  <2>6. Overdue = {} /\ Overdue' = {} BY <1>1, <2>3 DEF Overdue
  <2>7. Service!Begin(w, <<s, t>>) BY <1>1, <1>3, <2>2, <2>5, <2>6 DEF Service!Begin
  <2> QED BY <2>7 DEF ServiceStep, Service!Next
<1> QED BY <1>2, <1>4, <1>5 DEF AddBackup

\* A waitpid returns: nobody's life changes, and the worker awaited may be given up.
LEMMA WaitServes ==
  ASSUME IndInv, NEW w \in Workers, WaitReturns(w)
  PROVE  /\ Serves' = Serves /\ Service!WaitReturns
         /\ \A v \in Workers : IsLive(v) /\ (v = w \/ v \in left) => v \in Overdue'
<1>1. intr' = FALSE /\ left \subseteq Workers BY DEF WaitReturns, IndInv, TypeOK
<1>2. CASE Reaped(w)
  <2>1. WorkerTypes' /\ DoneWith(w) BY <1>2, ReapEffect
  <2>2. ~IsLive(w) /\ SameLife /\ left' \subseteq Workers
    BY <1>2, <2>1 DEF SameLife, DoneWith, IsLive, Reaped, Live, IndInv, TypeOK, WorkerTypes
  <2>3. Serves' = Serves /\ Overdue' = Overdue BY <2>2, SameLifeServes
  <2> QED BY <1>1, <2>2, <2>3 DEF Service!WaitReturns, Overdue
<1>3. CASE intr /\ left' = left \cup {w} /\ UNCHANGED <<worker, deaf>>
  <2>1. UNCHANGED <<stage, pair>> BY <1>3 DEF worker
  <2>2. Serves' = Serves BY <2>1 DEF Serves, IsLive
  <2>3. Overdue' = IF IsLive(w) THEN Overdue \cup {w} ELSE Overdue
    BY <1>3, <2>1 DEF Overdue, IsLive
  <2>4. Service!WaitReturns BY <1>1, <1>3, <2>3, ServesValue DEF Service!WaitReturns
  <2> QED BY <2>2, <2>3, <2>4 DEF Overdue
<1> QED BY <1>2, <1>3 DEF WaitReturns

\* stop_backup returns, to the next target or to the restore.
LEMMA BackupStoppedServes == ASSUME IndInv, BackupStopped PROVE ServiceStep
<1>1. /\ pc = "waiting" /\ WaitReturns(awaited) /\ cmd.todo # <<>>
      /\ pc' = "ending" \/ (pc' = "restoring" /\ cmd' = cmd)
  BY DEF BackupStopped, IndInv, AwaitedInv
<1>2. PICK s \in Sources, t \in Targets : s = cmd.src /\ t = Head(cmd.todo)
  BY <1>1, NextTargetType DEF IndInv, TypeOK, Commands, Ops
<1>3. PICK i \in FindBackup(s, t) : backups[i].pid = awaited
  BY <1>1, <1>2 DEF IndInv, AwaitedInv
<1>4. PICK w \in Workers : w = awaited
  BY <1>3, EntryType DEF FindBackup, IndInv
<1>5. /\ Serves' = Serves /\ Service!WaitReturns
      /\ \A v \in Workers : IsLive(v) /\ (v = w \/ v \in left) => v \in Overdue'
  BY <1>1, <1>4, WaitServes
<1>6. CASE pc' = "ending"
  <2>1. UNCHANGED <<Writing, Open>> BY <1>1, <1>6 DEF Writing, Open
  <2> QED BY <1>5, <2>1 DEF ServiceStep, Service!Next, Service!Wait
<1>7. CASE pc' = "restoring" /\ cmd' = cmd
  <2>1. Writing = {} /\ Writing' = {<<s, t>>} /\ Open /\ Open'
    BY <1>1, <1>2, <1>7 DEF Writing, Open
  <2>2. Service!WorkersOf(<<s, t>>) \subseteq Overdue'
    <3> SUFFICES ASSUME NEW v \in Workers, <<s, t>> \in Serves[v] PROVE v \in Overdue'
      BY DEF Service!WorkersOf
    <3>1. IsLive(v) /\ pair[v] = <<s, t>> BY DEF Serves
    <3>2. CASE v \in left BY <1>5, <3>1, <3>2
    <3>3. CASE v \notin left
      <4>1. PICK j \in FindBackup(s, t) : backups[j].pid = v BY <1>1, <3>1, <3>3, PairFree
      <4>2. i = j BY DEF FindBackup, IndInv, UniquePairs
      <4> QED BY <1>3, <1>4, <1>5, <3>1, <4>1, <4>2
    <3> QED BY <3>2, <3>3
  <2>3. Service!StartRestore(<<s, t>>) BY <1>5, <2>1, <2>2 DEF Service!StartRestore
  <2> QED BY <2>3 DEF ServiceStep, Service!Next
<1> QED BY <1>1, <1>6, <1>7

\* stop_all has waited for one worker more.
LEMMA WaitForNextServes == ASSUME IndInv, WaitForNext PROVE ServiceStep
<1>1. pc = "draining" /\ pc' = pc /\ drained < Len(backups) BY DEF WaitForNext
<1>2. drained + 1 \in DOMAIN backups BY <1>1 DEF IndInv, TypeOK
<1>3. PICK w \in Workers : WaitReturns(w) BY <1>2, EntryType DEF WaitForNext, IndInv
<1>4. Serves' = Serves /\ Service!WaitReturns BY <1>3, WaitServes
<1>5. UNCHANGED <<Writing, Open>> BY <1>1 DEF Writing, Open
<1> QED BY <1>4, <1>5 DEF ServiceStep, Service!Next, Service!Wait

\* The list that moves its entries, the numbers that are used again, the waits and the
\* handlers of the supervisor keep what the service promises of the pairs.
THEOREM ImplementsService == Spec => ServiceSpec
<1>1. Init => Service!Init
  <2> SUFFICES ASSUME Init PROVE Service!Init OBVIOUS
  <2>1. \A w \in Workers : ~IsLive(w) BY DEF Init, IsLive, Live
  <2>2. Serves = [w \in Workers |-> {}] BY <2>1 DEF Serves
  <2>3. Overdue = {} /\ Writing = {} /\ Open = TRUE BY DEF Init, Overdue, Writing, Open
  <2> QED BY <2>2, <2>3 DEF Init, Service!Init
<1>2. IndInv /\ [Next]_vars => [Service!Next]_ServiceVars
  <2> SUFFICES ASSUME IndInv, [Next]_vars PROVE ServiceStep BY DEF ServiceStep
  <2>1. ASSUME NEW w \in Workers, WorkerStep(w) \/ ReadEvents(w) PROVE ServiceStep
    BY <2>1, WorkerServes
  <2>2. CASE User BY <2>2, UserServes
  <2>3. CASE GoesOn BY <2>3, GoesOnServes
  <2>4. CASE CheckTarget \/ StopBackup \/ KillAll \/ AllWaitedFor BY <2>4, QuietServes
  <2>5. ASSUME NEW w \in Workers, ReapChild(w) PROVE ServiceStep BY <2>5, ReapServes
  <2>6. CASE AddBackup BY <2>6, AddServes
  <2>7. CASE BackupStopped BY <2>7, BackupStoppedServes
  <2>8. CASE WaitForNext BY <2>8, WaitForNextServes
  <2>9. CASE UNCHANGED vars
    BY <2>9 DEF vars, parent, worker, ServiceStep, ServiceVars, Serves, IsLive, Writing,
       Overdue, Open
  <2> QED BY <2>1, <2>2, <2>3, <2>4, <2>5, <2>6, <2>7, <2>8, <2>9 DEF Next, ParentStep, GoesOn
<1> QED BY <1>1, <1>2, Invariance, PTL
    DEF Spec, ServiceSpec, Service!Spec, Service!vars, ServiceVars
=============================================================================
