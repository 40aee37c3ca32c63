----------------------- MODULE BackupSupervisorProofs -----------------------
(***************************************************************************)
(* Proofs about BackupSupervisor, for every set of sources, targets and    *)
(* worker processes and every bound, and that it implements BackupService. *)
(***************************************************************************)
EXTENDS BackupSupervisor, SequenceTheorems, TLAPS

-----------------------------------------------------------------------------
(* Type correctness.                                                       *)

\* The command after one target has been dealt with is a command again.
LEMMA NextTargetType ==
  ASSUME cmd \in Commands, cmd.todo # <<>>
  PROVE  /\ [cmd EXCEPT !.todo = Tail(@)] \in Commands
         /\ Head(cmd.todo) \in Targets
BY DEF Commands

\* The empty command is a command.
LEMMA NoCommandType == NoCommand \in Commands
BY ConstantsAssumption DEF NoCommand, Commands

\* Ending an entry leaves an entry.
LEMMA EndedType == ASSUME NEW e \in Entry PROVE Ended(e) \in Entry
BY DEF Entry, Ended

\* Reaping leaves a list of the same length.
LEMMA ReapType ==
  ASSUME TypeOK, NEW ws
  PROVE  /\ EndEntriesOf(ws) \in Seq(Entry)
         /\ DOMAIN EndEntriesOf(ws) = DOMAIN backups
<1>1. backups \in Seq(Entry) BY DEF TypeOK
<1>2. \A i \in DOMAIN backups : backups[i] \in Entry BY <1>1
<1>3. \A i \in DOMAIN backups :
        (IF backups[i].active /\ backups[i].pid \in ws THEN Ended(backups[i])
                                                       ELSE backups[i]) \in Entry
  BY <1>2, EndedType
<1>4. PICK n \in Nat : DOMAIN backups = 1 .. n BY <1>1
<1> QED BY <1>3, <1>4 DEF EndEntriesOf

\* Terms of the fields that Terminate writes.
LEMMA TerminateType ==
  ASSUME TypeOK, NEW ws \in SUBSET Workers, Terminate(ws)
  PROVE  /\ stage' \in [Workers -> Stages]
         /\ exitFlag' \in [Workers -> BOOLEAN]
         /\ lost' \subseteq Workers
BY DEF TypeOK, Terminate, Stages, Live, Watched

\* Every step of the parent keeps the types.
LEMMA ParentType == ASSUME TypeOK, IndInv, ParentStep \/ WaitInterrupted PROVE TypeOK'
<1> USE DEF parent, outside, worker, history
<1>1. ASSUME LoopTop PROVE TypeOK'
  BY <1>1, ReapType DEF TypeOK, LoopTop, ReapChildren, Stages
<1>2. ASSUME EnterFgets \/ Finish PROVE TypeOK'
  BY <1>2 DEF TypeOK, EnterFgets, Finish
<1>3. ASSUME CommandDone PROVE TypeOK'
  BY <1>3, NoCommandType DEF TypeOK, CommandDone
<1>4. ASSUME InvalidTarget \/ TargetNotEmpty \/ AddRefused \/ NothingToEnd \/ RestoreDone
      PROVE  TypeOK'
  <2>1. cmd.todo # <<>>
    BY <1>4 DEF InvalidTarget, TargetNotEmpty, AddRefused, NothingToEnd, RestoreDone, Skip, Doing, IndInv, RestoringInv
  <2> QED BY <1>4, <2>1, NextTargetType
      DEF TypeOK, InvalidTarget, TargetNotEmpty, AddRefused, NothingToEnd, RestoreDone, Skip, NextTarget
<1>5. ASSUME NEW w \in Workers, AddFork(w) PROVE TypeOK'
  BY <1>5, NextTargetType DEF TypeOK, AddFork, Doing, Stages, Live, Commands
<1>6. ASSUME AddRegister PROVE TypeOK'
  <2>1. cmd.todo # <<>> /\ forked \in Workers
    BY <1>6 DEF AddRegister, IndInv, SpawnedInv, TypeOK
  <2>2. [src |-> cmd.src, dst |-> Head(cmd.todo), pid |-> forked, active |-> TRUE] \in Entry
    BY <2>1, NextTargetType DEF Entry, TypeOK, Commands
  <2>3. backups' \in Seq(Entry)
    BY <1>6, <2>2 DEF AddRegister, TypeOK
  <2> QED BY <1>6, <2>1, <2>3, NextTargetType DEF TypeOK, AddRegister, NextTarget
<1>7. ASSUME AddNoMemory PROVE TypeOK'
  <2>1. cmd.todo # <<>> /\ forked \in Workers
    BY <1>7 DEF AddNoMemory, IndInv, SpawnedInv, TypeOK
  <2> QED BY <1>7, <2>1, TerminateType, NextTargetType DEF TypeOK, AddNoMemory, NextTarget
<1>8. ASSUME KillAndWait PROVE TypeOK'
  <2>1. PICK i \in FindBackup(cmd.src, Head(cmd.todo)) :
          backups[i].active /\ Terminate({backups[i].pid}) /\ cur' = i
    BY <1>8 DEF KillAndWait
  <2>2. i \in Nat /\ {backups[i].pid} \subseteq Workers
    BY <2>1 DEF FindBackup, TypeOK, IndInv, PidsAreOurs
  <2> QED BY <1>8, <2>1, <2>2, TerminateType DEF TypeOK, KillAndWait
<1>9. ASSUME RestoreEnded PROVE TypeOK'
  BY <1>9 DEF TypeOK, RestoreEnded
<1>10. ASSUME WaitReaps \/ WaitInterrupted PROVE TypeOK'
  <2>1. cur \in DOMAIN backups /\ backups[cur] \in Entry /\ backups[cur].pid \in Workers
    BY <1>10 DEF WaitReaps, WaitInterrupted, IndInv, WaitingInv, PidsAreOurs, TypeOK
  <2>2. backups' \in Seq(Entry)
    BY <1>10, <2>1, EndedType DEF WaitReaps, WaitInterrupted, AfterWait, TypeOK
  <2>3. cmd' \in Commands
    BY <1>10, NextTargetType
    DEF WaitReaps, WaitInterrupted, AfterWait, NextTarget, IndInv, WaitingInv, TypeOK
  <2>4. stage' \in [Workers -> Stages] /\ abandoned' \subseteq Workers
    BY <1>10, <2>1 DEF WaitReaps, WaitInterrupted, TypeOK, Stages
  <2>5. pc' \in {"command", "restoring", "draining"} /\ cur' = 0 /\ intr' = FALSE
    BY <1>10 DEF WaitReaps, WaitInterrupted, AfterWait
  <2>6. AfterWait BY <1>10 DEF WaitReaps, WaitInterrupted
  <2>7. UNCHANGED signals BY <2>6 DEF AfterWait
  <2>8. UNCHANGED <<terminate, forked, exitFlag, pair, rootGone, srcDir, lost, unlisted>>
    BY <2>6 DEF AfterWait
  <2> QED BY <2>2, <2>3, <2>4, <2>5, <2>7, <2>8 DEF TypeOK
<1>11. ASSUME KillAll PROVE TypeOK'
  <2> DEFINE ws == {backups[i].pid : i \in {j \in DOMAIN backups : backups[j].active}}
  <2>1. ws \subseteq Workers BY DEF IndInv, PidsAreOurs
  <2>2. cmd' \in Commands
    BY <1>11, NoCommandType DEF KillAll, Commands
  <2>3. Terminate(ws) BY <1>11 DEF KillAll
  <2> HIDE DEF ws
  <2> QED BY <1>11, <2>1, <2>2, <2>3, TerminateType DEF TypeOK, KillAll
<1>12. ASSUME WaitNext PROVE TypeOK'
  BY <1>12 DEF TypeOK, WaitNext
<1> QED
  BY <1>1, <1>2, <1>3, <1>4, <1>5, <1>6, <1>7, <1>8, <1>9, <1>10, <1>11, <1>12
  DEF ParentStep

\* Every step of a worker or of the user keeps the types.
LEMMA OtherType ==
  ASSUME TypeOK, User \/ \E w \in Workers : WorkerStep(w)
  PROVE  TypeOK'
<1> USE DEF parent, outside, worker, history, Stages, Live, Watched
<1>1. ASSUME NEW w \in Workers, NEW from, NEW to \in Stages, Goes(w, from, to)
      PROVE  TypeOK'
  BY <1>1 DEF TypeOK, Goes
<1>2. ASSUME NEW w \in Workers, NEW from, Exits(w, from) PROVE TypeOK'
  BY <1>2 DEF TypeOK, Exits, Die, InterruptParent
<1>3. ASSUME NEW w \in Workers, HandleEvents(w) PROVE TypeOK'
  BY <1>3 DEF TypeOK, HandleEvents
<1>4. ASSUME NEW w \in Workers, WorkerStep(w) \/ FsEvent(w) PROVE TypeOK'
  BY <1>1, <1>2, <1>3, <1>4
  DEF WorkerStep, Install, Start, StartFails, CopyDone, Watch, WatchFails, LoopExits,
      LoopAgain, EnterRead, ReadRootGone, FsEvent
<1>5. ASSUME SendTerm \/ SendInt PROVE TypeOK'
  <2>1. signals' \in 0 .. MaxSignals
    <3>1. signals \in 0 .. MaxSignals /\ MaxSignals \in Nat
      BY ConstantsAssumption DEF TypeOK
    <3>2. signals < MaxSignals /\ signals' = signals + 1
      BY <1>5 DEF SendTerm, SendInt
    <3> QED BY <3>1, <3>2
  <2>2. stage' \in [Workers -> Stages]
    BY <1>5 DEF TypeOK, SendTerm, SendInt
  <2>3. terminate' /\ pc' \in {pc, "top"} /\ intr' \in BOOLEAN
    BY <1>5 DEF TypeOK, SendTerm, SendInt, InterruptParent
  <2>4. UNCHANGED <<backups, cmd, cur, forked, exitFlag, pair, rootGone, srcDir, history>>
    BY <1>5 DEF SendTerm, SendInt
  <2> QED BY <2>1, <2>2, <2>3, <2>4 DEF TypeOK
<1>6. ASSUME NEW s \in Sources, RemoveSource(s) \/ MakeSource(s) PROVE TypeOK'
  BY <1>6 DEF TypeOK, RemoveSource, MakeSource
<1>7. ASSUME List \/ Exit PROVE TypeOK'
  BY <1>7, ReapType DEF TypeOK, List, Exit, ReapChildren
<1>8. ASSUME NEW op \in {"add", "end", "restore"}, NEW s \in Sources, NEW todo \in Todos,
             ReadCommand(op, s, todo)
      PROVE  TypeOK'
  <2>1. todo \in Seq(Targets) BY DEF Todos
  <2> QED BY <1>8, <2>1 DEF TypeOK, ReadCommand, Commands
<1> QED BY <1>4, <1>5, <1>6, <1>7, <1>8 DEF User, Input

-----------------------------------------------------------------------------
(* The parts of the invariant that speak of the list and the workers.      *)

ListInv ==
  /\ UniquePairs
  /\ PidsAreOurs
  /\ EntriesMatchWorkers
  /\ LiveWorkersAccounted
  /\ AbandonedInv

ControlInv == SpawnedInv /\ WaitingInv /\ RestoringInv /\ DrainingInv

\* The invariant in its two halves.
LEMMA IndInvParts == IndInv <=> TypeOK /\ ListInv /\ ControlInv
BY DEF IndInv, ListInv, ControlInv

\* A step that forks, ends or reaps no worker and leaves the list alone.
SameLife ==
  /\ UNCHANGED <<backups, pair, forked, abandoned, unlisted>>
  /\ \A w \in Workers :
       /\ stage'[w] \in Live <=> stage[w] \in Live
       /\ stage'[w] = "zombie" <=> stage[w] = "zombie"

\* Such a step keeps what is said of the list.
LEMMA SameLifeKeepsList == ASSUME IndInv, SameLife PROVE ListInv'
<1> USE DEF IndInv, SameLife
<1>1. UniquePairs' BY DEF UniquePairs
<1>2. PidsAreOurs' BY DEF PidsAreOurs
<1>3. EntriesMatchWorkers' BY DEF EntriesMatchWorkers
<1>4. LiveWorkersAccounted' BY DEF LiveWorkersAccounted, IsLive
<1>5. AbandonedInv' BY DEF AbandonedInv, IsLive
<1> QED BY <1>1, <1>2, <1>3, <1>4, <1>5 DEF ListInv

\* If moreover the parent and its command stay where they are, the whole of the
\* control part is kept.
LEMMA SameLifeKeepsControl ==
  ASSUME IndInv, SameLife, UNCHANGED <<cmd, cur>>,
         pc' = pc \/ (pc = "prompt" /\ pc' = "top")
  PROVE  ControlInv'
<1> USE DEF IndInv, SameLife
<1>1. SpawnedInv' BY DEF SpawnedInv, AtHand, IsMatch, TypeOK
<1>2. WaitingInv' BY DEF WaitingInv, AtHand, IsMatch
<1>3. RestoringInv' BY DEF RestoringInv, AtHand, IsMatch
<1>4. DrainingInv' BY DEF DrainingInv
<1> QED BY <1>1, <1>2, <1>3, <1>4 DEF ControlInv

\* Sending SIGTERM kills no one at once.
LEMMA TerminateSameLife ==
  ASSUME TypeOK, NEW ws, Terminate(ws), NEW w \in Workers
  PROVE  /\ stage'[w] \in Live <=> stage[w] \in Live
         /\ stage'[w] = "zombie" <=> stage[w] = "zombie"
BY DEF TypeOK, Terminate, Live, Watched

\* A worker that goes from one live stage to another.
LEMMA GoesInv ==
  ASSUME IndInv, NEW w \in Workers, NEW from \in Live, NEW to \in Live, Goes(w, from, to)
  PROVE  ListInv' /\ ControlInv'
<1>1. SameLife
  BY DEF IndInv, TypeOK, Goes, SameLife, parent, history, Live, Watched
<1>2. UNCHANGED <<cmd, cur, pc>> BY DEF Goes, parent
<1> QED BY <1>1, <1>2, SameLifeKeepsList, SameLifeKeepsControl

\* A worker that exits becomes a zombie: its entry is still ours to wait for.
LEMMA ExitsInv ==
  ASSUME IndInv, NEW w \in Workers, NEW from \in SUBSET Live, Exits(w, from)
  PROVE  ListInv' /\ ControlInv'
<1> USE DEF IndInv
<1>1. /\ stage[w] \in Live
      /\ stage' = [stage EXCEPT ![w] = "zombie"]
      /\ abandoned' = abandoned \ {w} /\ unlisted' = unlisted \ {w}
      /\ UNCHANGED <<backups, pair, forked, cmd, cur>>
      /\ pc' = pc \/ (pc = "prompt" /\ pc' = "top")
  BY DEF Exits, Die, InterruptParent
<1>2. \A v \in Workers : stage'[v] \in Live <=> stage[v] \in Live /\ v # w
  BY <1>1 DEF TypeOK, Live, Watched
<1>3. UniquePairs' BY <1>1 DEF UniquePairs
<1>4. PidsAreOurs' BY <1>1 DEF PidsAreOurs, TypeOK
<1>5. EntriesMatchWorkers' BY <1>1 DEF EntriesMatchWorkers
<1>6. LiveWorkersAccounted' BY <1>1, <1>2 DEF LiveWorkersAccounted, IsLive
<1>7. AbandonedInv'
  <2>1. \A v \in abandoned' : v \in abandoned BY <1>1
  <2> QED BY <1>1, <1>2, <2>1 DEF AbandonedInv, IsLive
<1>8. SpawnedInv' BY <1>1 DEF SpawnedInv, AtHand, IsMatch, TypeOK
<1>9. WaitingInv' BY <1>1 DEF WaitingInv, AtHand, IsMatch
<1>10. RestoringInv' BY <1>1 DEF RestoringInv, AtHand, IsMatch
<1>11. DrainingInv' BY <1>1 DEF DrainingInv
<1> QED BY <1>3, <1>4, <1>5, <1>6, <1>7, <1>8, <1>9, <1>10, <1>11 DEF ListInv, ControlInv

\* Reaping: entries of zombies end, and every other entry is as before.
LEMMA ReapInv == ASSUME IndInv, ReapChildren, UNCHANGED <<pair, forked, abandoned, unlisted>>,
                        pc \notin {"spawned", "waiting", "restoring"}
                 PROVE  ListInv'
<1> USE DEF IndInv
<1> DEFINE zombies == {w \in Workers : stage[w] = "zombie"}
<1>1. /\ DOMAIN backups' = DOMAIN backups
      /\ \A i \in DOMAIN backups :
           backups'[i] = IF backups[i].active /\ backups[i].pid \in zombies
                         THEN Ended(backups[i]) ELSE backups[i]
  BY ReapType DEF ReapChildren, EndEntriesOf
<1>2. \A i \in DOMAIN backups : backups[i] \in Entry BY DEF TypeOK
<1>3. \A i \in DOMAIN backups :
        /\ backups'[i].src = backups[i].src /\ backups'[i].dst = backups[i].dst
        /\ backups'[i].active =>
             backups[i].active /\ backups'[i] = backups[i] /\ backups[i].pid \notin zombies
        /\ backups[i].active /\ backups[i].pid \notin zombies => backups'[i] = backups[i]
        /\ ~backups[i].active => ~backups'[i].active
  BY <1>1, <1>2 DEF Ended, Entry
<1>4. \A w \in Workers : /\ stage[w] # "zombie" => stage'[w] = stage[w]
                         /\ stage'[w] \in Live <=> stage[w] \in Live
  BY DEF ReapChildren, Live, Watched
<1>5. UniquePairs' BY <1>1, <1>3 DEF UniquePairs
<1>6. PidsAreOurs' BY <1>1, <1>3, <1>4 DEF PidsAreOurs
<1>7. EntriesMatchWorkers' BY <1>1, <1>3 DEF EntriesMatchWorkers
<1>8. LiveWorkersAccounted'
  <2> SUFFICES ASSUME NEW w \in Workers, IsLive(w)'
               PROVE  \/ \E i \in DOMAIN backups' : backups'[i].active /\ backups'[i].pid = w
                      \/ w = forked \/ w \in abandoned \cup unlisted
    BY DEF LiveWorkersAccounted
  <2>1. stage[w] \in Live /\ w \notin zombies BY <1>4 DEF IsLive, Live, Watched
  <2> QED BY <1>1, <1>3, <2>1 DEF LiveWorkersAccounted, IsLive
<1>9. AbandonedInv' BY <1>1, <1>3, <1>4 DEF AbandonedInv, IsLive
<1> QED BY <1>5, <1>6, <1>7, <1>8, <1>9 DEF ListInv

-----------------------------------------------------------------------------
(* Every action keeps the invariant.                                       *)

\* The initial state: an empty list, no worker.
LEMMA InitInv == Init => IndInv
<1> SUFFICES ASSUME Init PROVE IndInv OBVIOUS
<1> USE ConstantsAssumption DEF Init
<1>1. TypeOK
  <2>1. (CHOOSE p \in Sources \X Targets : TRUE) \in Sources \X Targets
    <3>1. PICK s \in Sources, t \in Targets : TRUE OBVIOUS
    <3>2. <<s, t>> \in Sources \X Targets OBVIOUS
    <3> QED BY <3>2
  <2>2. pair \in [Workers -> Sources \X Targets] BY <2>1
  <2>3. backups \in Seq(Entry) OBVIOUS
  <2>4. signals \in 0 .. MaxSignals OBVIOUS
  <2> QED BY <2>2, <2>3, <2>4, NoCommandType DEF TypeOK, Stages
<1>2. ListInv
  BY DEF ListInv, UniquePairs, PidsAreOurs, EntriesMatchWorkers, LiveWorkersAccounted,
         AbandonedInv, IsLive, Live, Watched
<1>3. ControlInv
  BY DEF ControlInv, SpawnedInv, WaitingInv, RestoringInv, DrainingInv
<1> QED BY <1>1, <1>2, <1>3, IndInvParts

\* Steps of a worker.
LEMMA WorkerInv == ASSUME IndInv, NEW w \in Workers, WorkerStep(w) \/ FsEvent(w)
                   PROVE  ListInv' /\ ControlInv'
<1>1. ASSUME HandleEvents(w) PROVE ListInv' /\ ControlInv'
  <2>1. SameLife
    BY <1>1 DEF IndInv, TypeOK, HandleEvents, SameLife, parent, history, Live, Watched
  <2>2. UNCHANGED <<cmd, cur, pc>> BY <1>1 DEF HandleEvents, parent
  <2> QED BY <2>1, <2>2, SameLifeKeepsList, SameLifeKeepsControl
<1>2. ASSUME StartFails(w) \/ WatchFails(w) \/ LoopExits(w) PROVE ListInv' /\ ControlInv'
  BY <1>2, ExitsInv DEF StartFails, WatchFails, LoopExits, Live, Watched
<1>3. ASSUME Install(w) \/ Start(w) \/ CopyDone(w) \/ Watch(w) PROVE ListInv' /\ ControlInv'
  BY <1>3, GoesInv DEF Install, Start, CopyDone, Watch, Live, Watched
<1>4. ASSUME LoopAgain(w) \/ EnterRead(w) \/ ReadRootGone(w) \/ FsEvent(w)
      PROVE  ListInv' /\ ControlInv'
  BY <1>4, GoesInv DEF LoopAgain, EnterRead, ReadRootGone, FsEvent, Live, Watched
<1> QED BY <1>1, <1>2, <1>3, <1>4 DEF WorkerStep

\* Signals of the user, and changes to the source.
LEMMA UserInv ==
  ASSUME IndInv,
         \/ SendTerm \/ SendInt
         \/ \E s \in Sources : RemoveSource(s) \/ MakeSource(s)
  PROVE  ListInv' /\ ControlInv'
<1>1. SameLife
  BY DEF IndInv, TypeOK, SendTerm, SendInt, RemoveSource, MakeSource, SameLife,
         parent, outside, worker, history, Live, Watched
<1>2. UNCHANGED <<cmd, cur>> /\ (pc' = pc \/ (pc = "prompt" /\ pc' = "top"))
  BY DEF SendTerm, SendInt, RemoveSource, MakeSource, InterruptParent, parent
<1> QED BY <1>1, <1>2, SameLifeKeepsList, SameLifeKeepsControl

\* Steps that only move the parent on, into no state the control part speaks of.
LEMMA MoveOnInv ==
  ASSUME IndInv,
         \/ EnterFgets \/ CommandDone \/ InvalidTarget \/ TargetNotEmpty \/ AddRefused
         \/ NothingToEnd \/ RestoreDone
         \/ Finish \/ Exit
         \/ \E op \in {"add", "end", "restore"}, s \in Sources, todo \in Todos :
              ReadCommand(op, s, todo)
  PROVE  ListInv' /\ ControlInv'
<1> USE DEF EnterFgets, CommandDone, InvalidTarget, TargetNotEmpty, AddRefused, Skip, NothingToEnd, RestoreDone, Finish, Exit,
            ReadCommand, Doing, outside, worker, history
<1>1. SameLife BY DEF SameLife
<1>2. pc' \notin {"spawned", "waiting", "restoring"} /\ pc # "spawned" /\ forked' = forked
  OBVIOUS
<1>3. ControlInv'
  BY <1>2 DEF IndInv, ControlInv, SpawnedInv, WaitingInv, RestoringInv, DrainingInv
<1> QED BY <1>1, <1>3, SameLifeKeepsList

\* The head of the loop, and list.
LEMMA LoopTopInv == ASSUME IndInv, LoopTop \/ List PROVE ListInv' /\ ControlInv'
<1>1. /\ UNCHANGED <<pair, forked, abandoned, unlisted>>
      /\ pc \in {"top", "prompt"} /\ pc' \in {"killing", "ready", "top"}
  BY DEF LoopTop, List, outside, history
<1>2. ControlInv'
  BY <1>1 DEF IndInv, ControlInv, SpawnedInv, WaitingInv, RestoringInv, DrainingInv
<1>3. CASE ReapChildren BY <1>1, <1>2, <1>3, ReapInv
<1>4. CASE ~ReapChildren
  <2>1. SameLife BY <1>1, <1>4 DEF LoopTop, List, SameLife
  <2> QED BY <1>2, <2>1, SameLifeKeepsList
<1> QED BY <1>3, <1>4

\* fork: the child is live, in no entry yet, and its pair is new to the list.
LEMMA AddForkInv == ASSUME IndInv, NEW w \in Workers, AddFork(w) PROVE ListInv' /\ ControlInv'
<1> USE DEF IndInv
<1>1. /\ UNCHANGED <<backups, abandoned, unlisted, cmd>>
      /\ stage[w] = "none" /\ stage' = [stage EXCEPT ![w] = "forked"]
      /\ pair' = [pair EXCEPT ![w] = <<cmd.src, Head(cmd.todo)>>]
      /\ forked' = w /\ pc' = "spawned" /\ pc = "command" /\ cmd.todo # <<>>
  BY DEF AddFork, Doing, outside, history
<1>2. w \notin abandoned \cup unlisted
  BY <1>1 DEF AbandonedInv, IsLive, Live, Watched
<1>3. \A i \in DOMAIN backups : backups[i].active => backups[i].pid # w
  BY <1>1 DEF PidsAreOurs, Live, Watched
<1>4. \A v \in Workers \ {w} : stage'[v] = stage[v] /\ pair'[v] = pair[v]
  BY <1>1 DEF TypeOK
<1>5. stage'[w] = "forked" /\ pair'[w] = <<cmd.src, Head(cmd.todo)>>
  BY <1>1 DEF TypeOK
<1>6. UniquePairs' BY <1>1 DEF UniquePairs
<1>7. PidsAreOurs' BY <1>1, <1>3, <1>4 DEF PidsAreOurs
<1>8. EntriesMatchWorkers' BY <1>1, <1>3, <1>4 DEF EntriesMatchWorkers, PidsAreOurs
<1>9. LiveWorkersAccounted'
  <2>1. forked = NoPid BY <1>1 DEF SpawnedInv
  <2> QED BY <1>1, <1>4, <2>1, ConstantsAssumption DEF LiveWorkersAccounted, IsLive
<1>10. AbandonedInv'
  BY <1>1, <1>2, <1>4 DEF AbandonedInv, IsLive, TypeOK
<1>11. \A i \in DOMAIN backups : ~AtHand(i)
  <2> SUFFICES ASSUME NEW i \in DOMAIN backups, AtHand(i) PROVE FALSE OBVIOUS
  <2>1. \A j \in 1 .. i - 1 : j \in DOMAIN backups /\ j # i BY DEF TypeOK
  <2>2. \A j \in 1 .. i - 1 : ~IsMatch(j, cmd.src, Head(cmd.todo))
    BY <2>1 DEF UniquePairs, AtHand, IsMatch
  <2>3. i \in FindBackup(cmd.src, Head(cmd.todo)) BY <2>2 DEF FindBackup, AtHand
  <2> QED BY <2>3 DEF AddFork, MayAdd
<1>12. SpawnedInv'
  <2>1. forked' # NoPid BY <1>1, ConstantsAssumption
  <2> QED BY <1>1, <1>3, <1>5, <1>11, <2>1 DEF SpawnedInv, AtHand, IsMatch, Live
<1>13. WaitingInv' /\ RestoringInv' /\ DrainingInv'
  BY <1>1 DEF WaitingInv, RestoringInv, DrainingInv
<1> QED BY <1>6, <1>7, <1>8, <1>9, <1>10, <1>12, <1>13 DEF ListInv, ControlInv

\* The child enters the list with a pair that was not in it.
LEMMA AddRegisterInv == ASSUME IndInv, AddRegister PROVE ListInv' /\ ControlInv'
<1> USE DEF IndInv
<1> DEFINE e == [src |-> cmd.src, dst |-> Head(cmd.todo), pid |-> forked, active |-> TRUE]
           n == Len(backups) + 1
<1>1. /\ pc = "spawned" /\ pc' = "command" /\ forked' = NoPid /\ backups' = Append(backups, e)
      /\ UNCHANGED <<stage, pair, abandoned, unlisted>>
  BY DEF AddRegister, outside, worker, history
<1>2. /\ forked \in Workers /\ stage[forked] \in Live \cup {"zombie"}
      /\ pair[forked] = <<e.src, e.dst>>
      /\ \A i \in DOMAIN backups :
           /\ ~(backups[i].src = e.src /\ backups[i].dst = e.dst)
           /\ backups[i].active => backups[i].pid # forked
  BY <1>1 DEF SpawnedInv, TypeOK, AtHand, IsMatch
<1>3. /\ DOMAIN backups' = DOMAIN backups \cup {n} /\ n \notin DOMAIN backups
      /\ backups'[n] = e /\ \A i \in DOMAIN backups : backups'[i] = backups[i]
  BY <1>1 DEF TypeOK
<1> HIDE DEF n
<1>4. UniquePairs' BY <1>2, <1>3 DEF UniquePairs
<1>5. PidsAreOurs' BY <1>1, <1>2, <1>3 DEF PidsAreOurs
<1>6. EntriesMatchWorkers'
  <2>1. pair'[backups'[n].pid] = <<backups'[n].src, backups'[n].dst>>
    BY <1>1, <1>2, <1>3
  <2>2. \A i \in DOMAIN backups : backups'[i].active =>
          pair'[backups'[i].pid] = <<backups'[i].src, backups'[i].dst>>
    BY <1>1, <1>3 DEF EntriesMatchWorkers
  <2> HIDE DEF e
  <2> QED BY <1>3, <2>1, <2>2 DEF EntriesMatchWorkers
<1>7. LiveWorkersAccounted'
  BY <1>1, <1>2, <1>3 DEF LiveWorkersAccounted, IsLive
<1>8. AbandonedInv' BY <1>1, <1>3 DEF AbandonedInv, IsLive
<1>9. ControlInv' BY <1>1 DEF ControlInv, SpawnedInv, WaitingInv, RestoringInv, DrainingInv
<1> QED BY <1>4, <1>5, <1>6, <1>7, <1>8, <1>9 DEF ListInv

\* The list could not grow: the child, if it lives, is unlisted.
LEMMA AddNoMemoryInv == ASSUME IndInv, AddNoMemory PROVE ListInv' /\ ControlInv'
<1> USE DEF IndInv
<1>1. /\ pc = "spawned" /\ pc' = "command" /\ forked' = NoPid /\ Terminate({forked})
      /\ unlisted' = unlisted \cup {w \in Workers : w = forked /\ IsLive(w)}
      /\ UNCHANGED <<backups, pair, abandoned>>
  BY DEF AddNoMemory
<1>2. \A w \in Workers : /\ stage'[w] \in Live <=> stage[w] \in Live
                         /\ stage'[w] = "zombie" <=> stage[w] = "zombie"
  BY <1>1, TerminateSameLife
<1>3. UniquePairs' BY <1>1 DEF UniquePairs
<1>4. PidsAreOurs' BY <1>1, <1>2 DEF PidsAreOurs
<1>5. EntriesMatchWorkers' BY <1>1 DEF EntriesMatchWorkers
<1>6. LiveWorkersAccounted' BY <1>1, <1>2 DEF LiveWorkersAccounted, IsLive
<1>7. AbandonedInv' BY <1>1, <1>2 DEF AbandonedInv, IsLive
<1>8. ControlInv' BY <1>1 DEF ControlInv, SpawnedInv, WaitingInv, RestoringInv, DrainingInv
<1> QED BY <1>3, <1>4, <1>5, <1>6, <1>7, <1>8 DEF ListInv

\* SIGTERM before a wait: no life changes, and the awaited entry is active.
LEMMA KillInv == ASSUME IndInv, KillAndWait \/ KillAll \/ WaitNext \/ RestoreEnded
                 PROVE  ListInv' /\ ControlInv'
<1> USE DEF IndInv
<1>1. SameLife
  <2>1. CASE WaitNext \/ RestoreEnded
    BY <2>1 DEF WaitNext, RestoreEnded, SameLife, outside, worker, history
  <2>2. CASE KillAndWait \/ KillAll
    <3>1. PICK ws : Terminate(ws) BY <2>2 DEF KillAndWait, KillAll
    <3> QED BY <2>2, <3>1, TerminateSameLife DEF KillAndWait, KillAll, SameLife
  <2> QED BY <2>1, <2>2
<1>2. SpawnedInv'
  BY DEF KillAndWait, KillAll, WaitNext, RestoreEnded, Doing, SpawnedInv
<1>3. WaitingInv'
  <2>1. CASE KillAndWait
    BY <2>1 DEF KillAndWait, Doing, WaitingInv, FindBackup, AtHand, IsMatch
  <2>2. CASE WaitNext
    <3>1. cmd.op = "exit" BY <2>2 DEF WaitNext, DrainingInv
    <3> QED BY <2>2, <3>1 DEF WaitNext, WaitingInv
  <2>3. CASE KillAll \/ RestoreEnded BY <2>3 DEF KillAll, RestoreEnded, WaitingInv
  <2> QED BY <2>1, <2>2, <2>3
<1>4. RestoringInv'
  <2>1. CASE RestoreEnded
    BY <2>1 DEF RestoreEnded, Doing, RestoringInv, FindBackup, AtHand, IsMatch, UniquePairs
  <2>2. CASE KillAndWait \/ KillAll \/ WaitNext
    BY <2>2 DEF KillAndWait, KillAll, WaitNext, RestoringInv
  <2> QED BY <2>1, <2>2
<1>5. DrainingInv'
  BY NoCommandType DEF KillAndWait, KillAll, WaitNext, RestoreEnded, DrainingInv, Commands
<1> QED BY <1>1, <1>2, <1>3, <1>4, <1>5, SameLifeKeepsList DEF ControlInv

\* waitpid has returned: the awaited entry, and no other, has ended.  Its worker
\* is reaped, or it is abandoned if it lives.
LEMMA AfterWaitInv == ASSUME IndInv, WaitReaps \/ WaitInterrupted PROVE ListInv' /\ ControlInv'
<1> USE DEF IndInv
<1> DEFINE p == backups[cur].pid
<1>1. /\ pc = "waiting" /\ pc' \in {"command", "restoring", "draining"}
      /\ backups' = [backups EXCEPT ![cur] = Ended(@)]
      /\ UNCHANGED <<pair, forked, unlisted>>
  BY DEF WaitReaps, WaitInterrupted, AfterWait
<1>2. /\ cur \in DOMAIN backups /\ backups[cur] \in Entry /\ backups[cur].active
      /\ p \in Workers /\ stage[p] \in Live \cup {"zombie"} /\ forked = NoPid
  BY <1>1 DEF WaitingInv, TypeOK, PidsAreOurs, SpawnedInv
<1>3. /\ DOMAIN backups' = DOMAIN backups
      /\ \A i \in DOMAIN backups : i # cur => backups'[i] = backups[i]
      /\ backups'[cur] = Ended(backups[cur])
  BY <1>1, <1>2 DEF TypeOK
<1>4. /\ backups'[cur].src = backups[cur].src /\ backups'[cur].dst = backups[cur].dst
      /\ ~backups'[cur].active
  BY <1>2, <1>3 DEF Ended, Entry
<1>5. \A i \in DOMAIN backups : i # cur /\ backups[i].active => backups[i].pid # p
  BY <1>2 DEF PidsAreOurs
<1>6. \/ stage[p] = "zombie" /\ stage' = [stage EXCEPT ![p] = "reaped"] /\ abandoned' = abandoned
      \/ stage' = stage /\ abandoned' = abandoned \cup {w \in Workers : w = p /\ IsLive(w)}
  BY DEF WaitReaps, WaitInterrupted
<1>7. \A w \in Workers : /\ stage'[w] \in Live <=> stage[w] \in Live
                         /\ w # p => stage'[w] = stage[w]
  BY <1>2, <1>6 DEF TypeOK, Live, Watched
<1> HIDE DEF p
<1>8. UniquePairs' BY <1>3, <1>4 DEF UniquePairs
<1>9. PidsAreOurs' BY <1>3, <1>4, <1>5, <1>7 DEF PidsAreOurs
<1>10. EntriesMatchWorkers' BY <1>1, <1>3, <1>4 DEF EntriesMatchWorkers
<1>11. LiveWorkersAccounted'
  <2> SUFFICES ASSUME NEW w \in Workers, stage[w] \in Live
               PROVE  \/ \E i \in DOMAIN backups' : backups'[i].active /\ backups'[i].pid = w
                      \/ w \in abandoned' \cup unlisted'
    BY <1>7 DEF LiveWorkersAccounted, IsLive
  <2>1. CASE w = p BY <1>6, <2>1 DEF IsLive, Live, Watched
  <2>2. CASE w # p
    <3>1. w # forked BY <1>2, ConstantsAssumption
    <3>2. w \in abandoned => w \in abandoned' BY <1>6
    <3>3. ASSUME NEW i \in DOMAIN backups, backups[i].active, backups[i].pid = w
          PROVE  backups'[i].active /\ backups'[i].pid = w
      BY <1>3, <2>2, <3>3 DEF p
    <3> QED BY <1>1, <1>3, <3>1, <3>2, <3>3 DEF LiveWorkersAccounted, IsLive
  <2> QED BY <2>1, <2>2
<1>12. AbandonedInv'
  <2>1. pair[p] = <<backups[cur].src, backups[cur].dst>>
    BY <1>2 DEF EntriesMatchWorkers, p
  <2>2. \A w \in abandoned : pair[w] # pair[p]
    <3> SUFFICES ASSUME NEW w \in abandoned, pair[w] = pair[p] PROVE FALSE OBVIOUS
    <3>1. PICK i \in DOMAIN backups :
            ~backups[i].active /\ pair[w] = <<backups[i].src, backups[i].dst>>
      BY DEF AbandonedInv
    <3>2. i = cur BY <1>2, <2>1, <3>1 DEF UniquePairs
    <3> QED BY <1>2, <3>1, <3>2
  <2>3. \A w \in abandoned' : w \in abandoned \/ (w = p /\ IsLive(p)) BY <1>6
  <2>4. \A w \in abandoned' :
          \E i \in DOMAIN backups' :
            ~backups'[i].active /\ pair'[w] = <<backups'[i].src, backups'[i].dst>>
    <3> SUFFICES ASSUME NEW w \in abandoned'
                 PROVE  \E i \in DOMAIN backups :
                          ~backups'[i].active /\ pair[w] = <<backups'[i].src, backups'[i].dst>>
      BY <1>1, <1>3
    <3>1. CASE w = p BY <1>2, <1>4, <2>1, <3>1
    <3>2. CASE w \in abandoned
      <4>1. PICK i \in DOMAIN backups :
              ~backups[i].active /\ pair[w] = <<backups[i].src, backups[i].dst>>
        BY <3>2 DEF AbandonedInv
      <4> QED BY <1>2, <1>3, <4>1
    <3> QED BY <2>3, <3>1, <3>2
  <2>5. \A v, w \in abandoned' : pair'[v] = pair'[w] => v = w
    BY <1>1, <2>2, <2>3 DEF AbandonedInv
  <2>6. abandoned' \cup unlisted' \subseteq {w \in Workers : IsLive(w)}'
    BY <1>1, <1>2, <1>7, <2>3 DEF AbandonedInv, IsLive
  <2> QED BY <2>4, <2>5, <2>6 DEF AbandonedInv
<1>13. SpawnedInv' /\ WaitingInv' BY <1>1, <1>2 DEF SpawnedInv, WaitingInv
<1>14. DrainingInv'
  BY DEF WaitReaps, WaitInterrupted, AfterWait, NextTarget, DrainingInv
<1>15. RestoringInv'
  <2> SUFFICES ASSUME pc' = "restoring"
               PROVE  /\ cmd'.todo # <<>>
                      /\ \A i \in DOMAIN backups : AtHand(i)' => ~backups'[i].active
    BY <1>3 DEF RestoringInv
  <2>1. cmd' = cmd /\ cmd.op = "restore"
    BY DEF WaitReaps, WaitInterrupted, AfterWait
  <2>2. cmd.todo # <<>> /\ AtHand(cur) BY <1>1, <2>1 DEF WaitingInv
  <2> QED BY <1>2, <1>3, <1>4, <2>1, <2>2 DEF AtHand, IsMatch, UniquePairs
<1> QED BY <1>8, <1>9, <1>10, <1>11, <1>12, <1>13, <1>14, <1>15 DEF ListInv, ControlInv

-----------------------------------------------------------------------------
(* The theorems.                                                           *)

\* A step of the supervisor, of a worker or of the user keeps the invariant.
LEMMA NextInv == IndInv /\ [Next]_vars => IndInv'
<1> SUFFICES ASSUME IndInv, [Next]_vars PROVE IndInv' OBVIOUS
<1>1. TypeOK BY DEF IndInv
<1>2. CASE Next
  <2>1. TypeOK' BY <1>1, <1>2, ParentType, OtherType DEF Next
  <2>2. ListInv' /\ ControlInv'
    <3>1. CASE LoopTop \/ List BY <3>1, LoopTopInv
    <3>2. CASE \/ EnterFgets \/ CommandDone \/ InvalidTarget \/ TargetNotEmpty \/ AddRefused
               \/ NothingToEnd \/ RestoreDone
               \/ Finish \/ Exit
      BY <3>2, MoveOnInv
    <3>3. ASSUME NEW op \in {"add", "end", "restore"}, NEW s \in Sources, NEW todo \in Todos,
                 ReadCommand(op, s, todo)
          PROVE  ListInv' /\ ControlInv'
      BY <3>3, MoveOnInv
    <3>4. ASSUME NEW w \in Workers, AddFork(w) PROVE ListInv' /\ ControlInv'
      BY <3>4, AddForkInv
    <3>5. CASE AddRegister BY <3>5, AddRegisterInv
    <3>6. CASE AddNoMemory BY <3>6, AddNoMemoryInv
    <3>7. CASE KillAndWait \/ KillAll \/ WaitNext \/ RestoreEnded BY <3>7, KillInv
    <3>8. CASE WaitReaps \/ WaitInterrupted BY <3>8, AfterWaitInv
    <3>9. ASSUME NEW w \in Workers, WorkerStep(w) \/ FsEvent(w) PROVE ListInv' /\ ControlInv'
      BY <3>9, WorkerInv
    <3>10. CASE \/ SendTerm \/ SendInt
                \/ \E s \in Sources : RemoveSource(s) \/ MakeSource(s)
      BY <3>10, UserInv
    <3> QED BY <1>2, <3>1, <3>2, <3>3, <3>4, <3>5, <3>6, <3>7, <3>8, <3>9, <3>10
        DEF Next, ParentStep, User, Input
  <2> QED BY <2>1, <2>2 DEF IndInv, ListInv, ControlInv
<1>3. CASE UNCHANGED vars
  BY <1>3 DEF vars, parent, outside, worker, history, IndInv, TypeOK, UniquePairs, PidsAreOurs,
     LiveWorkersAccounted, EntriesMatchWorkers, SpawnedInv, WaitingInv, RestoringInv,
     DrainingInv, AbandonedInv, IsLive, AtHand, IsMatch
<1> QED BY <1>2, <1>3

\* The invariant holds in every reachable state, for every choice of sources,
\* targets, workers and bounds.
THEOREM Invariance == Spec => []IndInv
BY InitInv, NextInv, PTL DEF Spec

\* The types of TypeOK: no command, signal or exit leaves them.
THEOREM TypeCorrectness == Spec => []TypeOK
<1>1. IndInv => TypeOK BY DEF IndInv
<1> QED BY <1>1, Invariance, PTL

\* find_backup sees each pair at most once.
THEOREM PairsAreUnique == Spec => []UniquePairs
<1>1. IndInv => UniquePairs BY DEF IndInv
<1> QED BY <1>1, Invariance, PTL

\* kill and waitpid only ever name a child of the supervisor that was not reaped.
THEOREM SignalsReachOwnChildren == Spec => []PidsAreOurs
<1>1. IndInv => PidsAreOurs BY DEF IndInv
<1> QED BY <1>1, Invariance, PTL

\* An interrupted waitpid and a list that could not grow are the only ways for a
\* live worker to drop out of the list.
THEOREM NoOtherLeak == Spec => []LiveWorkersAccounted
<1>1. IndInv => LiveWorkersAccounted BY DEF IndInv
<1> QED BY <1>1, Invariance, PTL

\* An entry of the pair at hand has ended, so its worker is in no active entry.
LEMMA ExclusiveHolds == IndInv => RestoreExclusive
<1> SUFFICES ASSUME IndInv, pc = "restoring", NEW w \in Workers, IsLive(w),
                    pair[w] = <<cmd.src, Head(cmd.todo)>>
             PROVE  w \in abandoned \cup unlisted
  BY DEF RestoreExclusive
<1>1. w # forked BY ConstantsAssumption DEF IndInv, SpawnedInv
<1>2. ASSUME NEW i \in DOMAIN backups, backups[i].active, backups[i].pid = w PROVE FALSE
  <2>1. AtHand(i) BY <1>2 DEF IndInv, EntriesMatchWorkers, AtHand, IsMatch
  <2> QED BY <1>2, <2>1 DEF IndInv, RestoringInv
<1> QED BY <1>1, <1>2 DEF IndInv, LiveWorkersAccounted

\* cmd_restore writes a source only after the pair's worker has gone, or was
\* leaked.
THEOREM RestoreIsExclusive == Spec => []RestoreExclusive
BY ExclusiveHolds, Invariance, PTL

\* The entry that a listed, forked or abandoned worker is in or left is the only one of
\* its pair.
LEMMA OnePerPairHolds == IndInv => OneWorkerPerPair
<1> SUFFICES ASSUME IndInv, NEW v \in Workers, NEW w \in Workers, IsLive(v), IsLive(w),
                    pair[v] = pair[w], v # w, v \notin unlisted, w \notin unlisted
             PROVE  FALSE
  BY DEF OneWorkerPerPair
<1> USE DEF IndInv
<1> DEFINE Listed(x) == \E i \in DOMAIN backups : backups[i].active /\ backups[i].pid = x
<1>1. /\ Listed(v) \/ v = forked \/ v \in abandoned
      /\ Listed(w) \/ w = forked \/ w \in abandoned
  BY DEF LiveWorkersAccounted
<1> HIDE DEF Listed
<1>2. ASSUME NEW x \in Workers, NEW y \in Workers, pair[x] = pair[y],
             Listed(x), Listed(y) \/ y = forked \/ y \in abandoned
      PROVE  x = y
  <2>1. PICK i \in DOMAIN backups : backups[i].active /\ backups[i].pid = x
    BY <1>2 DEF Listed
  <2>2. pair[x] = <<backups[i].src, backups[i].dst>> BY <2>1 DEF EntriesMatchWorkers
  <2>3. CASE Listed(y)
    <3>1. PICK j \in DOMAIN backups : backups[j].active /\ backups[j].pid = y
      BY <2>3 DEF Listed
    <3>2. pair[y] = <<backups[j].src, backups[j].dst>> BY <3>1 DEF EntriesMatchWorkers
    <3>3. backups[i].src = backups[j].src /\ backups[i].dst = backups[j].dst
      <4>1. <<backups[i].src, backups[i].dst>> = <<backups[j].src, backups[j].dst>>
        BY <1>2, <2>2, <3>2
      <4> QED BY <4>1
    <3>4. i = j BY <3>3 DEF UniquePairs
    <3> QED BY <2>1, <3>1, <3>4
  <2>4. CASE y = forked
    <3>1. pair[y] = <<cmd.src, Head(cmd.todo)>> /\ ~AtHand(i)
      BY <2>4, ConstantsAssumption DEF SpawnedInv
    <3>2. backups[i].src = cmd.src /\ backups[i].dst = Head(cmd.todo)
      <4>1. <<backups[i].src, backups[i].dst>> = <<cmd.src, Head(cmd.todo)>>
        BY <1>2, <2>2, <3>1
      <4> QED BY <4>1
    <3> QED BY <3>1, <3>2 DEF AtHand, IsMatch
  <2>5. CASE y \in abandoned
    <3>1. PICK j \in DOMAIN backups :
            ~backups[j].active /\ pair[y] = <<backups[j].src, backups[j].dst>>
      BY <2>5 DEF AbandonedInv
    <3>2. backups[i].src = backups[j].src /\ backups[i].dst = backups[j].dst
      <4>1. <<backups[i].src, backups[i].dst>> = <<backups[j].src, backups[j].dst>>
        BY <1>2, <2>2, <3>1
      <4> QED BY <4>1
    <3>3. i = j BY <3>2 DEF UniquePairs
    <3> QED BY <2>1, <3>1, <3>3
  <2> QED BY <1>2, <2>3, <2>4, <2>5
<1>3. ASSUME NEW x \in abandoned, forked \in Workers, pair[x] = pair[forked] PROVE FALSE
  BY <1>3, ConstantsAssumption DEF AbandonedInv, SpawnedInv, AtHand, IsMatch
<1>4. ~(v \in abandoned /\ w \in abandoned) BY DEF AbandonedInv
<1> QED BY <1>1, <1>2, <1>3, <1>4

\* Two live workers serve one pair only if one of them never got into the list.
THEOREM PairsAreServedOnce == Spec => []OneWorkerPerPair
BY OnePerPairHolds, Invariance, PTL

\* One step of the list: entries stay, keep their pairs and never revive.
Stable ==
  \A i \in DOMAIN backups :
    /\ i \in DOMAIN backups'
    /\ backups'[i].src = backups[i].src /\ backups'[i].dst = backups[i].dst
    /\ ~backups[i].active => backups'[i] = backups[i]

\* An index of the list stays good across every wait of end, restore and exit.
THEOREM EntriesAreStable == Spec => EntriesStay
<1>1. IndInv /\ [Next]_vars => [Stable]_vars
  <2> SUFFICES ASSUME IndInv, Next PROVE Stable OBVIOUS
  <2> USE DEF IndInv
  <2>1. \A i \in DOMAIN backups : backups[i] \in Entry BY DEF TypeOK
  <2>2. CASE UNCHANGED backups BY <2>2 DEF Stable
  <2>3. CASE ReapChildren
    <3> DEFINE zombies == {w \in Workers : stage[w] = "zombie"}
    <3>1. /\ DOMAIN backups' = DOMAIN backups
          /\ \A i \in DOMAIN backups :
               backups'[i] = IF backups[i].active /\ backups[i].pid \in zombies
                             THEN Ended(backups[i]) ELSE backups[i]
      BY <2>3, ReapType DEF ReapChildren, EndEntriesOf
    <3> QED BY <2>1, <3>1 DEF Stable, Ended, Entry
  <2>4. CASE AddRegister
    <3> DEFINE e == [src |-> cmd.src, dst |-> Head(cmd.todo), pid |-> forked, active |-> TRUE]
    <3>1. backups' = Append(backups, e) BY <2>4 DEF AddRegister
    <3> HIDE DEF e
    <3> QED BY <3>1 DEF TypeOK, Stable
  <2>5. CASE WaitReaps \/ WaitInterrupted
    <3>1. backups' = [backups EXCEPT ![cur] = Ended(@)] /\ backups[cur].active
      BY <2>5 DEF WaitReaps, WaitInterrupted, AfterWait, WaitingInv
    <3> QED BY <2>1, <3>1 DEF TypeOK, Stable, Ended, Entry
  <2>6. ASSUME NEW w \in Workers, WorkerStep(w) \/ FsEvent(w) PROVE UNCHANGED backups
    BY <2>6 DEF WorkerStep, Install, Start, StartFails, CopyDone, Watch, WatchFails,
       LoopExits, LoopAgain, EnterRead, ReadRootGone, FsEvent, Goes, Exits, Die, HandleEvents,
       parent
  <2>7. CASE \/ EnterFgets \/ CommandDone \/ InvalidTarget \/ TargetNotEmpty \/ AddRefused
             \/ (\E w \in Workers : AddFork(w))
             \/ AddNoMemory \/ NothingToEnd \/ KillAndWait \/ RestoreEnded \/ RestoreDone
             \/ KillAll \/ WaitNext \/ Finish \/ Exit
    BY <2>2, <2>7 DEF EnterFgets, CommandDone, InvalidTarget, TargetNotEmpty, AddRefused, Skip,
       AddFork, AddNoMemory,
       NothingToEnd, KillAndWait, RestoreEnded, RestoreDone, KillAll, WaitNext, Finish, Exit
  <2>8. CASE LoopTop \/ List BY <2>2, <2>3, <2>8 DEF LoopTop, List
  <2>9. ASSUME \/ SendTerm \/ SendInt
               \/ \E s \in Sources : RemoveSource(s) \/ MakeSource(s)
        PROVE  UNCHANGED backups
    BY <2>9 DEF SendTerm, SendInt, RemoveSource, MakeSource, parent
  <2>10. ASSUME NEW op, NEW s, NEW todo, ReadCommand(op, s, todo) PROVE UNCHANGED backups
    BY <2>10 DEF ReadCommand
  <2> QED BY <2>2, <2>4, <2>5, <2>6, <2>7, <2>8, <2>9, <2>10
      DEF Next, ParentStep, User, Input
<1>2. [Stable]_vars =>
        [\A i \in DOMAIN backups :
           /\ i \in DOMAIN backups'
           /\ backups'[i].src = backups[i].src /\ backups'[i].dst = backups[i].dst
           /\ ~backups[i].active => backups'[i] = backups[i]]_vars
  BY DEF Stable
<1> QED BY <1>1, <1>2, Invariance, PTL DEF Spec, EntriesStay

-----------------------------------------------------------------------------
(* BackupSupervisor implements BackupService.                              *)

\* The variables of the service.
ServiceVars == <<Serves, Writing, intr, abandoned, unlisted, Open>>

Step == Service!Next \/ UNCHANGED ServiceVars

-----------------------------------------------------------------------------
\* A step that changes no life and no pair changes nothing of who serves what.
LEMMA SameLifeServes == ASSUME SameLife PROVE Serves' = Serves
BY DEF SameLife, Serves, IsLive

\* A supervisor that is not at a restore before or after the step writes nothing.
LEMMA NoWriting ==
  ASSUME pc # "restoring", pc' # "restoring" PROVE Writing' = Writing
BY DEF Writing

\* What a worker serves.
LEMMA ServesValue ==
  ASSUME NEW w \in Workers
  PROVE  /\ IsLive(w) => Serves[w] = {pair[w]}
         /\ ~IsLive(w) => Serves[w] = {}
         /\ Serves[w] # {} <=> IsLive(w)
BY DEF Serves

\* A worker moves between live stages, or the user touches a source.
LEMMA GoesStep ==
  ASSUME IndInv, NEW w \in Workers, NEW from \in Live, NEW to \in Live, Goes(w, from, to)
  PROVE  UNCHANGED ServiceVars
<1>1. SameLife
  BY DEF IndInv, TypeOK, Goes, SameLife, parent, history, Live, Watched
<1>2. UNCHANGED <<pc, cmd, intr, abandoned, unlisted>> BY DEF Goes, parent, history
<1> QED BY <1>1, <1>2, SameLifeServes DEF ServiceVars, Writing, Open

\* A worker exits: it ends, and its SIGCHLD may be the one that interrupts.
LEMMA ExitsStep ==
  ASSUME IndInv, NEW w \in Workers, NEW from \in SUBSET Live, Exits(w, from)
  PROVE  Service!End(w)
<1>1. /\ stage[w] \in Live /\ stage' = [stage EXCEPT ![w] = "zombie"]
      /\ abandoned' = abandoned \ {w} /\ unlisted' = unlisted \ {w}
      /\ UNCHANGED <<pair, cmd>> /\ intr' \in {intr, TRUE}
      /\ pc' = pc \/ (pc = "prompt" /\ pc' = "top")
  BY DEF IndInv, TypeOK, Exits, Die, InterruptParent
<1>2. \A v \in Workers : IsLive(v)' <=> IsLive(v) /\ v # w
  BY <1>1 DEF IndInv, TypeOK, IsLive, Live, Watched
<1>3. Serves' = [Serves EXCEPT ![w] = {}]  BY <1>1, <1>2 DEF Serves
<1>4. Serves[w] # {}  BY <1>1 DEF Serves, IsLive
<1>5. Writing' = Writing /\ Open' = Open  BY <1>1 DEF Writing, Open
<1> QED BY <1>1, <1>3, <1>4, <1>5 DEF Service!End

\* The steps of a worker and the change that it reads.
LEMMA WorkerServes ==
  ASSUME IndInv, NEW w \in Workers, WorkerStep(w) \/ FsEvent(w) PROVE Step
<1>1. ASSUME NEW from \in Live, NEW to \in Live, Goes(w, from, to) PROVE Step
  BY <1>1, GoesStep DEF Step
<1>2. ASSUME NEW from \in SUBSET Live, Exits(w, from) PROVE Step
  BY <1>2, ExitsStep DEF Step, Service!Next
<1>3. CASE HandleEvents(w)
  <2>1. SameLife
    BY <1>3 DEF IndInv, TypeOK, HandleEvents, SameLife, parent, history, Live, Watched
  <2>2. UNCHANGED <<pc, cmd, intr, abandoned, unlisted>>
    BY <1>3 DEF HandleEvents, parent, history
  <2> QED BY <2>1, <2>2, SameLifeServes DEF Step, ServiceVars, Writing, Open
<1> QED BY <1>1, <1>2, <1>3 DEF WorkerStep, Install, Start, StartFails, CopyDone, Watch,
     WatchFails, LoopExits, LoopAgain, EnterRead, ReadRootGone, FsEvent, Live, Watched

\* SIGINT, SIGTERM, the sources and the lines the user types.
LEMMA UserServes ==
  ASSUME IndInv,
         \/ SendTerm \/ SendInt \/ Exit
         \/ \E s \in Sources : RemoveSource(s) \/ MakeSource(s)
         \/ \E op \in {"add", "end", "restore"}, s \in Sources, todo \in Todos :
              ReadCommand(op, s, todo)
  PROVE  Step
<1>1. CASE SendTerm \/ SendInt
  <2>1. SameLife
    BY <1>1 DEF IndInv, TypeOK, SendTerm, SendInt, SameLife, worker, history, Live, Watched
  <2>2. /\ UNCHANGED <<cmd, abandoned, unlisted>> /\ intr' \in {intr, TRUE} /\ pc # "done"
        /\ pc' = pc \/ (pc = "prompt" /\ pc' = "top")
    BY <1>1 DEF IndInv, TypeOK, SendTerm, SendInt, InterruptParent, history
  <2>3. Serves' = Serves /\ Writing' = Writing /\ Open' = Open /\ Open
    BY <2>1, <2>2, SameLifeServes DEF Writing, Open
  <2>4. CASE intr' = intr  BY <2>2, <2>3, <2>4 DEF Step, ServiceVars
  <2>5. CASE intr' = TRUE  BY <2>2, <2>3, <2>5 DEF Step, Service!Next, Service!Signal
  <2> QED BY <2>2, <2>4, <2>5
<1>2. CASE \E s \in Sources : RemoveSource(s) \/ MakeSource(s)
  <2>1. UNCHANGED <<stage, pair, pc, cmd, intr, abandoned, unlisted>>
    BY <1>2 DEF RemoveSource, MakeSource, parent, worker, history
  <2> QED BY <2>1 DEF Step, ServiceVars, Serves, IsLive, Writing, Open
<1>3. CASE \/ Exit
           \/ \E op \in {"add", "end", "restore"}, s \in Sources, todo \in Todos :
                ReadCommand(op, s, todo)
  <2>1. /\ UNCHANGED <<stage, pair, intr, abandoned, unlisted>>
        /\ pc = "prompt" /\ pc' \in {"killing", "command", "top"}
    BY <1>3 DEF Exit, ReadCommand, outside, worker, history
  <2> QED BY <2>1 DEF Step, ServiceVars, Serves, IsLive, Writing, Open
<1> QED BY <1>1, <1>2, <1>3

-----------------------------------------------------------------------------
\* Steps of the parent that the service does not see.
LEMMA QuietStep ==
  ASSUME IndInv,
         \/ LoopTop \/ List \/ EnterFgets \/ CommandDone
         \/ InvalidTarget \/ TargetNotEmpty \/ AddRefused \/ NothingToEnd
         \/ AddRegister \/ KillAndWait \/ KillAll \/ WaitNext
  PROVE  UNCHANGED ServiceVars
<1>1. CASE LoopTop \/ List
  <2>1. /\ UNCHANGED <<pair, intr, abandoned, unlisted>>
        /\ pc \in {"top", "prompt"} /\ pc' \in {"killing", "ready", "top"}
    BY <1>1 DEF LoopTop, List, history
  <2>2. \A w \in Workers : IsLive(w)' <=> IsLive(w)
    BY <1>1 DEF IndInv, TypeOK, LoopTop, List, ReapChildren, IsLive, Live, Watched
  <2> QED BY <2>1, <2>2 DEF ServiceVars, Serves, Writing, Open
<1>2. CASE EnterFgets \/ CommandDone \/ AddRegister \/ WaitNext
  <2>1. /\ UNCHANGED <<stage, pair, intr, abandoned, unlisted>>
        /\ pc \notin {"restoring", "done"} /\ pc' \notin {"restoring", "done"}
    BY <1>2 DEF EnterFgets, CommandDone, AddRegister, WaitNext, outside, worker, history
  <2> QED BY <2>1 DEF ServiceVars, Serves, IsLive, Writing, Open
<1>3. CASE InvalidTarget \/ TargetNotEmpty \/ AddRefused \/ NothingToEnd
  <2>1. UNCHANGED <<stage, pair, intr, abandoned, unlisted, pc>> /\ pc = "command"
    BY <1>3 DEF InvalidTarget, TargetNotEmpty, AddRefused, NothingToEnd, Skip, Doing, outside,
       worker, history
  <2> QED BY <2>1 DEF ServiceVars, Serves, IsLive, Writing, Open
<1>4. CASE KillAndWait \/ KillAll
  <2>1. PICK ws : Terminate(ws) BY <1>4 DEF KillAndWait, KillAll
  <2>2. /\ UNCHANGED <<pair, intr, abandoned, unlisted>>
        /\ pc \in {"command", "killing"} /\ pc' \in {"waiting", "draining"}
    BY <1>4 DEF KillAndWait, KillAll, Doing
  <2>3. \A w \in Workers : IsLive(w)' <=> IsLive(w)
    BY <2>1, TerminateSameLife DEF IndInv, IsLive
  <2> QED BY <2>2, <2>3 DEF ServiceVars, Serves, Writing, Open
<1> QED BY <1>1, <1>2, <1>3, <1>4

\* fork: the pair of the child has no worker that is still in somebody's care.
LEMMA ForkStep ==
  ASSUME IndInv, OneWorkerPerPair', NEW w \in Workers, AddFork(w)
  PROVE  Service!Begin(w, <<cmd.src, Head(cmd.todo)>>)
<1> DEFINE p == <<cmd.src, Head(cmd.todo)>>
<1>1. /\ UNCHANGED <<intr, abandoned, unlisted>>
      /\ stage[w] = "none" /\ stage' = [stage EXCEPT ![w] = "forked"]
      /\ pair' = [pair EXCEPT ![w] = p]
      /\ pc = "command" /\ pc' = "spawned"
  BY DEF AddFork, Doing, history
<1>2. /\ ~IsLive(w) /\ w \notin unlisted
      /\ IsLive(w)' /\ pair'[w] = p
      /\ \A v \in Workers \ {w} : (IsLive(v)' <=> IsLive(v)) /\ pair'[v] = pair[v]
  BY <1>1 DEF IndInv, TypeOK, AbandonedInv, IsLive, Live, Watched
<1> HIDE DEF p
<1>3. Serves[w] = {} /\ Serves' = [Serves EXCEPT ![w] = {p}]
  BY <1>1, <1>2 DEF Serves
<1>4. Service!WorkersOf(p) \subseteq unlisted
  <2> SUFFICES ASSUME NEW v \in Workers, p \in Serves[v] PROVE v \in unlisted
    BY DEF Service!WorkersOf
  <2>1. IsLive(v) /\ pair[v] = p /\ v # w BY <1>3 DEF Serves
  <2>2. IsLive(v)' /\ pair'[v] = p BY <1>2, <2>1
  <2> QED BY <1>1, <1>2, <2>1, <2>2 DEF OneWorkerPerPair
<1>5. Writing = {} /\ Writing' = {} /\ Open /\ Open' BY <1>1 DEF Writing, Open
<1>6. Service!Begin(w, p)
  BY <1>1, <1>3, <1>4, <1>5 DEF Service!Begin
<1> QED BY <1>6 DEF p

\* The child that could not be listed is out of care, if it lives.
LEMMA NoMemoryStep == ASSUME IndInv, AddNoMemory PROVE Step
<1>1. /\ UNCHANGED <<pair, intr, abandoned>> /\ forked \in Workers
      /\ unlisted' = unlisted \cup {w \in Workers : w = forked /\ IsLive(w)}
      /\ pc = "spawned" /\ pc' = "command"
  BY DEF AddNoMemory, IndInv, TypeOK, SpawnedInv
<1>2. \A w \in Workers : IsLive(w)' <=> IsLive(w)
  BY TerminateSameLife DEF AddNoMemory, IndInv, IsLive
<1>3. Serves' = Serves /\ Writing' = Writing /\ Open' = Open
  BY <1>1, <1>2 DEF Serves, Writing, Open
<1>4. CASE IsLive(forked)
  <2>1. unlisted' = unlisted \cup {forked} BY <1>1, <1>4
  <2>2. Service!Unlist(forked) BY <1>1, <1>3, <1>4, <2>1, ServesValue DEF Service!Unlist
  <2> QED BY <1>1, <2>2 DEF Step, Service!Next
<1>5. CASE ~IsLive(forked)
  <2>1. unlisted' = unlisted BY <1>1, <1>5
  <2> QED BY <1>1, <1>3, <2>1 DEF Step, ServiceVars
<1> QED BY <1>4, <1>5

-----------------------------------------------------------------------------
\* Entering a restore, at once or after a wait that ended well or not: the pair has been
\* left by every worker but those the service gives up.
LEMMA EnterRestore ==
  ASSUME IndInv, RestoreExclusive', pc \notin {"restoring", "done"}, pc' = "restoring",
         cmd.todo # <<>>, UNCHANGED <<cmd, Serves, unlisted>>,
         Service!WaitReturns \/ UNCHANGED <<intr, abandoned>>
  PROVE  Service!Next
<1> DEFINE p == <<cmd.src, Head(cmd.todo)>>
<1>1. p \in Sources \X Targets
  BY NextTargetType DEF Commands, IndInv, TypeOK
<1>2. \A w \in Workers : p \in Serves'[w] => w \in abandoned' \cup unlisted'
  <2> SUFFICES ASSUME NEW w \in Workers, p \in Serves'[w]
               PROVE  w \in abandoned' \cup unlisted'
    OBVIOUS
  <2>1. IsLive(w)' /\ pair'[w] = p BY DEF Serves
  <2> QED BY <2>1 DEF RestoreExclusive
<1>3. Service!WorkersOf(p) \subseteq abandoned' \cup unlisted
  BY <1>2 DEF Service!WorkersOf
<1>4. Writing = {} /\ Writing' = {p} /\ Open /\ Open' BY DEF Writing, Open
<1> HIDE DEF p
<1>5. Service!StartRestore(p)
  BY <1>3, <1>4 DEF Service!StartRestore
<1> QED BY <1>1, <1>5 DEF Service!Next

\* waitpid returned in the parent, with the child or with EINTR.
LEMMA WaitStep ==
  ASSUME IndInv, RestoreExclusive', WaitReaps \/ WaitInterrupted PROVE Step
<1>1. /\ pc = "waiting" /\ pc' \in {"command", "restoring", "draining"}
      /\ UNCHANGED <<pair, unlisted>> /\ intr' = FALSE
      /\ pc' = "restoring" => cmd' = cmd /\ cmd.todo # <<>>
  BY DEF WaitReaps, WaitInterrupted, AfterWait, IndInv, WaitingInv
<1>2. \A w \in Workers : IsLive(w)' <=> IsLive(w)
  BY DEF IndInv, TypeOK, WaitReaps, WaitInterrupted, IsLive, Live, Watched
<1>3. Serves' = Serves BY <1>1, <1>2 DEF Serves
<1>4. Service!WaitReturns
  <2>1. CASE WaitReaps BY <1>1, <2>1 DEF WaitReaps, Service!WaitReturns
  <2>2. CASE WaitInterrupted
    <3> DEFINE w == backups[cur].pid
    <3>1. w \in Workers
      BY <1>1 DEF IndInv, WaitingInv, PidsAreOurs
    <3>2. intr /\ abandoned' = abandoned \cup {v \in Workers : v = w /\ IsLive(v)}
      BY <2>2 DEF WaitInterrupted
    <3>3. CASE IsLive(w)
      <4>1. abandoned' = abandoned \cup {w} BY <3>1, <3>2, <3>3
      <4> QED BY <1>1, <3>1, <3>2, <3>3, <4>1, ServesValue DEF Service!WaitReturns
    <3>4. CASE ~IsLive(w)
      <4>1. abandoned' = abandoned BY <3>2, <3>4
      <4> QED BY <1>1, <4>1 DEF Service!WaitReturns
    <3> QED BY <3>3, <3>4
  <2> QED BY <2>1, <2>2
<1>5. CASE pc' = "restoring"
  <2>1. Service!Next BY <1>1, <1>3, <1>4, <1>5, EnterRestore
  <2> QED BY <2>1 DEF Step
<1>6. CASE pc' # "restoring"
  <2>1. Writing' = Writing /\ Open' = Open BY <1>1, <1>6 DEF Writing, Open
  <2> QED BY <1>1, <1>3, <1>4, <2>1 DEF Step, Service!Next, Service!Wait
<1> QED BY <1>5, <1>6

\* A restore begins without a wait, or ends.
LEMMA RestoreStep ==
  ASSUME IndInv, RestoreExclusive', RestoreEnded \/ RestoreDone PROVE Step
<1>1. UNCHANGED <<Serves, intr, abandoned, unlisted>>
  BY DEF RestoreEnded, RestoreDone, outside, worker, history, Serves, IsLive
<1>2. CASE RestoreEnded
  <2>1. pc = "command" /\ pc' = "restoring" /\ cmd' = cmd /\ cmd.todo # <<>>
    BY <1>2 DEF RestoreEnded, Doing
  <2>2. Service!Next BY <1>1, <2>1, EnterRestore
  <2> QED BY <2>2 DEF Step
<1>3. CASE RestoreDone
  <2>1. Writing' = {} /\ Open' = Open BY <1>3 DEF RestoreDone, Writing, Open
  <2> QED BY <1>1, <2>1 DEF Step, Service!Next, Service!FinishRestore
<1> QED BY <1>2, <1>3

\* main returns: every worker that still runs was leaked before.
LEMMA FinishStep == ASSUME IndInv, Finish PROVE Service!Close
<1>1. /\ UNCHANGED <<Serves, intr, abandoned, unlisted>> /\ pc = "draining" /\ pc' = "done"
      /\ \A i \in DOMAIN backups : ~backups[i].active
  BY DEF Finish, outside, worker, history, Serves, IsLive
<1>2. \A w \in Workers : IsLive(w) => w \in abandoned \cup unlisted
  BY <1>1, ConstantsAssumption DEF IndInv, LiveWorkersAccounted, SpawnedInv
<1>3. Writing = {} /\ Writing' = {} /\ Open' = FALSE BY <1>1 DEF Writing, Open
<1> QED BY <1>1, <1>2, <1>3, ServesValue DEF Service!Close

-----------------------------------------------------------------------------
\* The list, the waits and the handlers of the supervisor keep what the service
\* promises of the pairs.
THEOREM ImplementsService == Spec => ServiceSpec
<1>1. Init => Service!Init
  <2> SUFFICES ASSUME Init PROVE Service!Init OBVIOUS
  <2>1. \A w \in Workers : ~IsLive(w) BY DEF Init, IsLive, Live, Watched
  <2>2. Serves = [w \in Workers |-> {}] BY <2>1 DEF Serves
  <2>3. Writing = {} /\ Open = TRUE BY DEF Init, Writing, Open
  <2> QED BY <2>2, <2>3 DEF Init, Service!Init
<1>2. IndInv /\ OneWorkerPerPair' /\ RestoreExclusive' /\ [Next]_vars
        => [Service!Next]_ServiceVars
  <2> SUFFICES ASSUME IndInv, OneWorkerPerPair', RestoreExclusive', [Next]_vars
               PROVE  Step
    BY DEF Step
  <2>1. ASSUME NEW w \in Workers, WorkerStep(w) \/ FsEvent(w) PROVE Step
    BY <2>1, WorkerServes
  <2>2. CASE \/ SendTerm \/ SendInt \/ Exit
             \/ \E s \in Sources : RemoveSource(s) \/ MakeSource(s)
             \/ \E op \in {"add", "end", "restore"}, s \in Sources, todo \in Todos :
                  ReadCommand(op, s, todo)
    BY <2>2, UserServes
  <2>3. CASE \/ LoopTop \/ List \/ EnterFgets \/ CommandDone
             \/ InvalidTarget \/ TargetNotEmpty \/ AddRefused \/ NothingToEnd
             \/ AddRegister \/ KillAndWait \/ KillAll \/ WaitNext
    BY <2>3, QuietStep DEF Step
  <2>4. ASSUME NEW w \in Workers, AddFork(w) PROVE Step
    <3>1. cmd \in Commands /\ cmd.todo # <<>> BY <2>4 DEF AddFork, Doing, IndInv, TypeOK
    <3>2. <<cmd.src, Head(cmd.todo)>> \in Sources \X Targets
      BY <3>1, NextTargetType DEF Commands
    <3> QED BY <2>4, <3>2, ForkStep DEF Step, Service!Next
  <2>5. CASE AddNoMemory BY <2>5, NoMemoryStep
  <2>6. CASE WaitReaps \/ WaitInterrupted BY <2>6, WaitStep
  <2>7. CASE RestoreEnded \/ RestoreDone BY <2>7, RestoreStep
  <2>8. CASE Finish BY <2>8, FinishStep DEF Step, Service!Next
  <2>9. CASE UNCHANGED vars
    BY <2>9 DEF vars, parent, outside, worker, history, Step, ServiceVars, Serves, IsLive,
       Writing, Open
  <2> QED BY <2>1, <2>2, <2>3, <2>4, <2>5, <2>6, <2>7, <2>8, <2>9
       DEF Next, ParentStep, User, Input
<1> QED BY <1>1, <1>2, Invariance, PairsAreServedOnce, RestoreIsExclusive, PTL
    DEF Spec, ServiceSpec, Service!Spec, Service!vars, ServiceVars
=============================================================================
