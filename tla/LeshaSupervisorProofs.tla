----------------------- MODULE LeshaSupervisorProofs -----------------------
(***************************************************************************)
(* Proofs about LeshaSupervisor, for every set of sources, targets and     *)
(* worker processes and every bound: its inductive invariant, and that it  *)
(* implements BackupService.                                               *)
(***************************************************************************)
EXTENDS LeshaSupervisor, SequenceTheorems, TLAPS

-----------------------------------------------------------------------------
(* Facts about commands and entries.                                       *)

Commands == [op : {"none", "list", "add", "end", "restore"}, src : Sources, todo : Seq(Targets)]

\* The command after one target has been dealt with is a command again.
LEMMA NextTargetType ==
  ASSUME cmd \in Commands, cmd.todo # <<>>
  PROVE  /\ [cmd EXCEPT !.todo = Tail(@)] \in Commands
         /\ Head(cmd.todo) \in Targets
BY DEF Commands

\* The empty command is a command.
LEMMA NoCommandType == NoCommand \in Commands
BY ConstantsAssumption DEF NoCommand, Commands

\* A pair is not the pair of nobody.
LEMMA PairNotNoPair == ASSUME NEW s, NEW t PROVE <<s, t>> # NoPair
BY DEF NoPair

\* Active entries are entries.
LEMMA ActiveType ==
  ASSUME TypeOK, NEW i \in Active
  PROVE  /\ i \in DOMAIN backups /\ i \in Nat /\ backups[i] \in Entry /\ backups[i].active
         /\ <<backups[i].src, backups[i].dst>> # NoPair
BY PairNotNoPair DEF TypeOK, Active

-----------------------------------------------------------------------------
(* The parts of the invariant.                                             *)

ListInv == /\ UniquePairs /\ NumbersInUse /\ PidsAreWorkers /\ ActiveAreChildren
           /\ UnlistedWereLeft

\* The invariant in its parts.
LEMMA IndInvParts == IndInv <=> TypeOK /\ ListInv /\ AwaitedInv /\ LeavingInv
BY DEF IndInv, ListInv

\* A step that starts and reaps no worker and leaves the list alone; workers may die.
SameList ==
  /\ UNCHANGED <<backups, pair, left>>
  /\ \A w \in Workers : /\ stage'[w] = "none" <=> stage[w] = "none"
                        /\ stage'[w] \in Live => stage[w] \in Live

\* Such a step keeps what is said of the list.
LEMMA SameListKeeps == ASSUME IndInv, SameList PROVE ListInv'
<1> USE DEF IndInv, SameList
<1>1. UniquePairs' BY DEF UniquePairs
<1>2. NumbersInUse' BY DEF NumbersInUse
<1>3. PidsAreWorkers' BY DEF PidsAreWorkers, Active, Pid
<1>4. ActiveAreChildren' BY DEF ActiveAreChildren, Active, Pid
<1>5. UnlistedWereLeft' BY DEF UnlistedWereLeft, Active, Pid, IsLive
<1> QED BY <1>1, <1>2, <1>3, <1>4, <1>5 DEF ListInv

\* SIGTERM changes the stage of one worker at most, from life to death.
LEMMA TerminateWorker ==
  ASSUME IndInv, NEW w \in Workers, stage[w] # "none", Terminate(w)
  PROVE  /\ stage' \in [Workers -> Live \cup {"none", "zombie"}]
         /\ requested' \in [Workers -> BOOLEAN]
         /\ stage' = stage \/ (stage[w] \in Live /\ stage' = [stage EXCEPT ![w] = "zombie"])
BY DEF IndInv, TypeOK, Terminate, Live

\* The pid of an active entry is a number in use.
LEMMA ActiveInUse ==
  ASSUME IndInv, NEW i \in Active
  PROVE  Pid(i) \in Workers /\ stage[Pid(i)] # "none"
BY ActiveType DEF IndInv, PidsAreWorkers, ActiveAreChildren, NumbersInUse

-----------------------------------------------------------------------------
(* Initial states.                                                         *)

\* An empty list, no worker.
LEMMA InitInv == Init => IndInv
<1> SUFFICES ASSUME Init PROVE IndInv OBVIOUS
<1> USE ConstantsAssumption DEF Init
<1>1. TypeOK
  <2>1. signals \in 0 .. MaxSignals OBVIOUS
  <2>2. backups \in Seq(Entry) OBVIOUS
  <2>3. cmd \in Commands BY NoCommandType
  <2> QED BY <2>1, <2>2, <2>3 DEF TypeOK, Commands
<1>2. ListInv
  BY DEF ListInv, UniquePairs, NumbersInUse, PidsAreWorkers, ActiveAreChildren,
         UnlistedWereLeft, Active, IsLive, Live
<1>3. AwaitedInv /\ LeavingInv BY DEF AwaitedInv, LeavingInv
<1> QED BY <1>1, <1>2, <1>3, IndInvParts

-----------------------------------------------------------------------------
(* Steps that leave the list alone.                                        *)

\* A worker moves, and may die.
LEMMA WorkerInv ==
  ASSUME IndInv, NEW w \in Workers, WorkerStep(w) \/ ReadEvents(w) PROVE IndInv'
<1>1. PICK to \in Live \cup {"zombie"} :
        stage[w] \in Live /\ stage' = [stage EXCEPT ![w] = to]
  BY DEF WorkerStep, ReadEvents, Sync, Watch, TestFlag, HandleEvents, SourceRemoved, WorkerAt,
         Live
<1>2. WorkerOnly
  BY DEF WorkerStep, ReadEvents, Sync, Watch, TestFlag, HandleEvents, SourceRemoved
<1> USE <1>1, <1>2 DEF WorkerOnly, parent
<1>3. TypeOK' BY DEF IndInv, TypeOK
<1>4. SameList BY DEF IndInv, TypeOK, SameList, Live
<1>5. AwaitedInv' /\ LeavingInv' BY DEF IndInv, AwaitedInv, LeavingInv, Active
<1> QED BY <1>3, <1>4, <1>5, SameListKeeps DEF IndInv, ListInv

\* What comes from outside.
LEMMA UserInv == ASSUME IndInv, User PROVE IndInv'
<1>1. CASE TypeExit
  <2>1. TypeOK' BY <1>1 DEF IndInv, TypeOK, TypeExit, worker
  <2>2. SameList BY <1>1 DEF TypeExit, worker, SameList
  <2>3. AwaitedInv' /\ LeavingInv'
    BY <1>1 DEF TypeExit, IndInv, AwaitedInv, LeavingInv
  <2> QED BY <2>1, <2>2, <2>3, SameListKeeps DEF IndInv, ListInv
<1>2. ASSUME NEW op \in {"list", "add", "end", "restore"}, NEW s \in Sources,
             NEW todo \in Todos, TypeCommand(op, s, todo)
      PROVE  IndInv'
  <2>1. todo \in Seq(Targets) /\ todo # <<>> BY ConstantsAssumption DEF Todos
  <2>2. TypeOK' BY <1>2, <2>1 DEF IndInv, TypeOK, TypeCommand, worker
  <2>3. SameList BY <1>2 DEF TypeCommand, worker, SameList
  <2>4. AwaitedInv' /\ LeavingInv'
    BY <1>2, <2>1 DEF TypeCommand, IndInv, AwaitedInv, LeavingInv
  <2> QED BY <2>2, <2>3, <2>4, SameListKeeps DEF IndInv, ListInv
<1>3. ASSUME NEW s \in Sources, RemoveSource(s) \/ RemoveSubdirectory(s) \/ MakeSource(s)
      PROVE  IndInv'
  <2>1. UNCHANGED <<parent, stage, pair, left>>
    BY <1>3 DEF RemoveSource, RemoveSubdirectory, MakeSource, worker
  <2>2. TypeOK'
    BY <1>3 DEF IndInv, TypeOK, RemoveSource, RemoveSubdirectory, MakeSource, worker, parent
  <2>3. SameList BY <2>1 DEF SameList, parent
  <2>4. AwaitedInv' /\ LeavingInv' BY <2>1 DEF parent, IndInv, AwaitedInv, LeavingInv, Active
  <2> QED BY <2>2, <2>3, <2>4, SameListKeeps DEF IndInv, ListInv
<1>4. ASSUME NEW woken \in SUBSET Workers, TermSupervisor \/ ControlC(woken) PROVE IndInv'
  <2>1. InSupervisor BY <1>4 DEF TermSupervisor, ControlC
  <2>2. \A w \in Workers : \/ stage'[w] = stage[w]
                           \/ stage[w] = "reading" /\ stage'[w] = "test"
    BY <1>4 DEF TermSupervisor, ControlC, IndInv, TypeOK
  <2>3. stage' \in [Workers -> Live \cup {"none", "zombie"}]
    BY <1>4, <2>2 DEF TermSupervisor, ControlC, IndInv, TypeOK, Live
  <2>4. requested' \in [Workers -> BOOLEAN]
    BY <1>4 DEF TermSupervisor, ControlC, IndInv, TypeOK, IsLive
  <2>5. signals' \in 0 .. MaxSignals
    <3>1. signals \in 0 .. MaxSignals /\ MaxSignals \in Nat
      BY ConstantsAssumption DEF IndInv, TypeOK
    <3>2. signals < MaxSignals /\ signals' = signals + 1 BY <2>1 DEF InSupervisor
    <3> QED BY <3>1, <3>2
  <2>6. TypeOK' BY <2>1, <2>3, <2>4, <2>5 DEF InSupervisor, IndInv, TypeOK
  <2>7. SameList BY <2>1, <2>2 DEF InSupervisor, SameList, Live
  <2>8. AwaitedInv' /\ LeavingInv'
    BY <2>1 DEF InSupervisor, IndInv, AwaitedInv, LeavingInv, Active
  <2> QED BY <2>6, <2>7, <2>8, SameListKeeps DEF IndInv, ListInv
<1> QED BY <1>1, <1>2, <1>3, <1>4 DEF User

\* The parent goes on without a worker.
LEMMA GoesOnInv ==
  ASSUME IndInv, AllDone \/ RefuseTarget \/ NothingToEnd \/ Restore PROVE IndInv'
<1>1. TypeOK'
  BY NextTargetType, NoCommandType
  DEF AllDone, RefuseTarget, NothingToEnd, Restore, Again, NextTarget, worker, IndInv, TypeOK,
      Commands
<1>2. SameList
  BY DEF AllDone, RefuseTarget, NothingToEnd, Restore, worker, SameList
<1>3. AwaitedInv' /\ LeavingInv'
  BY DEF AllDone, RefuseTarget, NothingToEnd, Restore, Again, IndInv, AwaitedInv, LeavingInv
<1> QED BY <1>1, <1>2, <1>3, SameListKeeps DEF IndInv, ListInv

\* kill: the worker of an active entry may die of it.
LEMMA StopInv == ASSUME IndInv, EndTarget \/ CleanupStop PROVE IndInv'
<1>1. PICK i \in Active : StopWorker(i)
  BY DEF EndTarget, CleanupStop
<1>2. Pid(i) \in Workers /\ stage[Pid(i)] # "none" BY ActiveInUse
<1>3. Terminate(Pid(i)) /\ awaited' = i BY <1>1 DEF StopWorker
<1>4. /\ stage' \in [Workers -> Live \cup {"none", "zombie"}]
      /\ requested' \in [Workers -> BOOLEAN]
      /\ \/ stage' = stage
         \/ stage[Pid(i)] \in Live /\ stage' = [stage EXCEPT ![Pid(i)] = "zombie"]
  BY <1>2, <1>3, TerminateWorker
<1>5. /\ UNCHANGED <<backups, exit_requested, cmd, intr, pair, gone, srcDir, signals, left>>
      /\ \/ pc = "ending" /\ pc' = "waiting" /\ cmd.todo # <<>>
         \/ pc = "cleanup" /\ pc' = "joining"
  BY DEF EndTarget, CleanupStop
<1>6. TypeOK' BY <1>3, <1>4, <1>5, ActiveType DEF IndInv, TypeOK
<1>7. SameList BY <1>2, <1>4, <1>5 DEF IndInv, TypeOK, SameList, Live
<1>8. AwaitedInv' /\ LeavingInv'
  BY <1>3, <1>5 DEF IndInv, AwaitedInv, LeavingInv, Active
<1> QED BY <1>6, <1>7, <1>8, SameListKeeps DEF IndInv, ListInv

-----------------------------------------------------------------------------
(* Steps that change the list.                                             *)

\* The list with the entry of the pair <<s, t>>, made or found, and the others as before.
WithEntry(s, t, a, w) ==
  \E k :
    /\ backups' \in Seq(Entry) /\ DOMAIN backups' = DOMAIN backups \cup {k}
    /\ backups'[k] = [src |-> s, dst |-> t, active |-> a, worker_pid |-> w]
    /\ \A j \in DOMAIN backups \ {k} :
         backups'[j] = backups[j] /\ ~(backups[j].src = s /\ backups[j].dst = t)
    /\ k \in DOMAIN backups => ~backups[k].active

\* The entry that is made or found for a pair that is not active is the only one of
\* that pair, and the others stay.
LEMMA ListedEffect ==
  ASSUME IndInv, NEW s \in Sources, NEW t \in Targets, NEW a \in BOOLEAN,
         NEW w \in Workers \cup {Nobody}, Listed(s, t, a, w), ~IsActive(s, t)
  PROVE  WithEntry(s, t, a, w)
<1> DEFINE entry == [src |-> s, dst |-> t, active |-> a, worker_pid |-> w]
<1>1. entry \in Entry BY DEF Entry
<1>2. backups \in Seq(Entry) BY DEF IndInv, TypeOK
<1>3. CASE EntryOf(s, t) = {}
  <2>1. backups' = Append(backups, entry) BY <1>3 DEF Listed
  <2> HIDE DEF entry
  <2>2. /\ backups' \in Seq(Entry) /\ DOMAIN backups' = DOMAIN backups \cup {Len(backups) + 1}
        /\ Len(backups) + 1 \notin DOMAIN backups
        /\ backups'[Len(backups) + 1] = entry
        /\ \A j \in DOMAIN backups : backups'[j] = backups[j]
    BY <1>1, <1>2, <2>1
  <2> QED BY <1>3, <2>2 DEF EntryOf, entry, WithEntry
<1>4. CASE EntryOf(s, t) # {}
  <2>1. PICK i \in EntryOf(s, t) : backups' = [backups EXCEPT ![i] = entry]
    BY <1>4 DEF Listed
  <2>2. i \in DOMAIN backups /\ backups[i].src = s /\ backups[i].dst = t /\ ~backups[i].active
    BY <2>1 DEF EntryOf, IsActive
  <2>3. \A j \in DOMAIN backups \ {i} : ~(backups[j].src = s /\ backups[j].dst = t)
    BY <2>2 DEF IndInv, UniquePairs
  <2> HIDE DEF entry
  <2>4. i \in 1 .. Len(backups) /\ DOMAIN backups = 1 .. Len(backups) BY <1>2, <2>2
  <2>5. /\ backups' \in Seq(Entry) /\ DOMAIN backups' = DOMAIN backups
        /\ backups'[i] = entry /\ \A j \in DOMAIN backups \ {i} : backups'[j] = backups[j]
    BY <1>1, <1>2, <2>1, <2>4
  <2>6. DOMAIN backups' = DOMAIN backups \cup {i} BY <2>2, <2>5
  <2> QED BY <2>2, <2>3, <2>5, <2>6 DEF entry, WithEntry
<1> QED BY <1>3, <1>4

\* fork: the number was free, the pair had no worker, and no wait was given up.
LEMMA StartInv == ASSUME IndInv, StartTarget PROVE IndInv'
<1>0. PICK s \in Sources, t \in Targets : s = cmd.src /\ t = Head(cmd.todo)
  BY NextTargetType DEF StartTarget, ForkFails, IndInv, TypeOK, Commands
<1>1. PICK w \in Workers :
        /\ stage[w] = "none" /\ stage' = [stage EXCEPT ![w] = "syncing"]
        /\ pair' = [pair EXCEPT ![w] = <<s, t>>]
        /\ requested' = [requested EXCEPT ![w] = exit_requested]
        /\ Listed(s, t, TRUE, w)
  BY <1>0 DEF StartTarget
<1>2. /\ cmd' \in Commands
      /\ UNCHANGED <<exit_requested, pc, awaited, intr, gone, srcDir, signals, left>>
      /\ pc = "adding" /\ ~IsActive(s, t)
  BY <1>0, NextTargetType DEF StartTarget, NextTarget, IndInv, TypeOK, Commands
<1>3. left = {} /\ ~intr BY <1>2 DEF IndInv, LeavingInv
<1>4. PICK k :
        /\ backups' \in Seq(Entry) /\ DOMAIN backups' = DOMAIN backups \cup {k}
        /\ backups'[k] = [src |-> s, dst |-> t, active |-> TRUE, worker_pid |-> w]
        /\ \A j \in DOMAIN backups \ {k} :
             backups'[j] = backups[j] /\ ~(backups[j].src = s /\ backups[j].dst = t)
        /\ k \in DOMAIN backups => ~backups[k].active
  <2>1. WithEntry(s, t, TRUE, w) BY <1>1, <1>2, ListedEffect
  <2> QED BY <2>1 DEF WithEntry
<1>5. /\ Active' = Active \cup {k} /\ k \notin Active
      /\ Pid(k)' = w /\ \A i \in Active : Pid(i)' = Pid(i)
  BY <1>4 DEF Active, Pid
<1>6. \A i \in Active : Pid(i) \in Workers \ {w} BY <1>1, ActiveInUse
<1>7. TypeOK' BY <1>1, <1>2, <1>4 DEF IndInv, TypeOK, Commands, Live
<1>8. UniquePairs' BY <1>4 DEF IndInv, UniquePairs
<1>9. NumbersInUse'
  BY <1>1, PairNotNoPair DEF IndInv, TypeOK, NumbersInUse
<1>10. PidsAreWorkers' BY <1>5, <1>6 DEF PidsAreWorkers
<1>11. ActiveAreChildren'
  <2>1. pair'[w] = <<s, t>> BY <1>1 DEF IndInv, TypeOK
  <2>2. \A i \in Active : pair'[Pid(i)] = pair[Pid(i)] BY <1>1, <1>6
  <2>3. \A i \in Active : i # k /\ backups'[i] = backups[i] BY <1>4, <1>5 DEF Active
  <2> QED BY <1>4, <1>5, <2>1, <2>2, <2>3 DEF IndInv, ActiveAreChildren
<1>12. UnlistedWereLeft'
  <2>1. \A v \in Workers \ {w} : IsLive(v)' <=> IsLive(v)
    BY <1>1 DEF IndInv, TypeOK, IsLive
  <2> QED BY <1>2, <1>5, <2>1 DEF IndInv, UnlistedWereLeft
<1>13. AwaitedInv' /\ LeavingInv' BY <1>2, <1>3 DEF AwaitedInv, LeavingInv
<1> QED BY <1>7, <1>8, <1>9, <1>10, <1>11, <1>12, <1>13 DEF IndInv

\* An entry that is listed without a worker.
LEMMA ForkFailsInv == ASSUME IndInv, ForkFails PROVE IndInv'
<1>0. PICK s \in Sources, t \in Targets : s = cmd.src /\ t = Head(cmd.todo)
  BY NextTargetType DEF StartTarget, ForkFails, IndInv, TypeOK, Commands
<1>1. /\ cmd' \in Commands
      /\ UNCHANGED <<exit_requested, pc, awaited, intr, worker, srcDir, signals, left>>
      /\ pc = "adding" /\ EntryOf(s, t) = {} /\ Listed(s, t, FALSE, Nobody)
  BY <1>0, NextTargetType DEF ForkFails, NextTarget, IndInv, TypeOK, Commands
<1>2. ~IsActive(s, t) BY <1>1 DEF IsActive
<1>3. PICK k :
        /\ backups' \in Seq(Entry) /\ DOMAIN backups' = DOMAIN backups \cup {k}
        /\ backups'[k] = [src |-> s, dst |-> t, active |-> FALSE, worker_pid |-> Nobody]
        /\ \A j \in DOMAIN backups \ {k} :
             backups'[j] = backups[j] /\ ~(backups[j].src = s /\ backups[j].dst = t)
        /\ k \in DOMAIN backups => ~backups[k].active
  <2>1. WithEntry(s, t, FALSE, Nobody) BY <1>1, <1>2, ListedEffect
  <2> QED BY <2>1 DEF WithEntry
<1>4. Active' = Active /\ \A i \in Active : i # k /\ backups'[i] = backups[i]
  BY <1>3 DEF Active
<1>5. TypeOK' BY <1>1, <1>3 DEF IndInv, TypeOK, Commands, worker
<1>6. UniquePairs' BY <1>3 DEF IndInv, UniquePairs
<1>7. NumbersInUse' BY <1>1 DEF worker, IndInv, NumbersInUse
<1>8. PidsAreWorkers' /\ ActiveAreChildren'
  BY <1>1, <1>4 DEF worker, IndInv, PidsAreWorkers, ActiveAreChildren, Pid
<1>9. UnlistedWereLeft' BY <1>1, <1>4 DEF worker, IndInv, UnlistedWereLeft, Pid, IsLive
<1>10. AwaitedInv' /\ LeavingInv' BY <1>1 DEF IndInv, AwaitedInv, LeavingInv
<1> QED BY <1>5, <1>6, <1>7, <1>8, <1>9, <1>10 DEF IndInv

\* The wait for an active entry returns, with the child or with EINTR, and the entry
\* is active no more.
LEMMA JoinInv == ASSUME IndInv, WorkerEnded \/ CleanupJoin PROVE IndInv'
<1>0. PICK w \in Workers : w = Pid(awaited) /\ stage[w] # "none"
  BY ActiveInUse DEF WorkerEnded, CleanupJoin, IndInv, AwaitedInv
<1>1. /\ awaited \in Active /\ WaitReturns(w) /\ Deactivate(awaited)
      /\ UNCHANGED exit_requested
      /\ \/ pc = "waiting" /\ pc' = "ending" /\ cmd.todo # <<>> /\ NextTarget
         \/ pc = "joining" /\ pc' = "cleanup" /\ UNCHANGED cmd
      /\ awaited' = 0 /\ intr' = FALSE /\ UNCHANGED <<srcDir, signals>>
  BY <1>0 DEF WorkerEnded, CleanupJoin, WaitReturns, IndInv, AwaitedInv
<1>2. w \in Workers /\ stage[w] # "none" BY <1>0
<1>3. /\ awaited \in DOMAIN backups /\ backups' \in Seq(Entry)
      /\ DOMAIN backups' = DOMAIN backups
      /\ \A i \in DOMAIN backups :
           /\ backups'[i].src = backups[i].src /\ backups'[i].dst = backups[i].dst
           /\ backups'[i].worker_pid = backups[i].worker_pid
           /\ backups'[i].active <=> backups[i].active /\ i # awaited
  <2>1. awaited \in DOMAIN backups /\ \A i \in DOMAIN backups : backups[i] \in Entry
    BY <1>1 DEF Active, IndInv, TypeOK
  <2>2. [backups[awaited] EXCEPT !.active = FALSE] \in Entry BY <2>1 DEF Entry
  <2>3. backups' = [backups EXCEPT ![awaited] = [backups[awaited] EXCEPT !.active = FALSE]]
    BY <1>1, <2>1 DEF Deactivate
  <2>4. \A i \in DOMAIN backups :
          backups'[i] = IF i = awaited THEN [backups[awaited] EXCEPT !.active = FALSE]
                                       ELSE backups[i]
    BY <2>3
  <2>5. [backups[awaited] EXCEPT !.active = FALSE].src = backups[awaited].src
        /\ [backups[awaited] EXCEPT !.active = FALSE].dst = backups[awaited].dst
        /\ [backups[awaited] EXCEPT !.active = FALSE].worker_pid = backups[awaited].worker_pid
        /\ [backups[awaited] EXCEPT !.active = FALSE].active = FALSE
    BY <2>1 DEF Entry
  <2>6. backups' \in Seq(Entry) /\ DOMAIN backups' = DOMAIN backups
    BY <2>1, <2>2, <2>3 DEF IndInv, TypeOK
  <2> QED BY <2>1, <2>4, <2>5, <2>6
<1>4. Active' = Active \ {awaited} /\ \A i \in Active : Pid(i)' = Pid(i)
  BY <1>3 DEF Active, Pid
<1>5. /\ stage' \in [Workers -> Live \cup {"none", "zombie"}]
      /\ pair' \in [Workers -> (Sources \X Targets) \cup {NoPair}]
      /\ requested' \in [Workers -> BOOLEAN]
      /\ gone' \in [Workers -> {"nothing", "subdirectory", "source"}]
      /\ left' \subseteq Workers
  BY <1>1, <1>2 DEF WaitReturns, IndInv, TypeOK, worker
<1>6. cmd' \in Commands
  BY <1>1, NextTargetType DEF NextTarget, IndInv, TypeOK, Commands
<1>7. /\ \A v \in Workers \ {w} : stage'[v] = stage[v] /\ pair'[v] = pair[v]
                                  /\ (v \in left' <=> v \in left)
      /\ stage'[w] = "none" <=> pair'[w] = NoPair
      /\ IsLive(w)' => w \in left'
  BY <1>1, <1>2 DEF WaitReturns, IndInv, TypeOK, NumbersInUse, worker, IsLive, Live
<1>8. \A i \in Active \ {awaited} : Pid(i) # w
  <2> SUFFICES ASSUME NEW i \in Active, Pid(i) = w PROVE i = awaited
    OBVIOUS
  <2>1. <<backups[i].src, backups[i].dst>> = <<backups[awaited].src, backups[awaited].dst>>
    BY <1>0, <1>1 DEF IndInv, ActiveAreChildren
  <2>2. backups[i].src = backups[awaited].src /\ backups[i].dst = backups[awaited].dst
    BY <2>1
  <2> QED BY <1>1, <2>2 DEF IndInv, UniquePairs, Active
<1>9. TypeOK' BY <1>1, <1>3, <1>5, <1>6 DEF IndInv, TypeOK, Commands
<1>10. UniquePairs' BY <1>3 DEF IndInv, UniquePairs
<1>11. NumbersInUse' BY <1>2, <1>7 DEF IndInv, NumbersInUse
<1>12. PidsAreWorkers' BY <1>4 DEF IndInv, PidsAreWorkers
<1>13. ActiveAreChildren'
  <2>1. \A i \in Active' : /\ i \in Active /\ Pid(i) \in Workers \ {w}
                           /\ backups'[i].src = backups[i].src
                           /\ backups'[i].dst = backups[i].dst
    BY <1>3, <1>4, <1>8 DEF IndInv, PidsAreWorkers, Active
  <2>2. \A i \in Active' : pair'[Pid(i)'] = pair[Pid(i)] BY <1>4, <1>7, <2>1
  <2> QED BY <2>1, <2>2 DEF IndInv, ActiveAreChildren
<1>14. UnlistedWereLeft'
  <2> SUFFICES ASSUME NEW v \in Workers, IsLive(v)', v \notin left'
               PROVE  \E i \in Active' : Pid(i)' = v
    BY DEF UnlistedWereLeft
  <2>1. v # w BY <1>7
  <2>2. IsLive(v) /\ v \notin left BY <1>7, <2>1 DEF IsLive
  <2>3. PICK i \in Active : Pid(i) = v BY <2>2 DEF IndInv, UnlistedWereLeft
  <2>4. i # awaited BY <1>0, <2>1, <2>3
  <2> QED BY <1>4, <2>3, <2>4
<1>15. AwaitedInv' BY <1>1 DEF AwaitedInv
<1>16. LeavingInv'
  BY <1>1 DEF WaitReturns, IndInv, LeavingInv
<1> QED BY <1>9, <1>10, <1>11, <1>12, <1>13, <1>14, <1>15, <1>16 DEF IndInv

\* main returns with the list freed: nothing was active.
LEMMA ReturnInv == ASSUME IndInv, Return PROVE IndInv'
<1>1. /\ pc = "cleanup" /\ pc' = "done" /\ Active = {} /\ backups' = <<>>
      /\ UNCHANGED <<exit_requested, cmd, awaited, intr, worker, srcDir, signals, left>>
  BY DEF Return
<1>2. Active' = {} /\ DOMAIN backups' = {} BY <1>1 DEF Active
<1>3. TypeOK' BY <1>1 DEF IndInv, TypeOK, worker
<1>4. ListInv'
  BY <1>1, <1>2 DEF IndInv, ListInv, UniquePairs, NumbersInUse, PidsAreWorkers, ActiveAreChildren,
     UnlistedWereLeft, IsLive, worker
<1>5. AwaitedInv' /\ LeavingInv' BY <1>1 DEF IndInv, AwaitedInv, LeavingInv
<1> QED BY <1>3, <1>4, <1>5 DEF IndInv, ListInv

-----------------------------------------------------------------------------
(* The invariant, and what follows from it.                                *)

\* Every step keeps the invariant.
LEMMA NextInv == IndInv /\ [Next]_vars => IndInv'
<1> SUFFICES ASSUME IndInv, [Next]_vars PROVE IndInv' OBVIOUS
<1>1. CASE AllDone \/ RefuseTarget \/ NothingToEnd \/ Restore BY <1>1, GoesOnInv
<1>2. CASE StartTarget BY <1>2, StartInv
<1>3. CASE ForkFails BY <1>3, ForkFailsInv
<1>4. CASE EndTarget \/ CleanupStop BY <1>4, StopInv
<1>5. CASE WorkerEnded \/ CleanupJoin BY <1>5, JoinInv
<1>6. CASE Return BY <1>6, ReturnInv
<1>7. CASE User BY <1>7, UserInv
<1>8. ASSUME NEW w \in Workers, WorkerStep(w) \/ ReadEvents(w) PROVE IndInv'
  BY <1>8, WorkerInv
<1>9. CASE UNCHANGED vars
  <2>1. TypeOK' BY <1>9 DEF vars, parent, worker, IndInv, TypeOK
  <2>2. SameList BY <1>9 DEF vars, parent, worker, SameList
  <2>3. AwaitedInv' /\ LeavingInv'
    BY <1>9 DEF vars, parent, worker, IndInv, AwaitedInv, LeavingInv, Active
  <2> QED BY <2>1, <2>2, <2>3, SameListKeeps DEF IndInv, ListInv
<1> QED BY <1>1, <1>2, <1>3, <1>4, <1>5, <1>6, <1>7, <1>8, <1>9 DEF Next, ParentStep

\* The inductive invariant holds in every reachable state (the whole of main.c's
\* command loop, its workers and its cleanup).
THEOREM Invariance == Spec => []IndInv
BY InitInv, NextInv, PTL DEF Spec

\* Every variable keeps its type.
THEOREM TypeCorrectness == Spec => []TypeOK
<1>1. IndInv => TypeOK BY DEF IndInv
<1> QED BY <1>1, Invariance, PTL

\* kill and waitpid (stop_worker, cleanup) meet a child of the entry's own pair that
\* was not reaped.
THEOREM ActivesAreOwnChildren == Spec => []ActiveAreChildren
<1>1. IndInv => ActiveAreChildren BY DEF IndInv
<1> QED BY <1>1, Invariance, PTL

\* A worker that runs is in an active entry, or a signal cut short the waitpid for it.
THEOREM NoOtherLeak == Spec => []UnlistedWereLeft
<1>1. IndInv => UnlistedWereLeft BY DEF IndInv
<1> QED BY <1>1, Invariance, PTL

-----------------------------------------------------------------------------
(* The supervisor implements BackupService.                                *)

\* The variables of the service.
ServiceVars == <<Serves, Writing, intr, Overdue, {}, Open>>

ServiceStep == Service!Next \/ UNCHANGED ServiceVars

\* What a worker serves.
LEMMA ServesValue ==
  ASSUME NEW w \in Workers
  PROVE  /\ IsLive(w) => Serves[w] = {pair[w]}
         /\ ~IsLive(w) => Serves[w] = {}
         /\ Serves[w] # {} <=> IsLive(w)
BY DEF Serves

\* A step that changes no life changes nothing of who serves what or was given up.
SameLife == UNCHANGED <<pair, left>> /\ \A w \in Workers : IsLive(w)' <=> IsLive(w)

LEMMA SameLifeServes ==
  ASSUME IndInv, SameLife PROVE Serves' = Serves /\ Overdue' = Overdue
<1>1. left \subseteq Workers BY DEF IndInv, TypeOK
<1> QED BY <1>1 DEF SameLife, Serves, Overdue

\* A worker dies, by itself or of SIGTERM.
LEMMA DeathStep ==
  ASSUME IndInv, NEW w \in Workers, stage[w] \in Live, stage' = [stage EXCEPT ![w] = "zombie"],
         UNCHANGED <<pair, left, intr, Writing, Open>>
  PROVE  Service!End(w)
<1>1. \A v \in Workers : IsLive(v)' <=> IsLive(v) /\ v # w
  BY DEF IndInv, TypeOK, IsLive, Live
<1>2. left \subseteq Workers BY DEF IndInv, TypeOK
<1>3. Serves' = [Serves EXCEPT ![w] = {}] BY <1>1 DEF Serves
<1>4. Overdue' = Overdue \ {w} BY <1>1, <1>2 DEF Overdue
<1>5. Serves[w] # {} BY ServesValue DEF IsLive
<1> QED BY <1>3, <1>4, <1>5 DEF Service!End

\* The steps of a worker.
LEMMA WorkerServes ==
  ASSUME IndInv, NEW w \in Workers, WorkerStep(w) \/ ReadEvents(w) PROVE ServiceStep
<1>1. PICK to \in Live \cup {"zombie"} :
        stage[w] \in Live /\ stage' = [stage EXCEPT ![w] = to]
  BY DEF WorkerStep, ReadEvents, Sync, Watch, TestFlag, HandleEvents, SourceRemoved, WorkerAt,
         Live
<1>2. UNCHANGED <<pair, left, intr, pc, cmd>>
  BY DEF WorkerStep, ReadEvents, Sync, Watch, TestFlag, HandleEvents, SourceRemoved, WorkerOnly,
         parent
<1>3. UNCHANGED <<Writing, Open>> BY <1>2 DEF Writing, Open
<1>4. CASE to = "zombie"
  <2>1. Service!End(w) BY <1>1, <1>2, <1>3, <1>4, DeathStep
  <2> QED BY <2>1 DEF ServiceStep, Service!Next
<1>5. CASE to \in Live
  <2>1. SameLife BY <1>1, <1>2, <1>5 DEF IndInv, TypeOK, SameLife, IsLive
  <2> QED BY <1>2, <1>3, <2>1, SameLifeServes DEF ServiceStep, ServiceVars
<1> QED BY <1>1, <1>4, <1>5

\* What comes from outside: a restore may begin, a signal may interrupt a wait.
LEMMA UserServes == ASSUME IndInv, User PROVE ServiceStep
<1>1. CASE TypeExit
  <2>1. /\ UNCHANGED <<stage, pair, left, intr>> /\ pc = "prompt" /\ pc' = "cleanup"
    BY <1>1 DEF TypeExit, worker
  <2> QED BY <2>1 DEF ServiceStep, ServiceVars, Serves, IsLive, Writing, Overdue, Open
<1>2. ASSUME NEW op \in {"list", "add", "end", "restore"}, NEW s \in Sources,
             NEW todo \in Todos, TypeCommand(op, s, todo)
      PROVE  ServiceStep
  <2>1. /\ UNCHANGED <<stage, pair, left, intr>> /\ pc = "prompt"
    BY <1>2 DEF TypeCommand, worker
  <2>2. UNCHANGED <<Serves, Overdue>> BY <2>1 DEF Serves, Overdue, IsLive
  <2>3. CASE pc' = "restoring"
    <3>1. cmd' = [op |-> op, src |-> s, todo |-> todo] BY <1>2, <2>1, <2>3 DEF TypeCommand
    <3>2. todo \in Seq(Targets) /\ todo # <<>> BY ConstantsAssumption DEF Todos
    <3>3. PICK t \in Targets : t = Head(todo) BY <3>2
    <3>4. Writing = {} /\ Writing' = {<<s, t>>} /\ Open /\ Open'
      BY <2>1, <2>3, <3>1, <3>3 DEF Writing, Open
    <3>5. Service!StartRestore(<<s, t>>) BY <2>1, <2>2, <3>4 DEF Service!StartRestore
    <3> QED BY <3>5 DEF ServiceStep, Service!Next
  <2>4. CASE pc' # "restoring"
    <3>1. pc' # "done" BY <1>2, <2>1 DEF TypeCommand
    <3>2. UNCHANGED <<Writing, Open>> BY <2>1, <2>4, <3>1 DEF Writing, Open
    <3> QED BY <2>1, <2>2, <3>2 DEF ServiceStep, ServiceVars
  <2> QED BY <2>3, <2>4
<1>3. ASSUME NEW s \in Sources, RemoveSource(s) \/ RemoveSubdirectory(s) \/ MakeSource(s)
      PROVE  ServiceStep
  <2>1. UNCHANGED <<pc, cmd, intr, stage, pair, left>>
    BY <1>3 DEF RemoveSource, RemoveSubdirectory, MakeSource, worker, parent
  <2> QED BY <2>1 DEF ServiceStep, ServiceVars, Serves, IsLive, Writing, Overdue, Open
<1>4. ASSUME NEW woken \in SUBSET Workers, TermSupervisor \/ ControlC(woken) PROVE ServiceStep
  <2>1. InSupervisor BY <1>4 DEF TermSupervisor, ControlC
  <2>2. SameLife
    BY <1>4 DEF TermSupervisor, ControlC, InSupervisor, IndInv, TypeOK, SameLife, IsLive, Live
  <2>3. /\ pc # "done" /\ cmd' = cmd /\ intr' \in {intr, TRUE}
        /\ pc' = pc \/ (pc = "prompt" /\ pc' = "cleanup")
    BY <2>1 DEF InSupervisor, IndInv, TypeOK
  <2>4. UNCHANGED <<Serves, Overdue, Writing, Open>> /\ Open
    BY <2>2, <2>3, SameLifeServes DEF Writing, Open
  <2>5. CASE intr' = intr BY <2>4, <2>5 DEF ServiceStep, ServiceVars
  <2>6. CASE intr' = TRUE BY <2>4, <2>6 DEF ServiceStep, Service!Next, Service!Signal
  <2> QED BY <2>3, <2>5, <2>6
<1> QED BY <1>1, <1>2, <1>3, <1>4 DEF User

\* The parent goes on without a worker; a restore ends.
LEMMA GoesOnServes ==
  ASSUME IndInv, AllDone \/ RefuseTarget \/ NothingToEnd \/ Restore \/ ForkFails
  PROVE  ServiceStep
<1>1. UNCHANGED <<stage, pair, left, intr>>
  BY DEF AllDone, RefuseTarget, NothingToEnd, Restore, ForkFails, worker
<1>2. UNCHANGED <<Serves, Overdue>> BY <1>1 DEF Serves, Overdue, IsLive
<1>3. CASE Restore
  <2>1. Writing' = {} /\ Open' = Open BY <1>3 DEF Restore, Again, Writing, Open
  <2> QED BY <1>1, <1>2, <2>1 DEF ServiceStep, Service!Next, Service!FinishRestore
<1>4. CASE AllDone \/ RefuseTarget \/ NothingToEnd \/ ForkFails
  <2>1. /\ pc \in {"adding", "ending"} /\ pc' \in {pc, "prompt", "cleanup"}
    BY <1>4 DEF AllDone, RefuseTarget, NothingToEnd, ForkFails, Again
  <2>2. UNCHANGED <<Writing, Open>> BY <2>1 DEF Writing, Open
  <2> QED BY <1>1, <1>2, <2>2 DEF ServiceStep, ServiceVars
<1> QED BY <1>3, <1>4

\* kill may be the death of a worker.
LEMMA StopServes == ASSUME IndInv, EndTarget \/ CleanupStop PROVE ServiceStep
<1>1. PICK w \in Workers : stage[w] # "none" /\ Terminate(w)
  BY ActiveInUse DEF EndTarget, CleanupStop, StopWorker
<1>2. /\ UNCHANGED <<intr, pair, left>>
      /\ pc \in {"ending", "cleanup"} /\ pc' \in {"waiting", "joining"}
  BY DEF EndTarget, CleanupStop
<1>3. UNCHANGED <<Writing, Open>> BY <1>2 DEF Writing, Open
<1>4. stage' = stage \/ (stage[w] \in Live /\ stage' = [stage EXCEPT ![w] = "zombie"])
  BY <1>1, TerminateWorker
<1>5. CASE stage' = stage
  BY <1>2, <1>3, <1>5 DEF ServiceStep, ServiceVars, Serves, Overdue, IsLive
<1>6. CASE stage[w] \in Live /\ stage' = [stage EXCEPT ![w] = "zombie"]
  <2>1. Service!End(w) BY <1>2, <1>3, <1>6, DeathStep
  <2> QED BY <2>1 DEF ServiceStep, Service!Next
<1> QED BY <1>4, <1>5, <1>6

\* fork: the pair is not active, so that no worker has it.
LEMMA StartServes == ASSUME IndInv, StartTarget PROVE ServiceStep
<1>0. PICK s \in Sources, t \in Targets : s = cmd.src /\ t = Head(cmd.todo)
  BY NextTargetType DEF StartTarget, IndInv, TypeOK, Commands
<1>1. PICK w \in Workers :
        /\ stage[w] = "none" /\ stage' = [stage EXCEPT ![w] = "syncing"]
        /\ pair' = [pair EXCEPT ![w] = <<s, t>>]
  BY <1>0 DEF StartTarget
<1>2. UNCHANGED <<intr, left, pc>> /\ pc = "adding" /\ ~IsActive(s, t)
  BY <1>0 DEF StartTarget
<1>3. left = {} BY <1>2 DEF IndInv, LeavingInv
<1>4. /\ ~IsLive(w) /\ IsLive(w)' /\ pair'[w] = <<s, t>>
      /\ \A v \in Workers \ {w} : (IsLive(v)' <=> IsLive(v)) /\ pair'[v] = pair[v]
  BY <1>1 DEF IndInv, TypeOK, IsLive, Live
<1>5. Serves[w] = {} /\ Serves' = [Serves EXCEPT ![w] = {<<s, t>>}]
  BY <1>4 DEF Serves
<1>6. Service!WorkersOf(<<s, t>>) = {}
  <2> SUFFICES ASSUME NEW v \in Workers, <<s, t>> \in Serves[v] PROVE FALSE
    BY DEF Service!WorkersOf
  <2>1. IsLive(v) /\ pair[v] = <<s, t>> BY DEF Serves
  <2>2. PICK i \in Active : Pid(i) = v BY <1>3, <2>1 DEF IndInv, UnlistedWereLeft
  <2>3. <<backups[i].src, backups[i].dst>> = <<s, t>>
    BY <2>1, <2>2 DEF IndInv, ActiveAreChildren
  <2>4. backups[i].src = s /\ backups[i].dst = t BY <2>3
  <2> QED BY <1>2, <2>4 DEF IsActive, EntryOf, Active
<1>7. Overdue = {} /\ Overdue' = {} BY <1>2, <1>3 DEF Overdue
<1>8. Writing = {} /\ Writing' = {} /\ Open /\ Open' BY <1>2 DEF Writing, Open
<1>9. Service!Begin(w, <<s, t>>) BY <1>2, <1>5, <1>6, <1>7, <1>8 DEF Service!Begin
<1> QED BY <1>9 DEF ServiceStep, Service!Next

\* The wait returns.
LEMMA JoinServes == ASSUME IndInv, WorkerEnded \/ CleanupJoin PROVE ServiceStep
<1>1. PICK w \in Workers : WaitReturns(w)
  BY ActiveInUse DEF WorkerEnded, CleanupJoin, IndInv, AwaitedInv
<1>2. pc \in {"waiting", "joining"} /\ pc' \in {"ending", "cleanup"} /\ intr' = FALSE
  BY DEF WorkerEnded, CleanupJoin, WaitReturns
<1>3. UNCHANGED <<Writing, Open>> BY <1>2 DEF Writing, Open
<1>4. left \subseteq Workers BY DEF IndInv, TypeOK
<1>5. CASE stage[w] = "zombie" /\ stage' = [stage EXCEPT ![w] = "none"]
           /\ pair' = [pair EXCEPT ![w] = NoPair] /\ left' = left \ {w}
  <2>1. /\ \A v \in Workers : IsLive(v)' <=> IsLive(v)
        /\ \A v \in Workers : IsLive(v) => v # w /\ pair'[v] = pair[v]
    BY <1>5 DEF IndInv, TypeOK, IsLive, Live
  <2>2. Serves' = Serves BY <2>1 DEF Serves
  <2>3. Overdue' = Overdue BY <1>4, <1>5, <2>1 DEF Overdue
  <2> QED BY <1>2, <1>3, <2>2, <2>3 DEF ServiceStep, Service!Next, Service!Wait, Service!WaitReturns
<1>6. CASE intr /\ left' = left \cup {w} /\ UNCHANGED worker
  <2>1. UNCHANGED <<stage, pair>> BY <1>6 DEF worker
  <2>2. Serves' = Serves BY <2>1 DEF Serves, IsLive
  <2>3. Overdue' = IF IsLive(w) THEN Overdue \cup {w} ELSE Overdue
    BY <1>6, <2>1 DEF Overdue, IsLive
  <2>4. Service!WaitReturns
    BY <1>2, <1>6, <2>3, ServesValue DEF Service!WaitReturns
  <2> QED BY <1>3, <2>2, <2>4 DEF ServiceStep, Service!Next, Service!Wait
<1> QED BY <1>1, <1>5, <1>6 DEF WaitReturns

\* main returns: a worker that still runs was given up before.
LEMMA ReturnServes == ASSUME IndInv, Return PROVE ServiceStep
<1>1. /\ UNCHANGED <<stage, pair, left, intr>> /\ pc = "cleanup" /\ pc' = "done" /\ Active = {}
  BY DEF Return, worker
<1>2. UNCHANGED <<Serves, Overdue>> BY <1>1 DEF Serves, Overdue, IsLive
<1>3. \A w \in Workers : Serves[w] # {} => w \in Overdue
  BY <1>1, ServesValue DEF IndInv, UnlistedWereLeft, Overdue
<1>4. Writing = {} /\ Writing' = {} /\ Open' = FALSE BY <1>1 DEF Writing, Open
<1>5. Service!Close BY <1>1, <1>2, <1>3, <1>4 DEF Service!Close
<1> QED BY <1>5 DEF ServiceStep, Service!Next

\* The list, the waits and the handlers of the supervisor keep what the service
\* promises of the pairs, a restore beside their workers included.
THEOREM ImplementsService == Spec => ServiceSpec
<1>1. Init => Service!Init
  <2> SUFFICES ASSUME Init PROVE Service!Init OBVIOUS
  <2>1. \A w \in Workers : ~IsLive(w) BY DEF Init, IsLive, Live
  <2>2. Serves = [w \in Workers |-> {}] BY <2>1 DEF Serves
  <2>3. Overdue = {} /\ Writing = {} /\ Open = TRUE BY DEF Init, Overdue, Writing, Open
  <2> QED BY <2>2, <2>3 DEF Init, Service!Init
<1>2. IndInv /\ [Next]_vars => [Service!Next]_ServiceVars
  <2> SUFFICES ASSUME IndInv, [Next]_vars PROVE ServiceStep BY DEF ServiceStep
  <2>1. ASSUME NEW w \in Workers, WorkerStep(w) \/ ReadEvents(w) PROVE ServiceStep
    BY <2>1, WorkerServes
  <2>2. CASE User BY <2>2, UserServes
  <2>3. CASE AllDone \/ RefuseTarget \/ NothingToEnd \/ Restore \/ ForkFails
    BY <2>3, GoesOnServes
  <2>4. CASE EndTarget \/ CleanupStop BY <2>4, StopServes
  <2>5. CASE StartTarget BY <2>5, StartServes
  <2>6. CASE WorkerEnded \/ CleanupJoin BY <2>6, JoinServes
  <2>7. CASE Return BY <2>7, ReturnServes
  <2>8. CASE UNCHANGED vars
    BY <2>8 DEF vars, parent, worker, ServiceStep, ServiceVars, Serves, IsLive, Writing,
       Overdue, Open
  <2> QED BY <2>1, <2>2, <2>3, <2>4, <2>5, <2>6, <2>7, <2>8 DEF Next, ParentStep
<1> QED BY <1>1, <1>2, Invariance, PTL
    DEF Spec, ServiceSpec, Service!Spec, Service!vars, ServiceVars
=============================================================================
