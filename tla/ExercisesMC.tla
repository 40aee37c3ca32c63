---------------------------- MODULE ExercisesMC ----------------------------
(***************************************************************************)
(* The small programs, one of which runs: they share no state, so a run of *)
(* this module checks each of them on an instance of its own.              *)
(***************************************************************************)
EXTENDS Processes

CONSTANTS Programs, ClassSize, Parts, MaxIssues, Signers, Pages, Boxes, MaxDonors,
          Inner, Throwers, Balls, Bins, Length, StudentNum, Rounds,
          Number, Enough, Workers, ChildCount, MaxCalls, Officials, MaxDocuments

VARIABLE program

vars == <<machine, program>>

\* Lab(FALSE) is sop-collection.c, Lab(TRUE) pol_lab.c.
Lab(PolLab) == INSTANCE Collection

Class      == INSTANCE Classroom WITH Size <- ClassSize
FirstClass == INSTANCE FirstClassroom WITH Size <- ClassSize
Sign       == INSTANCE SignPages
Tree       == INSTANCE ProcessTree
Throw      == INSTANCE BallThrowers
List       == INSTANCE NumberList
Study      == INSTANCE StudyYears
Report     == INSTANCE RepeatedReports
Stones     == INSTANCE StoneWorkers
Relay      == INSTANCE ChildRelay
Admin      == INSTANCE Office

ASSUME ExercisesAssumption ==
  /\ Class!ClassConstants
  /\ FirstClass!FirstClassConstants
  /\ Sign!SignersConstants
  /\ Lab(FALSE)!CollectionConstants
  /\ Lab(TRUE)!CollectionConstants
  /\ Tree!TreeConstants
  /\ Throw!ThrowersConstants
  /\ List!ListConstants
  /\ Study!StudyConstants
  /\ Report!ReportsConstants
  /\ Stones!WorkersConstants
  /\ Relay!RelayConstants
  /\ Admin!OfficeConstants

Init ==
  /\ program \in Programs
  /\ \/ program = "class"  /\ Class!Init
     \/ program = "first"  /\ FirstClass!Init
     \/ program = "sign"   /\ Sign!Init
     \/ program = "sop"    /\ Lab(FALSE)!Init
     \/ program = "pol"    /\ Lab(TRUE)!Init
     \/ program = "tree"   /\ Tree!Init
     \/ program = "throw"  /\ Throw!Init
     \/ program = "list"   /\ List!Init
     \/ program = "study"  /\ Study!Init
     \/ program = "report" /\ Report!Init
     \/ program = "stones" /\ Stones!Init
     \/ program = "relay"  /\ Relay!Init
     \/ program = "office" /\ Admin!Init

\* A step of a process or thread.
Step(p) ==
  /\ UNCHANGED program
  /\ \/ program = "class"  /\ Class!Step(p)
     \/ program = "first"  /\ FirstClass!Step(p)
     \/ program = "sign"   /\ Sign!Step(p)
     \/ program = "sop"    /\ Lab(FALSE)!Step(p)
     \/ program = "pol"    /\ Lab(TRUE)!Step(p)
     \/ program = "tree"   /\ Tree!Step(p)
     \/ program = "throw"  /\ Throw!Step(p)
     \/ program = "list"   /\ List!Step(p)
     \/ program = "study"  /\ Study!Step(p)
     \/ program = "report" /\ Report!Step(p)
     \/ program = "stones" /\ Stones!Step(p)
     \/ program = "relay"  /\ Relay!Step(p)
     \/ program = "office" /\ Admin!Step(p)

\* A signal of the user.
User ==
  /\ UNCHANGED program
  /\ \/ program = "sop"    /\ Lab(FALSE)!User
     \/ program = "pol"    /\ Lab(TRUE)!User
     \/ program = "tree"   /\ Tree!User
     \/ program = "list"   /\ List!User
     \/ program = "stones" /\ Stones!User
     \/ program = "relay"  /\ Relay!User
     \/ program = "office" /\ Admin!User

Next == User \/ \E p \in Procs : Step(p)

\* Where signals come again and again a process runs its handler and its code:
\* the senders sleep in between.
ReportCode(p)    == program = "report" /\ Report!Code(p) /\ UNCHANGED program
ReportHandler(p) == program = "report" /\ Report!Handler(p) /\ UNCHANGED program

\* Every process and thread runs; a user may send nothing.
Spec ==
  /\ Init /\ [][Next]_vars
  /\ \A p \in Procs : WF_vars(Step(p)) /\ WF_vars(ReportCode(p)) /\ WF_vars(ReportHandler(p))

-----------------------------------------------------------------------------
\* Properties: what each program promises.

\* A student waits for an answer that will not come only if its report found
\* another one pending (task2_alternative.c:173, task2.c:75).
OnlyMergedLost ==
  /\ program = "class" => Class!OnlyMergedLost
  /\ program = "first" => FirstClass!OnlyMergedLost

\* What the comment at task2_alternative.c:271-272 says.
ReportsNotLost == program = "class" => Class!ReportsNotLost

\* A student gets one answer for each part, after it, in both versions.
OneAnswerPerPart ==
  /\ program = "class" => Class!OneAnswerPerPart
  /\ program = "first" => FirstClass!OneAnswerPerPart

\* When a first process or main thread has ended by itself its children or
\* threads have been waited for, and what it counted or recorded of them is
\* what they did; FirstClassroom and Collection name who is left out.
AllReaped ==
  /\ program = "class"  => Class!StatisticsComplete
  /\ program = "first"  => FirstClass!OneReaped
  /\ program = "sign"   => Sign!AllReaped
  /\ program = "sop"    => Lab(FALSE)!AllReaped
  /\ program = "pol"    => Lab(TRUE)!AllReaped
  /\ program = "list"   => List!AllReaped
  /\ program = "study"  => Study!CancelsUnjoined
  /\ program = "report" => Report!AllReaped
  /\ program = "stones" => Stones!AllReaped
  /\ program = "relay"  => Relay!AllReaped

\* Every page keeps its title and has one line of each signer that got to it
\* (ops-sign.c:200-218).
PagesSigned == program = "sign" => Sign!PagesSigned

\* A box counts each donation whole, once and in order, unless a second donor
\* comes before it has read (sop-collection.c:76-114, pol_lab.c:75-112).
BoxesCount ==
  /\ program = "sop" => Lab(FALSE)!BoxesCount
  /\ program = "pol" => Lab(TRUE)!BoxesCount

\* A process of the tree that ends by itself has waited for both its children,
\* whatever signals interrupted it, unless another process took its wait to have
\* failed and killed it (lab.c:46-66).
TreeWaits == program = "tree" => Tree!TreeWaits

\* What LabDescription.md says: a wait that a signal interrupts is repeated (64), or the root
\* waits for both children unless it receives two SIGINTs (64, 122), of which the user
\* sends one; a state that violates this violates both.
DescribedWaits == program = "tree" => Tree!DescribedWaits

\* What the threads count under their mutexes is what main reads at the end
\* (prog18.c, prog19.c, prog20.c), and every document of ops-admin.c is somewhere.
CountsAddUp ==
  /\ program = "throw" => Throw!CountsAddUp
  /\ program = "list"  => List!CountsAddUp
  /\ program = "study" => Study!CountsAddUp
  /\ program = "office" => Admin!CountsAddUp

\* Every program comes to its end, or for good to one of the places its module
\* names: a signal that was merged, that came too soon, or that the user owes.
ProgramsEnd ==
  <>[] /\ program = "class"  => Class!Ends
       /\ program = "first"  => FirstClass!Ends
       /\ program = "sign"   => Sign!Ends
       /\ program = "sop"    => Lab(FALSE)!Ends
       /\ program = "pol"    => Lab(TRUE)!Ends
       /\ program = "tree"   => Tree!AllEnd
       /\ program = "throw"  => Throw!Ends
       /\ program = "list"   => List!Ends
       /\ program = "study"  => Study!Ends
       /\ program = "report" => Report!Ends
       /\ program = "stones" => Stones!Ends
       /\ program = "relay"  => Relay!Ends
       /\ program = "office" => Admin!Ends
=============================================================================
