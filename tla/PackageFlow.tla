---------------------------- MODULE PackageFlow ----------------------------
(***************************************************************************)
(* What the port of moroz/w3/mykhailo_moroz/ops-port.c promises, without   *)
(* threads, mutexes or signals: a ship arrives only when the last one is   *)
(* empty, packages are handed out one at a time and numbered by the order  *)
(* in which they are handed out, and nothing moves once the port closed.   *)
(***************************************************************************)
EXTENDS Naturals

CONSTANT Loads    \* numbers of packages a ship may bring

VARIABLES
  left,      \* packages aboard the ship
  handed,    \* packages handed out so far: the last number used
  landed,    \* packages all ships have brought
  closed

flow == <<left, handed, landed, closed>>

Init == left = 0 /\ handed = 0 /\ landed = 0 /\ closed = FALSE

Arrive(n) ==
  /\ ~closed /\ left = 0
  /\ left' = n
  /\ landed' = landed + n
  /\ UNCHANGED <<handed, closed>>

HandOut ==
  /\ ~closed /\ left > 0
  /\ left' = left - 1
  /\ handed' = handed + 1
  /\ UNCHANGED <<landed, closed>>

Close == closed' = TRUE /\ UNCHANGED <<left, handed, landed>>

Next == (\E n \in Loads : Arrive(n)) \/ HandOut \/ Close

Spec == Init /\ [][Next]_flow
=============================================================================
