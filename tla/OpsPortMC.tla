----------------------------- MODULE OpsPortMC -----------------------------
(***************************************************************************)
(* An instance of OpsPort for TLC and for the proofs, with names of its    *)
(* own for what NightShop calls by the same name.                          *)
(***************************************************************************)
EXTENDS Naturals

CONSTANTS Dockers, SigThread, NoThread, Loads, MaxShips, MaxSpurious

VARIABLES
  state_mutex, ship_mutex, packages_left, next_package, terminate,
  dock_pc, pack, dock_sigpc, mainpc, dock_pending, sent, spurious, docked, transported

Port == INSTANCE OpsPort WITH
          Workers <- Dockers, Sig <- SigThread, Nobody <- NoThread,
          pc <- dock_pc, sigpc <- dock_sigpc, pending <- dock_pending

ASSUME PortAssumption == Port!PortConstants

PortSpec     == Port!Spec
PortFairSpec == Port!FairSpec

-----------------------------------------------------------------------------
\* The properties of the port, stated in OpsPort.

\* Every package a ship brought is aboard or has a number of its own.
EachPackageOnce == Port!EachPackageOnce

\* The port does what PackageFlow says.
FlowSpec == Port!FlowSpec

\* After SIGINT every thread ends and main returns.
PortCloses == Port!PortCloses

\* A docked ship is unloaded unless the port closes.
ShipUnloaded == Port!ShipUnloaded

\* Nothing leaves a ship and no ship docks after SIGINT was handled.
NoWorkAfterClosing == Port!NoWorkAfterClosing
=============================================================================
