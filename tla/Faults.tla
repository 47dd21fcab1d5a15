------------------------------- MODULE Faults -------------------------------
(***************************************************************************)
(* A budget of faults.  The kinds a run admits are a constant, and so is   *)
(* how many may happen: a bound of the model, not of the code.             *)
(*                                                                         *)
(*   "store"      a query or an insert on the events table fails           *)
(*   "loss"       a message, or only its acknowledgement, is lost on the    *)
(*                way to the topic                                         *)
(*   "duplicate"  the producer's retry writes a message twice              *)
(*   "commit"     an offset commit fails                                   *)
(*   "crash"      a service process dies and is started again              *)
(***************************************************************************)
EXTENDS Naturals

CONSTANTS FaultKinds, MaxFaults

ASSUME FaultsAssumption == MaxFaults \in Nat

VARIABLE faults    \* how many faults have happened

FaultsInit == faults = 0

Fault(kind) ==
  /\ kind \in FaultKinds
  /\ faults < MaxFaults
  /\ faults' = faults + 1

NoFault == UNCHANGED faults

=============================================================================
