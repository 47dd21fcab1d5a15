-------------------------- MODULE PaymentLifecycle --------------------------
(***************************************************************************)
(* What the system promises of a payment, whoever carries it out: it is    *)
(* requested once, the money is taken at most once, it completes only with *)
(* the money taken and fails only without, and what has ended stays ended. *)
(***************************************************************************)
CONSTANTS
  Payments,
  InProgress  \* the status of a payment that has not ended yet

VARIABLES
  status,   \* payment -> its status
  taken     \* payment -> how often its money has been taken

lifecycleVars == <<status, taken>>

LifecycleInit ==
  /\ status = [p \in Payments |-> "NOT_FOUND"]
  /\ taken = [p \in Payments |-> 0]

Request(p) ==
  /\ status[p] = "NOT_FOUND"
  /\ status' = [status EXCEPT ![p] = InProgress]
  /\ UNCHANGED taken

Take(p) ==
  /\ status[p] = InProgress
  /\ taken[p] = 0
  /\ taken' = [taken EXCEPT ![p] = 1]
  /\ UNCHANGED status

Complete(p) ==
  /\ status[p] = InProgress
  /\ taken[p] = 1
  /\ status' = [status EXCEPT ![p] = "COMPLETED"]
  /\ UNCHANGED taken

Fail(p) ==
  /\ status[p] = InProgress
  /\ taken[p] = 0
  /\ status' = [status EXCEPT ![p] = "FAILED"]
  /\ UNCHANGED taken

LifecycleNext ==
  \E p \in Payments : Request(p) \/ Take(p) \/ Complete(p) \/ Fail(p)

LifecycleSpec == LifecycleInit /\ [][LifecycleNext]_lifecycleVars

=============================================================================
