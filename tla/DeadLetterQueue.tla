--------------------------- MODULE DeadLetterQueue ---------------------------
(***************************************************************************)
(* The dead letter queue (internal/infrastructure/dlq): a list in the      *)
(* memory of one process, oldest letter first.  A full queue makes room by *)
(* dropping its oldest letters, a block of them at a time.  Nothing else   *)
(* ever takes a letter out; only the end of the process empties the list.  *)
(***************************************************************************)
EXTENDS Naturals, Sequences

CONSTANTS
  MaxEvents,    \* how many letters the queue holds (10000 in the code)
  Discarded     \* how many of the oldest make room (1000 in the code)

ASSUME QueueAssumption ==
  /\ MaxEvents \in Nat \ {0}
  /\ Discarded \in 1..MaxEvents

VARIABLE deadLetters

QueueInit == deadLetters = <<>>

(* Mutant: a full queue drops its newest letters. *)
MakeRoomBehind(queue) ==
  IF Len(queue) >= MaxEvents THEN SubSeq(queue, 1, Len(queue) - Discarded) ELSE queue

MakeRoom(queue) ==
  IF Len(queue) >= MaxEvents THEN SubSeq(queue, Discarded + 1, Len(queue)) ELSE queue

Enqueue(letter) == deadLetters' = Append(MakeRoom(deadLetters), letter)

=============================================================================
