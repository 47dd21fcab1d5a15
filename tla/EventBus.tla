------------------------------ MODULE EventBus ------------------------------
(***************************************************************************)
(* The event bus (internal/infrastructure/eventbus) over one Kafka topic,  *)
(* events.payments.v1.                                                     *)
(*                                                                         *)
(* The partition Publish computes with GetPartition does not decide where  *)
(* the message goes: the writer is built with the LeastBytes balancer, so  *)
(* any partition may receive any message, and Send chooses one freely.     *)
(*                                                                         *)
(* A consumer group has one consumer, which reads all partitions; it takes *)
(* one message at a time (FetchMessage), runs the handler, and commits.    *)
(* position is where the next fetch of a partition reads, committed what   *)
(* the broker remembers: a restarted consumer reads on from there.         *)
(***************************************************************************)
EXTENDS Faults, Sequences

CONSTANTS
  Groups,        \* consumer groups, one per service
  Partitions,    \* partitions of the topic
  NoPartition    \* a consumer that has no message in hand

ASSUME BusAssumption == NoPartition \notin Partitions

VARIABLES
  topic,         \* partition -> messages, never removed
  position,      \* group -> partition -> how many messages were fetched
  committed,     \* group -> partition -> the committed offset
  current        \* group -> partition of the message in hand

busVars == <<topic, position, committed, current>>

BusInit ==
  /\ topic = [p \in Partitions |-> <<>>]
  /\ position = [g \in Groups |-> [p \in Partitions |-> 0]]
  /\ committed = [g \in Groups |-> [p \in Partitions |-> 0]]
  /\ current = [g \in Groups |-> NoPartition]

InHand(g) == topic[current[g]][position[g][current[g]]]

Published == UNION {{topic[p][i] : i \in DOMAIN topic[p]} : p \in Partitions}

Pending(g, p) == position[g][p] < Len(topic[p])

----
(* Publish: written once; or twice (the producer retries a batch whose     *)
(* acknowledgement it missed); or not at all, or once and the              *)
(* acknowledgement is lost.                                                *)
Send(m) ==
  /\ \E p \in Partitions :
       \/ topic' = [topic EXCEPT ![p] = Append(@, m)] /\ (NoFault \/ Fault("loss"))
       \/ topic' = [topic EXCEPT ![p] = Append(Append(@, m), m)] /\ Fault("duplicate")
       \/ UNCHANGED topic /\ Fault("loss")
  /\ UNCHANGED <<position, committed, current>>

(* Publish returns an error.  It says nothing of what the topic now holds: *)
(* WriteMessages may time out on a message that has been written.          *)
SendFails(m) == Send(m) /\ Fault("loss")

(* Mutants: the offset is committed as the message is fetched; a fetch     *)
(* reads the newest message of the partition.                              *)
FetchCommitting(g, p) ==
  /\ current[g] = NoPartition
  /\ Pending(g, p)
  /\ position' = [position EXCEPT ![g][p] = @ + 1]
  /\ committed' = [committed EXCEPT ![g][p] = position[g][p] + 1]
  /\ current' = [current EXCEPT ![g] = p]
  /\ UNCHANGED topic

FetchNewest(g, p) ==
  /\ current[g] = NoPartition
  /\ Pending(g, p)
  /\ position' = [position EXCEPT ![g][p] = Len(topic[p])]
  /\ current' = [current EXCEPT ![g] = p]
  /\ UNCHANGED <<topic, committed>>

(* FetchMessage hands over the next message of some partition.             *)
Fetch(g, p) ==
  /\ current[g] = NoPartition
  /\ Pending(g, p)
  /\ position' = [position EXCEPT ![g][p] = @ + 1]
  /\ current' = [current EXCEPT ![g] = p]
  /\ UNCHANGED <<topic, committed>>

(* Mutant: the message of a failed commit is fetched again. *)
CommitRetrying(g) ==
  /\ \/ /\ committed' = [committed EXCEPT ![g][current[g]] = position[g][current[g]]]
        /\ UNCHANGED position
        /\ NoFault
     \/ /\ position' = [position EXCEPT ![g] = committed[g]]
        /\ UNCHANGED committed
        /\ Fault("commit")
  /\ current' = [current EXCEPT ![g] = NoPartition]
  /\ UNCHANGED topic

(* CommitMessages, whether the handler returned an error or not.  When the *)
(* commit fails the loop logs it and goes on with the next message.        *)
Commit(g) ==
  /\ \/ /\ committed' = [committed EXCEPT ![g][current[g]] = position[g][current[g]]]
        /\ NoFault
     \/ /\ UNCHANGED committed
        /\ Fault("commit")
  /\ current' = [current EXCEPT ![g] = NoPartition]
  /\ UNCHANGED <<topic, position>>

(* A message the handler returns nil for at once: fetched and committed in *)
(* one step, for no other process sees it in between.                      *)
Pass(g, p) ==
  /\ current[g] = NoPartition
  /\ Pending(g, p)
  /\ position' = [position EXCEPT ![g][p] = @ + 1]
  /\ \/ committed' = [committed EXCEPT ![g][p] = position[g][p] + 1] /\ NoFault
     \/ UNCHANGED committed /\ Fault("commit")
  /\ UNCHANGED <<topic, current>>

(* Mutants: the new consumer goes on where the dead one had fetched to; it *)
(* starts one message after the committed offset.                          *)
RejoinForgetting(g) ==
  /\ Fault("crash")
  /\ current' = [current EXCEPT ![g] = NoPartition]
  /\ UNCHANGED <<topic, position, committed>>

RejoinBeyond(g) ==
  /\ Fault("crash")
  /\ position' = [position EXCEPT ![g] = [p \in Partitions |-> committed[g][p] + 1]]
  /\ current' = [current EXCEPT ![g] = NoPartition]
  /\ UNCHANGED <<topic, committed>>

(* The process dies and a new one joins the group.                         *)
Rejoin(g) ==
  /\ Fault("crash")
  /\ position' = [position EXCEPT ![g] = committed[g]]
  /\ current' = [current EXCEPT ![g] = NoPartition]
  /\ UNCHANGED <<topic, committed>>

=============================================================================
