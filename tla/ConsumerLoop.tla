---------------------------- MODULE ConsumerLoop ----------------------------
(***************************************************************************)
(* The event bus on its own: producers, and for every group the loop of    *)
(* consumeEvents around a handler of which nothing is assumed.  The loop   *)
(* fetches a message, decodes it, hands it to the handler and commits its  *)
(* offset - also when the message does not decode or the handler fails.    *)
(***************************************************************************)
EXTENDS EventBus, FiniteSets

CONSTANTS
  Messages,       \* what the producers send, each once
  Undecodable     \* those unmarshalEvent returns an error for

ASSUME LoopAssumption == Undecodable \subseteq Messages

VARIABLES
  phase,    \* group -> where its loop is
  tried     \* history: group -> the <<partition, offset>> its handler was given

loopVars == <<busVars, faults, phase, tried>>

Phases == {"fetch", "handle", "commit"}

LoopTypeOK ==
  /\ topic \in [Partitions -> Seq(Messages)]
  /\ position \in [Groups -> [Partitions -> Nat]]
  /\ committed \in [Groups -> [Partitions -> Nat]]
  /\ \A g \in Groups, p \in Partitions : position[g][p] <= Len(topic[p])
  /\ current \in [Groups -> Partitions \cup {NoPartition}]
  /\ faults \in 0..MaxFaults
  /\ phase \in [Groups -> Phases]
  /\ tried \in [Groups -> SUBSET (Partitions \X Nat)]

LoopInit ==
  /\ BusInit
  /\ FaultsInit
  /\ phase = [g \in Groups |-> "fetch"]
  /\ tried = [g \in Groups |-> {}]

Produce(m) ==
  /\ m \notin Published
  /\ Send(m)
  /\ UNCHANGED <<phase, tried>>

FetchStep(g) ==
  /\ phase[g] = "fetch"
  /\ \E p \in Partitions : Fetch(g, p)
  /\ phase' = [phase EXCEPT ![g] = IF InHand(g)' \in Undecodable THEN "commit" ELSE "handle"]
  /\ UNCHANGED <<faults, tried>>

(* The handler returns, with or without an error: the loop goes on to the  *)
(* commit in either case.                                                  *)
HandleStep(g) ==
  /\ phase[g] = "handle"
  /\ tried' = [tried EXCEPT ![g] = @ \cup {<<current[g], position[g][current[g]]>>}]
  /\ phase' = [phase EXCEPT ![g] = "commit"]
  /\ UNCHANGED <<busVars, faults>>

CommitStep(g) ==
  /\ phase[g] = "commit"
  /\ Commit(g)
  /\ phase' = [phase EXCEPT ![g] = "fetch"]
  /\ UNCHANGED tried

CrashStep(g) ==
  /\ Rejoin(g)
  /\ phase' = [phase EXCEPT ![g] = "fetch"]
  /\ UNCHANGED tried

LoopStep(g) == FetchStep(g) \/ HandleStep(g) \/ CommitStep(g)

LoopNext ==
  \/ \E m \in Messages : Produce(m)
  \/ \E g \in Groups : LoopStep(g) \/ CrashStep(g)

(* The loop polls for ever: it never stops while there is a message for it.*)
LoopSpec == LoopInit /\ [][LoopNext]_loopVars /\ \A g \in Groups : WF_loopVars(LoopStep(g))

----
Tried(g, p, i) == <<p, i>> \in tried[g] \/ topic[p][i] \in Undecodable

(* At least once: no offset is committed, not even by the commit of a      *)
(* later message after a failed one or after a restart, that the handler   *)
(* has not been given.                                                     *)
CommittedWereTried ==
  \A g \in Groups, p \in Partitions :
    /\ committed[g][p] <= position[g][p]
    /\ \A i \in 1..committed[g][p] : Tried(g, p, i)

(* Within a partition a handler is first given the messages in the order   *)
(* they were written, across crashes and failed commits.                   *)
TriedInOrder ==
  \A g \in Groups : \A x \in tried[g] : \A i \in 1..(x[2] - 1) : Tried(g, x[1], i)

(* Every message written to the topic is in the end given to the handler   *)
(* of every group, as long as the crashes come to an end.                  *)
EveryMessageTried ==
  \A g \in Groups, p \in Partitions, i \in 1..(2 * Cardinality(Messages)) :
    (i \in DOMAIN topic[p]) ~> (i \in DOMAIN topic[p] /\ Tried(g, p, i))

(* The comment in eventbus.go on a commit that failed: it will be retried  *)
(* on the next fetch, so what was fetched is committed in the end.  The    *)
(* next fetch reads the next message, and when there is none the offset    *)
(* stays uncommitted until the process dies.                               *)
FailedCommitsRetried ==
  \A g \in Groups, p \in Partitions, i \in 1..(2 * Cardinality(Messages)) :
    (i <= position[g][p]) ~> (i <= committed[g][p])

=============================================================================
