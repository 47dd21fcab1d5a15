---------------------------- MODULE ErrorReporting ----------------------------
(***************************************************************************)
(* A dead letter queue with its subscribers, and the handler the metrics   *)
(* service subscribes: it writes each letter to the error_logs table       *)
(* (internal/infrastructure/dlq, application/metrics, errors/db.go).       *)
(*                                                                         *)
(* A letter reaches a subscriber in two ways at once.  Publish starts a    *)
(* goroutine for it and each subscriber of that moment; and each           *)
(* subscriber's own loop copies the whole queue, about once a second, and  *)
(* goes through the copy, so that a letter is handled again and again for  *)
(* as long as it is queued.  An insert that fails is logged and forgotten. *)
(*                                                                         *)
(* Letters are numbered in the order in which Publish accepts them.        *)
(***************************************************************************)
EXTENDS DeadLetterQueue, Faults, FiniteSets

CONSTANTS
  Handlers,        \* the handlers that may subscribe
  MaxPublished     \* bound: how many letters are published

ASSUME ReportAssumption == MaxPublished \in Nat

VARIABLES
  running,       \* Close has not been called
  subscribed,    \* the handlers whose loop runs
  batch,         \* handler -> what its loop has still to do of its copy
  spawned,       \* the goroutines of Publish yet to run: <<handler, letter>>
  stored,        \* error_logs: the letters it has a row of, or several
  published,     \* history: how many letters were accepted
  born,          \* history: how many before the process was last started
  since,         \* history: handler -> how many before it subscribed
  handled        \* history: handler -> the letters it was given

reportVars ==
  <<deadLetters, faults, running, subscribed, batch, spawned, stored,
    published, born, since, handled>>

Letters == 1..MaxPublished

QueueElements == {deadLetters[i] : i \in DOMAIN deadLetters}

ReportTypeOK ==
  /\ deadLetters \in Seq(1..published)
  /\ faults \in 0..MaxFaults
  /\ running \in BOOLEAN
  /\ subscribed \subseteq Handlers
  /\ batch \in [Handlers -> Seq(1..published)]
  /\ spawned \subseteq subscribed \X (1..published)
  /\ stored \subseteq 1..published
  /\ published \in 0..MaxPublished
  /\ born \in 0..published
  /\ since \in [Handlers -> 0..published]
  /\ handled \in [Handlers -> SUBSET (1..published)]

ProcessInit ==
  /\ running = TRUE
  /\ subscribed = {}
  /\ batch = [h \in Handlers |-> <<>>]
  /\ spawned = {}
  /\ stored = {}
  /\ published = 0
  /\ born = 0
  /\ since = [h \in Handlers |-> 0]
  /\ handled = [h \in Handlers |-> {}]

ReportInit == QueueInit /\ FaultsInit /\ ProcessInit

----
(* Mutants: a letter is handed to handlers that have not subscribed yet;   *)
(* it is left to the loops of the subscribers.                             *)
PublishToAll ==
  /\ running
  /\ published < MaxPublished
  /\ published' = published + 1
  /\ Enqueue(published + 1)
  /\ spawned' = spawned \cup (Handlers \X {published + 1})
  /\ UNCHANGED <<faults, running, subscribed, batch, stored, born, since, handled>>

PublishUnhanded ==
  /\ running
  /\ published < MaxPublished
  /\ published' = published + 1
  /\ Enqueue(published + 1)
  /\ UNCHANGED <<faults, running, subscribed, batch, spawned, stored, born, since, handled>>

(* Publish: refused by a closed queue; otherwise the letter is appended    *)
(* and a goroutine started for every subscriber.                           *)
PublishLetter ==
  /\ running
  /\ published < MaxPublished
  /\ published' = published + 1
  /\ Enqueue(published + 1)
  /\ spawned' = spawned \cup (subscribed \X {published + 1})
  /\ UNCHANGED <<faults, running, subscribed, batch, stored, born, since, handled>>

Subscribe(h) ==
  /\ h \notin subscribed
  /\ subscribed' = subscribed \cup {h}
  /\ since' = [since EXCEPT ![h] = published]
  /\ UNCHANGED <<deadLetters, faults, running, batch, spawned, stored, published, born, handled>>

(* Every call inserts a row of its own, under a fresh id, or fails.        *)
PersistDLQEvent(x) ==
  \/ stored' = stored \cup {x} /\ NoFault
  \/ UNCHANGED stored /\ Fault("store")

(* The handler returns nil also when the insert failed.                    *)
HandleDLQEvent(h, x) ==
  /\ handled' = [handled EXCEPT ![h] = @ \cup {x}]
  /\ PersistDLQEvent(x)

(* Mutant: the loop makes one round. *)
CopyQueueOnce(h) ==
  /\ h \in subscribed
  /\ batch[h] = <<>> /\ handled[h] = {}
  /\ deadLetters # <<>>
  /\ batch' = [batch EXCEPT ![h] = deadLetters]
  /\ UNCHANGED <<deadLetters, faults, running, subscribed, spawned, stored,
                 published, born, since, handled>>

(* The loop of consumeEvents: it copies the queue, then goes through it.   *)
CopyQueue(h) ==
  /\ h \in subscribed
  /\ batch[h] = <<>>
  /\ deadLetters # <<>>
  /\ batch' = [batch EXCEPT ![h] = deadLetters]
  /\ UNCHANGED <<deadLetters, faults, running, subscribed, spawned, stored,
                 published, born, since, handled>>

HandleQueued(h) ==
  /\ batch[h] # <<>>
  /\ HandleDLQEvent(h, Head(batch[h]))
  /\ batch' = [batch EXCEPT ![h] = Tail(@)]
  /\ UNCHANGED <<deadLetters, running, subscribed, spawned, published, born, since>>

(* A goroutine Publish started.  They run in any order.                    *)
HandleSpawned(h, x) ==
  /\ <<h, x>> \in spawned
  /\ HandleDLQEvent(h, x)
  /\ spawned' = spawned \ {<<h, x>>}
  /\ UNCHANGED <<deadLetters, running, subscribed, batch, published, born, since>>

CloseQueue ==
  /\ running
  /\ running' = FALSE
  /\ UNCHANGED <<deadLetters, faults, subscribed, batch, spawned, stored,
                 published, born, since, handled>>

(* The process dies and is started again with an empty queue.              *)
CrashReporting ==
  /\ Fault("crash")
  /\ deadLetters' = <<>>
  /\ running' = TRUE
  /\ subscribed' = {}
  /\ batch' = [h \in Handlers |-> <<>>]
  /\ spawned' = {}
  /\ born' = published
  /\ UNCHANGED <<stored, published, since, handled>>

QueueLoop(h) == CopyQueue(h) \/ HandleQueued(h)

Spawned(h) == \E x \in Letters : HandleSpawned(h, x)

(* What a process with such a queue does when nothing is published to it.  *)
ReportingStep ==
  \/ \E h \in Handlers : Subscribe(h) \/ QueueLoop(h) \/ Spawned(h)
  \/ CloseQueue
  \/ CrashReporting

ReportNext == PublishLetter \/ ReportingStep

(* The subscriber's loop and the goroutines run on while the process does; *)
(* a closed queue means that it is about to end.  main subscribes.         *)
ReportFairness ==
  \A h \in Handlers :
    /\ WF_reportVars(running /\ Subscribe(h))
    /\ WF_reportVars(running /\ QueueLoop(h))
    /\ \A x \in Letters : WF_reportVars(running /\ HandleSpawned(h, x))

ReportSpec == ReportInit /\ [][ReportNext]_reportVars /\ ReportFairness

----
(* dlq.go: the queue holds the newest letters, all of them and in order,   *)
(* never more than its bound, and no fewer than a full queue keeps when it *)
(* makes room - however it fills up, is emptied by a crash and fills again.*)
QueueIsRecentPast ==
  LET n == Len(deadLetters)
  IN  /\ n <= MaxEvents
      /\ n = published - born \/ n > MaxEvents - Discarded
      /\ \A i \in 1..n : deadLetters[i] = published - n + i

(* A letter accepted after a handler subscribed is never forgotten, even   *)
(* when the queue drops it before the handler's loop comes round to it: it *)
(* has been handled, or its goroutine is still to run.                     *)
NoLetterForgotten ==
  \A h \in subscribed : \A x \in 1..published :
    x > since[h] => x \in handled[h] \/ <<h, x>> \in spawned

(* A letter that stays in the queue is in the end in error_logs, also when *)
(* it was there before the subscriber and when inserts fail: the next      *)
(* round of the loop makes up for them.                                    *)
QueuedLettersStored ==
  \A x \in Letters :
    (x \in QueueElements) ~> (x \in stored \/ x \notin QueueElements \/ ~running)

=============================================================================
