---------------------------- MODULE MetricsService ----------------------------
(***************************************************************************)
(* The metrics service (cmd/metrics, application/metrics): a consumer      *)
(* group of its own, whose handler counts the payments created, completed  *)
(* and failed.  It keeps the counters in memory and nothing else: a        *)
(* restarted process counts from zero, from the committed offsets on.      *)
(* (Its other input, the dead letter queue, is module ErrorReporting.)     *)
(***************************************************************************)
EXTENDS ConsumerLoop

Metrics == "metrics-service"

ASSUME MetricsAssumption == Metrics \in Groups

(* The counter the handler of each type increments; other types have none. *)
CounterOf ==
  [WalletPaymentRequested   |-> "wallet_payments_created_total",
   WalletPaymentCompleted   |-> "wallet_payments_completed_total",
   WalletPaymentFailed      |-> "wallet_payments_failed_total",
   ExternalPaymentRequested |-> "external_payments_created_total",
   ExternalPaymentCompleted |-> "external_payments_completed_total",
   ExternalPaymentFailed    |-> "external_payments_failed_total"]

Counters == {CounterOf[type] : type \in DOMAIN CounterOf}

VARIABLES
  counters,    \* the collector: counter -> its value
  started      \* history: partition -> the offset the process began at

metricsVars == <<loopVars, counters, started>>

ZeroCounters == [c \in Counters |-> 0]

MetricsInit ==
  /\ LoopInit
  /\ counters = ZeroCounters
  /\ started = [p \in Partitions |-> 0]

----
(* Mutant: a message the handler has been given before is not counted.     *)
MetricsHandleNew ==
  /\ HandleStep(Metrics)
  /\ LET type == InHand(Metrics).type
     IN  IF /\ type \in DOMAIN CounterOf
            /\ <<current[Metrics], position[Metrics][current[Metrics]]>> \notin tried[Metrics]
         THEN counters' = [counters EXCEPT ![CounterOf[type]] = @ + 1]
         ELSE UNCHANGED counters
  /\ UNCHANGED started

(* The handler main subscribes: it never fails.                            *)
MetricsHandle ==
  /\ HandleStep(Metrics)
  /\ LET type == InHand(Metrics).type
     IN  IF type \in DOMAIN CounterOf
         THEN counters' = [counters EXCEPT ![CounterOf[type]] = @ + 1]
         ELSE UNCHANGED counters
  /\ UNCHANGED started

MetricsFetch == FetchStep(Metrics) /\ UNCHANGED <<counters, started>>

MetricsCommit == CommitStep(Metrics) /\ UNCHANGED <<counters, started>>

MetricsCrash ==
  /\ CrashStep(Metrics)
  /\ counters' = ZeroCounters
  /\ started' = committed[Metrics]

MetricsLoop == MetricsFetch \/ MetricsHandle \/ MetricsCommit

MetricsNext ==
  \/ \E m \in Messages : Produce(m) /\ UNCHANGED <<counters, started>>
  \/ MetricsLoop
  \/ MetricsCrash

(* As in ConsumerLoop, the loop polls for ever.                            *)
MetricsSpec == MetricsInit /\ [][MetricsNext]_metricsVars /\ WF_metricsVars(MetricsLoop)

----
(* The messages the handler has been through since the process began: all  *)
(* that it fetched, but for the one it has in hand and has not counted.    *)
HandledSince(p) ==
  LET last == position[Metrics][p]
      open == phase[Metrics] = "handle" /\ current[Metrics] = p
  IN  (started[p] + 1)..(IF open THEN last - 1 ELSE last)

Counts(c, m) ==
  m \notin Undecodable /\ m.type \in DOMAIN CounterOf /\ CounterOf[m.type] = c

Counted(c) ==
  {x \in UNION {{p} \X HandledSince(p) : p \in Partitions} : Counts(c, topic[x[1]][x[2]])}

(* While the process lives each counter is the number of messages of its   *)
(* type that the topic has from where the process began to where it reads: *)
(* none is counted twice for a message that did not decode or for a commit *)
(* that failed, and after a crash the redelivered ones are counted again.  *)
(* The comment at eventbus.go:165 has a failed commit retried on the next  *)
(* fetch.  It is not (FailedCommitsRetried): the reader of kafka-go keeps  *)
(* its own place, which a commit does not move, and this property rests on *)
(* that.                                                                   *)
CountersMatchTopic == \A c \in Counters : counters[c] = Cardinality(Counted(c))

=============================================================================
