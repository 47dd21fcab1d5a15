----------------------------- MODULE EventStore -----------------------------
(***************************************************************************)
(* The events table (internal/infrastructure/eventstore): one append-only  *)
(* log per aggregate id, read back in sequence_number order.  Every insert *)
(* is a statement of its own: nothing checks the version of the aggregate, *)
(* and no transaction spans a load and the save that follows it.           *)
(***************************************************************************)
EXTENDS Events, Sequences

VARIABLE store    \* aggregate id -> its events, oldest first

StoreInit == store = [a \in Aggregates |-> <<>>]

(* Mutant: a lagging replica that misses the latest event. *)
LoadEventsLagging(a) ==
  IF store[a] = <<>> THEN <<>> ELSE SubSeq(store[a], 1, Len(store[a]) - 1)

LoadEvents(a) == store[a]

SaveEvent(e) == store' = [store EXCEPT ![Aggregate(e)] = Append(@, e)]

Stored == UNION {{store[a][i] : i \in DOMAIN store[a]} : a \in Aggregates}

=============================================================================
