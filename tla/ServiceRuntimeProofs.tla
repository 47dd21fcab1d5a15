------------------------ MODULE ServiceRuntimeProofs ------------------------
(***************************************************************************)
(* Lemmas about the operations every service is built from: each keeps the *)
(* runtime's invariant, which is its type invariant made inductive.        *)
(* The last section is about sets of numbers: the greatest and the least   *)
(* member, and induction.                                                  *)
(***************************************************************************)
EXTENDS ServiceRuntime, FiniteSetsExt, SequenceTheorems, WellFoundedInduction, TLAPS

(* No offset runs ahead of the fetches, nor the fetches of the topic.      *)
OffsetsOK ==
  \A g \in Groups, p \in Partitions :
    /\ committed[g][p] <= position[g][p]
    /\ position[g][p] <= Len(topic[p])

(* A consumer has a fetched message in hand except when it is idle.        *)
HandOK ==
  \A g \in Groups :
    /\ current[g] = NoPartition <=> At(g, "idle")
    /\ current[g] # NoPartition => position[g][current[g]] > 0

(* What is about to be saved or published has been built.                  *)
BuiltOK ==
  \A a \in Actors : At(a, "save") \/ At(a, "publish") => op[a].event \in Event

RuntimeInv == RuntimeTypeOK /\ OffsetsOK /\ HandOK /\ BuiltOK

LEMMA RuntimeInitInv == RuntimeInit => RuntimeInv
<1> SUFFICES ASSUME RuntimeInit PROVE RuntimeInv
  OBVIOUS
<1> USE DEF RuntimeInit, StoreInit, BusInit, FaultsInit
<1>1. RuntimeTypeOK
  <2>1. store \in [Aggregates -> Seq(Event)] /\ topic \in [Partitions -> Seq(Event)]
    BY EmptySeq
  <2>2. faults \in 0..MaxFaults
    BY FaultsAssumption
  <2>3. op \in [Actors -> [at: Steps, event: Event \cup {NoEvent}]]
    BY DEF Steps
  <2> QED BY <2>1, <2>2, <2>3 DEF RuntimeTypeOK
<1>2. OffsetsOK
  BY DEF OffsetsOK
<1>3. HandOK
  BY DEF HandOK, At, Actors
<1>4. BuiltOK
  BY DEF BuiltOK, At
<1> QED BY <1>1, <1>2, <1>3, <1>4 DEF RuntimeInv

(* The message in hand is one of the topic.                                *)
LEMMA InHandIsEvent ==
  ASSUME RuntimeInv, NEW g \in Groups, ~At(g, "idle")
  PROVE  InHand(g) \in Event
<1>1. current[g] \in Partitions /\ position[g][current[g]] \in 1..Len(topic[current[g]])
  BY DEF RuntimeInv, RuntimeTypeOK, OffsetsOK, HandOK
<1>2. topic[current[g]] \in Seq(Event)
  BY <1>1 DEF RuntimeInv, RuntimeTypeOK
<1> QED BY <1>1, <1>2, ElementOfSeq DEF InHand

(* A fault stays within the budget.                                        *)
LEMMA FaultTyped ==
  ASSUME faults \in 0..MaxFaults, NoFault \/ \E kind \in FaultKinds : Fault(kind)
  PROVE  faults' \in 0..MaxFaults
BY FaultsAssumption DEF NoFault, Fault

(* Moving an actor along keeps the part of the type invariant about op.    *)
LEMMA GotoTyped ==
  ASSUME RuntimeInv, NEW a \in Actors, NEW step \in Steps,
         NEW e \in Event \cup {NoEvent}, Goto(a, step, e)
  PROVE  /\ op' \in [Actors -> [at: Steps, event: Event \cup {NoEvent}]]
         /\ op'[a] = [at |-> step, event |-> e]
         /\ \A b \in Actors \ {a} : op'[b] = op[b]
BY DEF RuntimeInv, RuntimeTypeOK, Goto

LEMMA BuildKeepsInv ==
  ASSUME RuntimeInv, NEW a \in Actors, a \in Groups => ~At(a, "idle"),
         NEW e \in Event, Build(a, e)
  PROVE  RuntimeInv'
<1>1. Goto(a, "save", e) /\ UNCHANGED <<store, busVars, faults>>
  BY DEF Build
<1>2. /\ op' \in [Actors -> [at: Steps, event: Event \cup {NoEvent}]]
      /\ op'[a] = [at |-> "save", event |-> e]
      /\ \A b \in Actors \ {a} : op'[b] = op[b]
  <2>1. "save" \in Steps BY DEF Steps
  <2> QED BY <1>1, <2>1, GotoTyped
<1>3. RuntimeTypeOK' /\ OffsetsOK'
  BY <1>1, <1>2 DEF RuntimeInv, RuntimeTypeOK, OffsetsOK, busVars
<1>4. HandOK'
  BY <1>1, <1>2 DEF RuntimeInv, HandOK, At, busVars, Actors
<1>5. BuiltOK'
  BY <1>2 DEF RuntimeInv, BuiltOK, At
<1> QED BY <1>3, <1>4, <1>5 DEF RuntimeInv

(* An operation that ends early, keeping the bus and the store as they are.*)
LEMMA EndKeepsInv ==
  ASSUME RuntimeInv, NEW a \in Actors, a \in Groups => ~At(a, "idle"),
         Goto(a, Ended(a), NoEvent), UNCHANGED <<store, busVars>>,
         faults' \in 0..MaxFaults
  PROVE  RuntimeInv'
<1>1. /\ op' \in [Actors -> [at: Steps, event: Event \cup {NoEvent}]]
      /\ op'[a] = [at |-> Ended(a), event |-> NoEvent]
      /\ \A b \in Actors \ {a} : op'[b] = op[b]
  <2>1. Ended(a) \in Steps BY DEF Steps, Ended
  <2> QED BY <2>1, GotoTyped
<1>2. RuntimeTypeOK' /\ OffsetsOK'
  BY <1>1 DEF RuntimeInv, RuntimeTypeOK, OffsetsOK, busVars
<1>3. HandOK'
  BY <1>1 DEF RuntimeInv, HandOK, At, busVars, Actors, Ended
<1>4. BuiltOK'
  BY <1>1 DEF RuntimeInv, BuiltOK, At, Ended
<1> QED BY <1>2, <1>3, <1>4 DEF RuntimeInv

LEMMA RefuseKeepsInv ==
  ASSUME RuntimeInv, NEW g \in Groups, ~At(g, "idle"), Refuse(g)
  PROVE  RuntimeInv'
<1>1. Goto(g, Ended(g), NoEvent) /\ UNCHANGED <<store, busVars>> /\ faults' = faults
  BY DEF Refuse, Ended
<1> QED BY <1>1, EndKeepsInv DEF Actors, RuntimeInv, RuntimeTypeOK

LEMMA StoreFailsKeepsInv ==
  ASSUME RuntimeInv, NEW a \in Actors, StoreFails(a)
  PROVE  RuntimeInv'
<1>1. a \in Groups => ~At(a, "idle")
  BY DEF StoreFails, At
<1>2. faults' \in 0..MaxFaults
  BY FaultTyped DEF StoreFails, Fault, RuntimeInv, RuntimeTypeOK
<1> QED BY <1>1, <1>2, EndKeepsInv DEF StoreFails

(* The log an event is saved in grows by that event.                       *)
LEMMA SaveAppends ==
  ASSUME RuntimeInv, NEW a \in Actors, Save(a)
  PROVE  /\ op[a].event \in Event
         /\ store' \in [Aggregates -> Seq(Event)]
         /\ \A x \in Aggregates :
              store'[x] = IF x = Aggregate(op[a].event)
                          THEN Append(store[x], op[a].event) ELSE store[x]
<1>1. op[a].event \in Event
  BY DEF Save, RuntimeInv, BuiltOK
<1>2. \A x \in Aggregates : store[x] \in Seq(Event) /\ Append(store[x], op[a].event) \in Seq(Event)
  BY <1>1, AppendProperties DEF RuntimeInv, RuntimeTypeOK
<1> QED BY <1>1, <1>2 DEF Save, SaveEvent, RuntimeInv, RuntimeTypeOK

(* A save takes nothing from a log, and adds the event to its own.         *)
LEMMA LogsGrow ==
  ASSUME RuntimeInv, NEW a \in Actors, Save(a), NEW x \in Aggregates
  PROVE  /\ \A i \in DOMAIN store[x] : i \in DOMAIN store'[x] /\ store'[x][i] = store[x][i]
         /\ x = Aggregate(op[a].event) => \E i \in DOMAIN store'[x] : store'[x][i] = op[a].event
<1> DEFINE e == op[a].event
<1>1. e \in Event /\ store'[x] = IF x = Aggregate(e) THEN Append(store[x], e) ELSE store[x]
  BY SaveAppends
<1> HIDE DEF e
<1>2. store[x] \in Seq(Event) /\ DOMAIN store[x] = 1..Len(store[x]) /\ Len(store[x]) \in Nat
  BY LenProperties DEF RuntimeInv, RuntimeTypeOK
<1>3. CASE x = Aggregate(e)
  <2>1. /\ store'[x] \in Seq(Event) /\ Len(store'[x]) = Len(store[x]) + 1
        /\ \A i \in 1..Len(store[x]) : store'[x][i] = store[x][i]
        /\ store'[x][Len(store[x]) + 1] = e
    BY <1>1, <1>2, <1>3, AppendProperties
  <2>2. DOMAIN store'[x] = 1..(Len(store[x]) + 1)
    BY <2>1, LenProperties
  <2> QED BY <1>2, <2>1, <2>2 DEF e
<1>4. CASE x # Aggregate(e)
  BY <1>1, <1>4 DEF e
<1> QED BY <1>3, <1>4

LEMMA SaveKeepsInv ==
  ASSUME RuntimeInv, NEW a \in Actors, Save(a)
  PROVE  RuntimeInv'
<1>1. /\ At(a, "save") /\ op[a].event \in Event
      /\ Goto(a, "publish", op[a].event) /\ UNCHANGED <<busVars, faults>>
  BY SaveAppends DEF Save
<1>2. /\ op' \in [Actors -> [at: Steps, event: Event \cup {NoEvent}]]
      /\ op'[a] = [at |-> "publish", event |-> op[a].event]
      /\ \A b \in Actors \ {a} : op'[b] = op[b]
  <2>1. "publish" \in Steps BY DEF Steps
  <2> QED BY <1>1, <2>1, GotoTyped
<1>3. RuntimeTypeOK' /\ OffsetsOK'
  BY <1>1, <1>2, SaveAppends DEF RuntimeInv, RuntimeTypeOK, OffsetsOK, busVars
<1>4. HandOK'
  BY <1>1, <1>2 DEF RuntimeInv, HandOK, At, busVars, Actors
<1>5. BuiltOK'
  BY <1>1, <1>2 DEF RuntimeInv, BuiltOK, At
<1> QED BY <1>3, <1>4, <1>5 DEF RuntimeInv

(* Whatever becomes of a message, the topic only grows at its end, and     *)
(* only by that message.                                                   *)
LEMMA SendAppends ==
  ASSUME RuntimeInv, NEW m \in Event, Send(m)
  PROVE  /\ topic' \in [Partitions -> Seq(Event)]
         /\ \A p \in Partitions :
              /\ Len(topic[p]) <= Len(topic'[p])
              /\ \A i \in 1..Len(topic[p]) : topic'[p][i] = topic[p][i]
              /\ \A i \in 1..Len(topic'[p]) : i > Len(topic[p]) => topic'[p][i] = m
         /\ UNCHANGED <<position, committed, current>>
         /\ faults' \in 0..MaxFaults
<1>1. topic \in [Partitions -> Seq(Event)] /\ faults \in 0..MaxFaults
  BY DEF RuntimeInv, RuntimeTypeOK
<1>2. faults' \in 0..MaxFaults
  BY <1>1, FaultTyped DEF Send, Fault, NoFault
<1> DEFINE Once(p) == Append(topic[p], m)
           Twice(p) == Append(Once(p), m)
<1>3. ASSUME NEW p \in Partitions
      PROVE  /\ topic[p] \in Seq(Event) /\ Len(topic[p]) \in Nat
             /\ Once(p) \in Seq(Event) /\ Len(Once(p)) = Len(topic[p]) + 1
             /\ \A i \in 1..Len(topic[p]) : Once(p)[i] = topic[p][i]
             /\ Once(p)[Len(topic[p]) + 1] = m
  BY <1>1, AppendProperties, LenProperties
<1>4. ASSUME NEW p \in Partitions
      PROVE  /\ Twice(p) \in Seq(Event) /\ Len(Twice(p)) = Len(topic[p]) + 2
             /\ \A i \in 1..Len(topic[p]) : Twice(p)[i] = topic[p][i]
             /\ Twice(p)[Len(topic[p]) + 1] = m
             /\ Twice(p)[Len(topic[p]) + 2] = m
  <2> HIDE DEF Once
  <2>1. /\ Twice(p) \in Seq(Event) /\ Len(Twice(p)) = Len(Once(p)) + 1
        /\ \A i \in 1..Len(Once(p)) : Twice(p)[i] = Once(p)[i]
        /\ Twice(p)[Len(Once(p)) + 1] = m
    BY <1>3, AppendProperties
  <2> HIDE DEF Twice
  <2> QED BY <1>3, <2>1
<1>5. PICK k \in Partitions :
        \/ topic' = [topic EXCEPT ![k] = Once(k)]
        \/ topic' = [topic EXCEPT ![k] = Twice(k)]
        \/ topic' = topic
  BY <1>1 DEF Send
<1> HIDE DEF Once, Twice
<1>6. topic' \in [Partitions -> Seq(Event)]
  BY <1>1, <1>3, <1>4, <1>5
<1>7. ASSUME NEW p \in Partitions
      PROVE  topic'[p] \in {topic[p], Once(p), Twice(p)}
  BY <1>1, <1>5
<1>8. ASSUME NEW p \in Partitions
      PROVE  /\ Len(topic[p]) <= Len(topic'[p])
             /\ \A i \in 1..Len(topic[p]) : topic'[p][i] = topic[p][i]
             /\ \A i \in 1..Len(topic'[p]) : i > Len(topic[p]) => topic'[p][i] = m
  <2>1. CASE topic'[p] = topic[p] BY <2>1, <1>3
  <2>2. CASE topic'[p] = Once(p) BY <2>2, <1>3
  <2>3. CASE topic'[p] = Twice(p) BY <2>3, <1>3, <1>4
  <2> QED BY <1>7, <2>1, <2>2, <2>3
<1> QED BY <1>2, <1>6, <1>8 DEF Send

(* Sending is the last thing an operation does.                            *)
LEMMA SendKeepsInv ==
  ASSUME RuntimeInv, NEW a \in Actors, a \in Groups => ~At(a, "idle"),
         NEW m \in Event, Send(m), Goto(a, Ended(a), NoEvent), UNCHANGED store
  PROVE  RuntimeInv'
<1>1. /\ op' \in [Actors -> [at: Steps, event: Event \cup {NoEvent}]]
      /\ op'[a] = [at |-> Ended(a), event |-> NoEvent]
      /\ \A b \in Actors \ {a} : op'[b] = op[b]
  <2>1. Ended(a) \in Steps BY DEF Steps, Ended
  <2> QED BY <2>1, GotoTyped
<1>2. /\ topic' \in [Partitions -> Seq(Event)]
      /\ \A p \in Partitions : Len(topic[p]) <= Len(topic'[p])
      /\ UNCHANGED <<position, committed, current>> /\ faults' \in 0..MaxFaults
  BY SendAppends
<1>3. RuntimeTypeOK'
  BY <1>1, <1>2 DEF RuntimeInv, RuntimeTypeOK
<1>4. OffsetsOK'
  <2>1. \A p \in Partitions : Len(topic[p]) \in Nat /\ Len(topic'[p]) \in Nat
    BY <1>2, LenProperties DEF RuntimeInv, RuntimeTypeOK
  <2> QED BY <1>2, <2>1 DEF RuntimeInv, RuntimeTypeOK, OffsetsOK
<1>5. HandOK'
  BY <1>1, <1>2 DEF RuntimeInv, HandOK, At, Actors, Ended
<1>6. BuiltOK'
  BY <1>1 DEF RuntimeInv, BuiltOK, At, Ended
<1> QED BY <1>3, <1>4, <1>5, <1>6 DEF RuntimeInv

LEMMA PublishKeepsInv ==
  ASSUME RuntimeInv, NEW a \in Actors, Publish(a)
  PROVE  RuntimeInv'
<1>1. a \in Groups => ~At(a, "idle")
  BY DEF Publish, At
<1>2. op[a].event \in Event /\ Send(op[a].event) /\ Goto(a, Ended(a), NoEvent) /\ UNCHANGED store
  BY DEF Publish, RuntimeInv, BuiltOK
<1> QED BY <1>1, <1>2, SendKeepsInv

LEMMA ReceiveKeepsInv ==
  ASSUME RuntimeInv, NEW g \in Groups, NEW types, Receive(g, types)
  PROVE  RuntimeInv'
<1>1. PICK p \in Partitions : Fetch(g, p)
  BY DEF Receive
<1>2. At(g, "idle") /\ Goto(g, "handle", NoEvent) /\ UNCHANGED <<store, faults>>
  BY DEF Receive
<1>3. /\ op' \in [Actors -> [at: Steps, event: Event \cup {NoEvent}]]
      /\ op'[g] = [at |-> "handle", event |-> NoEvent]
      /\ \A b \in Actors \ {g} : op'[b] = op[b]
  <2>1. "handle" \in Steps BY DEF Steps
  <2> QED BY <1>2, <2>1, GotoTyped DEF Actors
<1>4. /\ position' = [position EXCEPT ![g][p] = @ + 1] /\ position[g][p] < Len(topic[p])
      /\ current' = [current EXCEPT ![g] = p] /\ UNCHANGED <<topic, committed>>
  BY <1>1 DEF Fetch, Pending
<1>5. RuntimeTypeOK'
  BY <1>2, <1>3, <1>4 DEF RuntimeInv, RuntimeTypeOK
<1>6. OffsetsOK'
  <2>1. Len(topic[p]) \in Nat
    BY LenProperties DEF RuntimeInv, RuntimeTypeOK
  <2> QED BY <1>4, <2>1 DEF RuntimeInv, RuntimeTypeOK, OffsetsOK
<1>7. HandOK'
  <2> SUFFICES ASSUME NEW h \in Groups
               PROVE  /\ current'[h] = NoPartition <=> op'[h].at = "idle"
                      /\ current'[h] # NoPartition => position'[h][current'[h]] > 0
    BY DEF HandOK, At
  <2>1. CASE h = g
    BY <1>3, <1>4, <2>1, BusAssumption DEF RuntimeInv, RuntimeTypeOK
  <2>2. CASE h # g
    BY <1>3, <1>4, <2>2 DEF RuntimeInv, RuntimeTypeOK, HandOK, At, Actors
  <2> QED BY <2>1, <2>2
<1>8. BuiltOK'
  BY <1>3 DEF RuntimeInv, BuiltOK, At
<1> QED BY <1>5, <1>6, <1>7, <1>8 DEF RuntimeInv

LEMMA IgnoreKeepsInv ==
  ASSUME RuntimeInv, NEW g \in Groups, NEW types, Ignore(g, types)
  PROVE  RuntimeInv'
<1>1. PICK p \in Partitions : Pass(g, p)
  BY DEF Ignore
<1>2. At(g, "idle") /\ UNCHANGED <<store, op>>
  BY DEF Ignore
<1>3. /\ position' = [position EXCEPT ![g][p] = @ + 1] /\ position[g][p] < Len(topic[p])
      /\ \/ committed' = [committed EXCEPT ![g][p] = position[g][p] + 1]
         \/ committed' = committed
      /\ UNCHANGED <<topic, current>> /\ faults' \in 0..MaxFaults
  BY <1>1, FaultTyped DEF Pass, Pending, NoFault, Fault, RuntimeInv, RuntimeTypeOK
<1>4. RuntimeTypeOK'
  <2>1. position' \in [Groups -> [Partitions -> Nat]]
    BY <1>3 DEF RuntimeInv, RuntimeTypeOK
  <2>2. committed' \in [Groups -> [Partitions -> Nat]]
    <3>1. committed \in [Groups -> [Partitions -> Nat]] /\ position[g][p] + 1 \in Nat
      BY DEF RuntimeInv, RuntimeTypeOK
    <3>2. [committed EXCEPT ![g][p] = position[g][p] + 1] \in [Groups -> [Partitions -> Nat]]
      BY <3>1
    <3> QED BY <1>3, <3>1, <3>2
  <2> QED BY <1>2, <1>3, <2>1, <2>2 DEF RuntimeInv, RuntimeTypeOK
<1>5. OffsetsOK'
  <2>1. Len(topic[p]) \in Nat
    BY LenProperties DEF RuntimeInv, RuntimeTypeOK
  <2> QED BY <1>3, <2>1 DEF RuntimeInv, RuntimeTypeOK, OffsetsOK
<1>6. HandOK'
  BY <1>2, <1>3 DEF RuntimeInv, RuntimeTypeOK, HandOK, At
<1>7. BuiltOK'
  BY <1>2 DEF RuntimeInv, BuiltOK, At
<1> QED BY <1>4, <1>5, <1>6, <1>7 DEF RuntimeInv

LEMMA CommitKeepsInv ==
  ASSUME RuntimeInv, NEW g \in Groups, CommitMessage(g)
  PROVE  RuntimeInv'
<1>1. At(g, "commit") /\ Goto(g, "idle", NoEvent) /\ UNCHANGED store
  BY DEF CommitMessage
<1>2. /\ op' \in [Actors -> [at: Steps, event: Event \cup {NoEvent}]]
      /\ op'[g] = [at |-> "idle", event |-> NoEvent]
      /\ \A b \in Actors \ {g} : op'[b] = op[b]
  <2>1. "idle" \in Steps BY DEF Steps
  <2> QED BY <1>1, <2>1, GotoTyped DEF Actors
<1>3. /\ \/ committed' = [committed EXCEPT ![g][current[g]] = position[g][current[g]]]
         \/ committed' = committed
      /\ current' = [current EXCEPT ![g] = NoPartition]
      /\ UNCHANGED <<topic, position>> /\ faults' \in 0..MaxFaults
  BY FaultTyped DEF CommitMessage, Commit, NoFault, Fault, RuntimeInv, RuntimeTypeOK
<1>4. current[g] \in Partitions
  BY <1>1 DEF RuntimeInv, RuntimeTypeOK, HandOK, At
<1>5. RuntimeTypeOK'
  <2>1. committed' \in [Groups -> [Partitions -> Nat]]
    <3>1. committed \in [Groups -> [Partitions -> Nat]] /\ position[g][current[g]] \in Nat
      BY <1>4 DEF RuntimeInv, RuntimeTypeOK
    <3>2. [committed EXCEPT ![g][current[g]] = position[g][current[g]]]
            \in [Groups -> [Partitions -> Nat]]
      BY <1>4, <3>1
    <3> QED BY <1>3, <3>1, <3>2
  <2>2. current' \in [Groups -> Partitions \cup {NoPartition}]
    BY <1>3 DEF RuntimeInv, RuntimeTypeOK
  <2> QED BY <1>1, <1>2, <1>3, <2>1, <2>2 DEF RuntimeInv, RuntimeTypeOK
<1>6. OffsetsOK'
  <2>1. ASSUME NEW h \in Groups, NEW p \in Partitions
        PROVE  committed'[h][p] \in {committed[h][p], position[h][p]}
    <3> DEFINE new == [committed EXCEPT ![g][current[g]] = position[g][current[g]]]
    <3>1. committed \in [Groups -> [Partitions -> Nat]]
      BY DEF RuntimeInv, RuntimeTypeOK
    <3>2. new[h][p] \in {committed[h][p], position[h][p]}
      BY <1>4, <3>1
    <3> HIDE DEF new
    <3> QED BY <1>3, <3>2 DEF new
  <2>2. \A h \in Groups, p \in Partitions :
          /\ committed[h][p] <= position[h][p] /\ position[h][p] <= Len(topic[p])
          /\ position[h][p] \in Nat
    BY DEF RuntimeInv, RuntimeTypeOK, OffsetsOK
  <2>3. \A h \in Groups, p \in Partitions : committed'[h][p] <= position[h][p]
    BY <2>1, <2>2
  <2> QED BY <1>3, <2>2, <2>3 DEF OffsetsOK
<1>7. HandOK'
  BY <1>2, <1>3 DEF RuntimeInv, RuntimeTypeOK, HandOK, At, Actors
<1>8. BuiltOK'
  BY <1>2 DEF RuntimeInv, BuiltOK, At
<1> QED BY <1>5, <1>6, <1>7, <1>8 DEF RuntimeInv

(* What a crash of service g leaves of every actor's operation.            *)
LEMMA CrashEnds ==
  ASSUME RuntimeInv, NEW g \in Groups, Crash(g)
  PROVE  /\ op' \in [Actors -> [at: Steps, event: Event \cup {NoEvent}]]
         /\ op'[g] = [at |-> "idle", event |-> NoEvent]
         /\ \A a \in Groups \ {g} : op'[a] = op[a]
         /\ \A a \in Actors : op'[a] = op[a] \/ op'[a].at \in {"idle", "done"}
<1>1. \A a \in Actors : op'[a] \in [at: Steps, event: Event \cup {NoEvent}]
  BY DEF Crash, RuntimeInv, RuntimeTypeOK, Steps
<1>2. op' = [a \in Actors |-> op'[a]]
  BY DEF Crash
<1>3. op' \in [Actors -> [at: Steps, event: Event \cup {NoEvent}]]
  BY <1>1, <1>2
<1>4. \A a \in Groups : Host(a) = a
  BY RuntimeAssumption DEF Host, Calls
<1>5. /\ \A a \in Groups \ {g} : op'[a] = op[a]
      /\ op'[g] = [at |-> "idle", event |-> NoEvent]
  BY <1>4 DEF Crash, Actors
<1>6. \A a \in Actors : op'[a] = op[a] \/ op'[a].at \in {"idle", "done"}
  BY DEF Crash
<1> QED BY <1>3, <1>4, <1>5, <1>6

LEMMA CrashKeepsInv ==
  ASSUME RuntimeInv, NEW g \in Groups, Crash(g)
  PROVE  RuntimeInv'
<1>1. /\ position' = [position EXCEPT ![g] = committed[g]]
      /\ current' = [current EXCEPT ![g] = NoPartition]
      /\ UNCHANGED <<topic, committed, store>> /\ faults' \in 0..MaxFaults
  BY FaultTyped DEF Crash, Rejoin, Fault, RuntimeInv, RuntimeTypeOK
<1>2. RuntimeTypeOK'
  BY <1>1, CrashEnds DEF RuntimeInv, RuntimeTypeOK
<1>3. OffsetsOK'
  <2>1. \A p \in Partitions : Len(topic[p]) \in Nat
    BY LenProperties DEF RuntimeInv, RuntimeTypeOK
  <2> QED BY <1>1, <2>1 DEF RuntimeInv, RuntimeTypeOK, OffsetsOK
<1>4. HandOK'
  BY <1>1, CrashEnds DEF RuntimeInv, RuntimeTypeOK, HandOK, At
<1>5. BuiltOK'
  BY CrashEnds DEF RuntimeInv, BuiltOK, At
<1> QED BY <1>2, <1>3, <1>4, <1>5 DEF RuntimeInv

(* A message in hand stays the same as long as its consumer does not move: *)
(* the topic is only appended to.                                          *)
LEMMA SendKeepsHand ==
  ASSUME RuntimeInv, NEW m \in Event, Send(m), NEW g \in Groups, ~At(g, "idle")
  PROVE  InHand(g)' = InHand(g)
<1>1. current[g] \in Partitions /\ position[g][current[g]] \in 1..Len(topic[current[g]])
  BY DEF RuntimeInv, RuntimeTypeOK, OffsetsOK, HandOK
<1> QED BY <1>1, SendAppends DEF InHand

(* What a consumer receives is an event of a type its handler acts on.     *)
LEMMA ReceiveHands ==
  ASSUME RuntimeInv, NEW g \in Groups, NEW types, Receive(g, types)
  PROVE  InHand(g)' \in Event /\ InHand(g)'.type \in types
<1>1. PICK p \in Partitions : Fetch(g, p) /\ NextMessage(g, p).type \in types
  BY DEF Receive
<1>2. position'[g][p] = position[g][p] + 1 /\ current'[g] = p /\ topic' = topic
  BY <1>1 DEF Fetch, RuntimeInv, RuntimeTypeOK
<1>3. InHand(g)' = NextMessage(g, p)
  BY <1>2 DEF InHand, NextMessage
<1>4. position[g][p] + 1 \in 1..Len(topic[p]) /\ topic[p] \in Seq(Event)
  <2>1. topic[p] \in Seq(Event) /\ Len(topic[p]) \in Nat /\ position[g][p] \in Nat
    BY LenProperties DEF RuntimeInv, RuntimeTypeOK
  <2> QED BY <1>1, <2>1 DEF Fetch, Pending
<1> QED BY <1>1, <1>3, <1>4, ElementOfSeq DEF NextMessage

----
(* A step that leaves a consumer its offsets leaves it its message.        *)
HandKept(g) ==
  /\ current'[g] = current[g]
  /\ position'[g] = position[g]
  /\ committed'[g] = committed[g]
  /\ \A p \in Partitions : \A i \in 1..Len(topic[p]) : topic'[p][i] = topic[p][i]

LEMMA HandSame ==
  ASSUME RuntimeInv, RuntimeInv', NEW g \in Groups, HandKept(g)
  PROVE  /\ At(g, "idle")' <=> At(g, "idle")
         /\ ~At(g, "idle") => InHand(g)' = InHand(g)
<1>1. At(g, "idle")' <=> At(g, "idle")
  BY DEF RuntimeInv, HandOK, HandKept
<1>2. ASSUME ~At(g, "idle") PROVE InHand(g)' = InHand(g)
  <2>1. current[g] \in Partitions /\ position[g][current[g]] \in 1..Len(topic[current[g]])
    BY <1>2 DEF RuntimeInv, RuntimeTypeOK, OffsetsOK, HandOK
  <2> QED BY <2>1 DEF HandKept, InHand
<1> QED BY <1>1, <1>2

LEMMA StillKeepsHands ==
  ASSUME UNCHANGED busVars, NEW g \in Groups PROVE HandKept(g)
BY DEF busVars, HandKept

LEMMA WritesKeepHands ==
  ASSUME RuntimeInv, NEW a \in Actors, Save(a) \/ StoreFails(a) \/ Publish(a),
         NEW g \in Groups
  PROVE  HandKept(g)
<1>1. CASE Save(a) \/ StoreFails(a)
  BY <1>1, StillKeepsHands DEF Save, StoreFails
<1>2. CASE Publish(a)
  <2>1. op[a].event \in Event /\ Send(op[a].event)
    BY <1>2 DEF Publish, RuntimeInv, BuiltOK
  <2> QED BY <2>1, SendAppends DEF HandKept
<1> QED BY <1>1, <1>2

(* What one consumer does with its place does not touch another's.         *)
LEMMA ConsumersKeepHands ==
  ASSUME RuntimeInv, NEW g \in Groups, NEW h \in Groups \ {g}, NEW types,
         Receive(h, types) \/ Ignore(h, types) \/ CommitMessage(h) \/ Crash(h)
  PROVE  HandKept(g) /\ op'[g] = op[g]
<1> USE DEF RuntimeInv, RuntimeTypeOK, HandKept
<1>1. CASE Receive(h, types)
  BY <1>1 DEF Receive, Fetch, Goto, Actors
<1>2. CASE Ignore(h, types)
  BY <1>2 DEF Ignore, Pass
<1>3. CASE CommitMessage(h)
  BY <1>3 DEF CommitMessage, Commit, Goto, Actors
<1>4. CASE Crash(h)
  <2>1. HandKept(g)
    BY <1>4 DEF Crash, Rejoin
  <2>2. op'[g] = op[g]
    BY <1>4, CrashEnds
  <2> QED BY <2>1, <2>2
<1> QED BY <1>1, <1>2, <1>3, <1>4

(* A step that moves operations along, and perhaps writes to the topic,    *)
(* but lets no consumer begin or end with its message.                     *)
LEMMA MoveKeepsInv ==
  ASSUME RuntimeInv,
         op' \in [Actors -> [at: Steps, event: Event \cup {NoEvent}]],
         \A g \in Groups : op'[g].at = "idle" <=> op[g].at = "idle",
         \A a \in Actors : op'[a].at \in {"save", "publish"} => op'[a].event \in Event,
         UNCHANGED <<store, position, committed, current>>,
         topic' \in [Partitions -> Seq(Event)],
         \A p \in Partitions : Len(topic[p]) <= Len(topic'[p]),
         faults' \in 0..MaxFaults
  PROVE  RuntimeInv'
<1>1. RuntimeTypeOK'
  BY DEF RuntimeInv, RuntimeTypeOK
<1>2. OffsetsOK'
  <2>1. \A p \in Partitions : Len(topic[p]) \in Nat /\ Len(topic'[p]) \in Nat
    BY LenProperties DEF RuntimeInv, RuntimeTypeOK
  <2> QED BY <2>1 DEF RuntimeInv, RuntimeTypeOK, OffsetsOK
<1>3. HandOK'
  BY DEF RuntimeInv, HandOK, At
<1>4. BuiltOK'
  BY DEF BuiltOK, At
<1> QED BY <1>1, <1>2, <1>3, <1>4 DEF RuntimeInv

----
(* A non-empty set of indices has a greatest member: the distances from n  *)
(* have a least one.                                                       *)
LEMMA MaxIsMember ==
  ASSUME NEW n \in Nat, NEW S \in SUBSET (1..n), S # {}
  PROVE  Max(S) \in S /\ \A y \in S : Max(S) >= y
<1> DEFINE T == {n - i : i \in S}
<1>1. T # {}
  OBVIOUS
<1>2. T \subseteq Nat
  OBVIOUS
<1>3. PICK x \in T : \A y \in T : ~(<<y, x>> \in OpToRel(<, Nat))
  <2> HIDE DEF T
  <2> QED BY <1>1, <1>2, NatLessThanWellFounded, WFMin
<1>4. \A y \in T : ~(y < x)
  BY <1>2, <1>3 DEF OpToRel
<1>5. PICK i \in S : x = n - i
  OBVIOUS
<1>6. ASSUME NEW y \in S PROVE i >= y
  <2>1. n - y \in T
    OBVIOUS
  <2>2. ~(n - y < n - i)
    BY <1>4, <1>5, <2>1
  <2> QED BY <2>2
<1> QED BY <1>6 DEF Max

(* And a least one.                                                        *)
LEMMA MinIsMember ==
  ASSUME NEW S \in SUBSET Nat, S # {}
  PROVE  Min(S) \in S /\ \A y \in S : Min(S) <= y
<1>1. PICK x \in S : \A y \in S : ~(<<y, x>> \in OpToRel(<, Nat))
  BY NatLessThanWellFounded, WFMin
<1>2. ASSUME NEW y \in S PROVE x <= y
  <2>1. x \in Nat /\ y \in Nat
    OBVIOUS
  <2>2. ~(y < x)
    BY <1>1, <2>1 DEF OpToRel
  <2> QED BY <2>1, <2>2
<1> QED BY <1>2 DEF Min

(* Induction, for a set of numbers: the least number that is not in it     *)
(* cannot be.                                                              *)
LEMMA SetInduction ==
  ASSUME NEW T \in SUBSET Nat, 0 \in T, \A k \in T : k + 1 \in T
  PROVE  T = Nat
<1> SUFFICES ASSUME Nat \ T # {} PROVE FALSE
  OBVIOUS
<1>1. PICK k \in Nat \ T : \A j \in Nat \ T : k <= j
  BY MinIsMember
<1>2. k - 1 \in Nat /\ k - 1 < k
  BY <1>1
<1>3. k - 1 \in T
  BY <1>1, <1>2
<1> QED BY <1>1, <1>2, <1>3

=============================================================================
