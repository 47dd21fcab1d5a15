-------------------------- MODULE ConsumerLoopProofs --------------------------
(***************************************************************************)
(* For every number of groups, partitions, messages and faults: the loop   *)
(* of consumeEvents commits nothing its handler has not been given, and    *)
(* gives it the messages of a partition in their order.                    *)
(*                                                                         *)
(* Neither is inductive: a commit speaks of the message in hand, and a     *)
(* crash returns to the committed offset.  The invariant says of every     *)
(* message a group has fetched that it was tried or is in hand, and that   *)
(* the one in hand is not committed yet.                                   *)
(*                                                                         *)
(* The second part is about the metrics service on this loop: MetricsInv   *)
(* adds where its process began, and each step is shown to leave the set   *)
(* of counted messages as it is or to add the one in hand to it.           *)
(***************************************************************************)
EXTENDS MetricsService, SequenceTheorems, FiniteSetTheorems, TLAPS

HandOK ==
  \A g \in Groups :
    IF phase[g] = "fetch" THEN current[g] = NoPartition
    ELSE /\ current[g] \in Partitions
         /\ position[g][current[g]] >= 1

InHandNow(g, p, i) == phase[g] = "handle" /\ current[g] = p /\ i = position[g][p]

FetchedOK ==
  \A g \in Groups, p \in Partitions :
    /\ committed[g][p] <= position[g][p]
    /\ phase[g] = "handle" /\ current[g] = p => committed[g][p] < position[g][p]
    /\ \A i \in 1..position[g][p] : Tried(g, p, i) \/ InHandNow(g, p, i)

TriedOK ==
  \A g \in Groups : \A p \in Partitions, n \in Nat :
    <<p, n>> \in tried[g] =>
      n \in 1..Len(topic[p]) /\ \A i \in 1..(n - 1) : Tried(g, p, i)

LoopInv == LoopTypeOK /\ HandOK /\ FetchedOK /\ TriedOK

LEMMA LoopInitInv == LoopInit => LoopInv
<1> SUFFICES ASSUME LoopInit PROVE LoopInv
  OBVIOUS
<1>1. /\ \A p \in Partitions : topic[p] = <<>> /\ Len(topic[p]) = 0
      /\ topic \in [Partitions -> Seq(Messages)]
  BY DEF LoopInit, BusInit
<1>2. LoopTypeOK
  BY <1>1, FaultsAssumption DEF LoopInit, BusInit, FaultsInit, LoopTypeOK, Phases
<1>3. HandOK /\ TriedOK
  BY DEF LoopInit, BusInit, HandOK, TriedOK
<1>4. FetchedOK
  BY DEF LoopInit, BusInit, FetchedOK
<1> QED BY <1>2, <1>3, <1>4 DEF LoopInv

LEMMA FaultCounted ==
  ASSUME faults \in 0..MaxFaults,
         NoFault \/ \E kind \in {"loss", "duplicate", "commit", "crash"} : Fault(kind)
  PROVE  faults' \in 0..MaxFaults
BY FaultsAssumption DEF NoFault, Fault

----
(* A producer only adds to the topic.                                      *)
LEMMA SendGrows ==
  ASSUME topic \in [Partitions -> Seq(Messages)], faults \in 0..MaxFaults,
         NEW m \in Messages, Send(m)
  PROVE  /\ topic' \in [Partitions -> Seq(Messages)]
         /\ \A p \in Partitions :
              /\ Len(topic[p]) <= Len(topic'[p])
              /\ \A i \in 1..Len(topic[p]) : topic'[p][i] = topic[p][i]
         /\ faults' \in 0..MaxFaults
<1>1. PICK p \in Partitions :
        \/ topic' = [topic EXCEPT ![p] = Append(@, m)] /\ (NoFault \/ Fault("loss"))
        \/ topic' = [topic EXCEPT ![p] = Append(Append(@, m), m)] /\ Fault("duplicate")
        \/ UNCHANGED topic /\ Fault("loss")
  BY DEF Send
<1>2. faults' \in 0..MaxFaults
  BY <1>1, FaultCounted
<1> DEFINE one == Append(topic[p], m)
           two == Append(one, m)
<1>3. topic[p] \in Seq(Messages) /\ Len(topic[p]) \in Nat
  BY LenProperties
<1>4. /\ one \in Seq(Messages) /\ Len(one) = Len(topic[p]) + 1
      /\ \A i \in 1..Len(topic[p]) : one[i] = topic[p][i]
  BY <1>3, AppendProperties
<1> HIDE DEF one
<1>5. /\ two \in Seq(Messages) /\ Len(two) = Len(one) + 1
      /\ \A i \in 1..Len(one) : two[i] = one[i]
  BY <1>4, AppendProperties
<1> HIDE DEF two
<1>6. topic' = [topic EXCEPT ![p] = one] \/ topic' = [topic EXCEPT ![p] = two] \/ topic' = topic
  BY <1>1 DEF one, two
<1>7. \A q \in Partitions : Len(topic[q]) \in Nat
  BY LenProperties
<1>8. topic' \in [Partitions -> Seq(Messages)]
  BY <1>4, <1>5, <1>6
<1>9. ASSUME NEW q \in Partitions
      PROVE  /\ Len(topic[q]) <= Len(topic'[q])
             /\ \A i \in 1..Len(topic[q]) : topic'[q][i] = topic[q][i]
  <2>1. CASE topic'[q] = topic[q]
    BY <1>7, <2>1
  <2>2. CASE q = p /\ topic'[q] = one
    BY <1>3, <1>4, <2>2
  <2>3. CASE q = p /\ topic'[q] = two
    BY <1>3, <1>4, <1>5, <2>3
  <2> QED BY <1>6, <2>1, <2>2, <2>3
<1> QED BY <1>2, <1>8, <1>9

LEMMA ProduceInv == ASSUME LoopInv, NEW m \in Messages, Produce(m) PROVE LoopInv'
<1>1. /\ topic' \in [Partitions -> Seq(Messages)] /\ faults' \in 0..MaxFaults
      /\ \A p \in Partitions :
           /\ Len(topic[p]) <= Len(topic'[p])
           /\ \A i \in 1..Len(topic[p]) : topic'[p][i] = topic[p][i]
  BY SendGrows DEF LoopInv, LoopTypeOK, Produce
<1>2. UNCHANGED <<position, committed, current, phase, tried>>
  BY DEF Produce, Send
<1>3. \A p \in Partitions : Len(topic[p]) \in Nat /\ Len(topic'[p]) \in Nat
  BY <1>1, LenProperties DEF LoopInv, LoopTypeOK
<1>4. LoopTypeOK' /\ HandOK'
  BY <1>1, <1>2, <1>3 DEF LoopInv, LoopTypeOK, HandOK
<1>5. \A g \in Groups, p \in Partitions : \A i \in 1..Len(topic[p]) :
        Tried(g, p, i) => Tried(g, p, i)'
  BY <1>1, <1>2 DEF Tried
<1>6. FetchedOK'
  <2>1. \A g \in Groups, p \in Partitions : position[g][p] \in Nat /\ position[g][p] <= Len(topic[p])
    BY DEF LoopInv, LoopTypeOK
  <2>2. \A g \in Groups, p \in Partitions : 1..position[g][p] \subseteq 1..Len(topic[p])
    BY <1>3, <2>1
  <2> QED BY <1>2, <1>5, <2>2 DEF LoopInv, FetchedOK, InHandNow
<1>7. TriedOK'
  <2> SUFFICES ASSUME NEW g \in Groups, NEW p \in Partitions, NEW n \in Nat, <<p, n>> \in tried[g]
               PROVE  n \in 1..Len(topic'[p]) /\ \A i \in 1..(n - 1) : Tried(g, p, i)'
    BY <1>2 DEF TriedOK
  <2>1. n \in 1..Len(topic[p]) /\ \A i \in 1..(n - 1) : Tried(g, p, i)
    BY DEF LoopInv, TriedOK
  <2> QED BY <1>1, <1>3, <1>5, <2>1
<1> QED BY <1>4, <1>6, <1>7 DEF LoopInv

(* A step of one group leaves what is known of the others alone.           *)
LEMMA OthersKept ==
  ASSUME LoopInv, NEW g \in Groups, LoopTypeOK', UNCHANGED topic,
         \A k \in Groups \ {g} :
           /\ position'[k] = position[k] /\ committed'[k] = committed[k]
           /\ current'[k] = current[k] /\ phase'[k] = phase[k] /\ tried'[k] = tried[k],
         IF phase'[g] = "fetch" THEN current'[g] = NoPartition
         ELSE current'[g] \in Partitions /\ position'[g][current'[g]] >= 1,
         \A p \in Partitions :
           /\ committed'[g][p] <= position'[g][p]
           /\ phase'[g] = "handle" /\ current'[g] = p => committed'[g][p] < position'[g][p]
           /\ \A i \in 1..position'[g][p] : Tried(g, p, i)' \/ InHandNow(g, p, i)',
         \A p \in Partitions, n \in Nat : <<p, n>> \in tried'[g] =>
           n \in 1..Len(topic[p]) /\ \A i \in 1..(n - 1) : Tried(g, p, i)'
  PROVE  LoopInv'
<1>1. HandOK'
  BY DEF LoopInv, HandOK
<1>2. FetchedOK'
  <2> SUFFICES ASSUME NEW k \in Groups, NEW p \in Partitions
               PROVE  /\ committed'[k][p] <= position'[k][p]
                      /\ phase'[k] = "handle" /\ current'[k] = p
                           => committed'[k][p] < position'[k][p]
                      /\ \A i \in 1..position'[k][p] : Tried(k, p, i)' \/ InHandNow(k, p, i)'
    BY DEF FetchedOK
  <2>1. CASE k = g
    BY <2>1
  <2>2. CASE k # g
    BY <2>2 DEF LoopInv, FetchedOK, Tried, InHandNow
  <2> QED BY <2>1, <2>2
<1>3. TriedOK'
  <2> SUFFICES ASSUME NEW k \in Groups, NEW p \in Partitions, NEW n \in Nat, <<p, n>> \in tried'[k]
               PROVE  n \in 1..Len(topic'[p]) /\ \A i \in 1..(n - 1) : Tried(k, p, i)'
    BY DEF TriedOK
  <2>1. CASE k = g
    BY <2>1
  <2>2. CASE k # g
    BY <2>2 DEF LoopInv, TriedOK, Tried
  <2> QED BY <2>1, <2>2
<1> QED BY <1>1, <1>2, <1>3 DEF LoopInv

LEMMA FetchInv == ASSUME LoopInv, NEW g \in Groups, FetchStep(g) PROVE LoopInv'
<1>1. PICK p \in Partitions : Fetch(g, p)
  BY DEF FetchStep
<1>2. PICK n \in Nat : n = position[g][p] + 1 /\ n >= 1
  BY DEF LoopInv, LoopTypeOK
<1>3. /\ position' = [position EXCEPT ![g][p] = n] /\ current' = [current EXCEPT ![g] = p]
      /\ UNCHANGED <<topic, committed, faults, tried>> /\ n <= Len(topic[p])
      /\ phase[g] = "fetch"
      /\ phase' = [phase EXCEPT ![g] = IF InHand(g)' \in Undecodable THEN "commit" ELSE "handle"]
  <2>1. position[g][p] \in Nat /\ Len(topic[p]) \in Nat
    BY LenProperties DEF LoopInv, LoopTypeOK
  <2>2. position[g][p] < Len(topic[p])
    BY <1>1 DEF Fetch, Pending
  <2>3. n <= Len(topic[p])
    BY <1>2, <2>1, <2>2
  <2> QED BY <1>1, <1>2, <2>3 DEF Fetch, FetchStep
<1>4. /\ position' \in [Groups -> [Partitions -> Nat]] /\ position'[g][p] = n
      /\ \A q \in Partitions \ {p} : position'[g][q] = position[g][q]
      /\ \A k \in Groups \ {g} : position'[k] = position[k]
  BY <1>3 DEF LoopInv, LoopTypeOK
<1>5. /\ current' \in [Groups -> Partitions \cup {NoPartition}] /\ current'[g] = p
      /\ \A k \in Groups \ {g} : current'[k] = current[k] /\ phase'[k] = phase[k]
      /\ phase' \in [Groups -> Phases]
      /\ phase'[g] = IF InHand(g)' \in Undecodable THEN "commit" ELSE "handle"
  BY <1>3 DEF LoopInv, LoopTypeOK, Phases
<1>6. InHand(g)' = topic[p][n]
  BY <1>3, <1>4, <1>5 DEF InHand
<1>7. LoopTypeOK'
  <2>1. \A k \in Groups, q \in Partitions : position'[k][q] <= Len(topic[q])
    BY <1>3, <1>4 DEF LoopInv, LoopTypeOK
  <2> QED BY <1>3, <1>4, <1>5, <2>1 DEF LoopInv, LoopTypeOK
<1>8. ASSUME NEW q \in Partitions
      PROVE  /\ committed'[g][q] <= position'[g][q]
             /\ phase'[g] = "handle" /\ current'[g] = q => committed'[g][q] < position'[g][q]
             /\ \A i \in 1..position'[g][q] : Tried(g, q, i)' \/ InHandNow(g, q, i)'
  <2>1. /\ committed[g][q] \in Nat /\ position[g][q] \in Nat /\ committed[g][q] <= position[g][q]
        /\ \A i \in 1..position[g][q] : Tried(g, q, i)
    BY <1>3 DEF LoopInv, LoopTypeOK, FetchedOK, InHandNow
  <2>2. \A i \in 1..position[g][q] : Tried(g, q, i)'
    BY <1>3, <2>1 DEF Tried
  <2>3. CASE q = p
    <3>1. n = position[g][q] + 1 /\ position'[g][q] = n
      BY <1>4, <1>2, <2>3
    <3>2. Tried(g, q, n)' \/ InHandNow(g, q, n)'
      <4>1. CASE topic[p][n] \in Undecodable
        BY <1>3, <2>3, <4>1 DEF Tried
      <4>2. CASE topic[p][n] \notin Undecodable
        BY <1>4, <1>5, <1>6, <2>3, <4>2 DEF InHandNow
      <4> QED BY <4>1, <4>2
    <3>3. \A i \in 1..n : i \in 1..position[g][q] \/ i = n
      BY <2>1, <3>1
    <3>4. committed'[g][q] <= n /\ committed'[g][q] < n
      BY <1>3, <2>1, <3>1
    <3> QED BY <2>2, <3>1, <3>2, <3>3, <3>4 DEF Tried, InHandNow
  <2>4. CASE q # p
    BY <1>3, <1>4, <1>5, <2>1, <2>2, <2>4
  <2> QED BY <2>3, <2>4
<1>9. \A q \in Partitions, i \in Nat : <<q, i>> \in tried'[g] =>
        i \in 1..Len(topic[q]) /\ \A j \in 1..(i - 1) : Tried(g, q, j)'
  BY <1>3 DEF LoopInv, TriedOK, Tried
<1> QED BY <1>3, <1>2, <1>4, <1>5, <1>7, <1>8, <1>9, OthersKept

LEMMA HandleInv == ASSUME LoopInv, NEW g \in Groups, HandleStep(g) PROVE LoopInv'
<1>1. PICK p \in Partitions, n \in Nat :
        p = current[g] /\ n = position[g][p] /\ n >= 1 /\ n <= Len(topic[p])
  <2>1. current[g] \in Partitions /\ position[g][current[g]] >= 1
    BY DEF HandleStep, LoopInv, HandOK
  <2>2. /\ position[g][current[g]] \in Nat
        /\ position[g][current[g]] <= Len(topic[current[g]])
    BY <2>1 DEF LoopInv, LoopTypeOK
  <2> QED BY <2>1, <2>2
<1>2. /\ UNCHANGED <<topic, position, committed, current, faults>> /\ phase[g] = "handle"
      /\ tried' = [tried EXCEPT ![g] = @ \cup {<<p, n>>}]
      /\ phase' = [phase EXCEPT ![g] = "commit"]
  BY <1>1 DEF HandleStep, busVars
<1>3. /\ tried' \in [Groups -> SUBSET (Partitions \X Nat)] /\ tried'[g] = tried[g] \cup {<<p, n>>}
      /\ \A k \in Groups \ {g} : tried'[k] = tried[k] /\ phase'[k] = phase[k]
      /\ phase' \in [Groups -> Phases] /\ phase'[g] = "commit"
  BY <1>2, <1>1 DEF LoopInv, LoopTypeOK, Phases
<1>4. LoopTypeOK'
  BY <1>2, <1>3 DEF LoopInv, LoopTypeOK
<1>5. ASSUME NEW q \in Partitions
      PROVE  /\ committed[g][q] <= position[g][q]
             /\ \A i \in 1..position[g][q] : Tried(g, q, i)'
  <2>1. committed[g][q] <= position[g][q]
        /\ \A i \in 1..position[g][q] : Tried(g, q, i) \/ InHandNow(g, q, i)
    BY DEF LoopInv, FetchedOK
  <2>2. ASSUME NEW i, Tried(g, q, i) \/ InHandNow(g, q, i) PROVE Tried(g, q, i)'
    BY <1>2, <1>1, <1>3, <2>2 DEF Tried, InHandNow
  <2> QED BY <2>1, <2>2
<1>6. ASSUME NEW q \in Partitions, NEW i \in Nat, <<q, i>> \in tried'[g]
      PROVE  i \in 1..Len(topic[q]) /\ \A j \in 1..(i - 1) : Tried(g, q, j)'
  <2>1. CASE <<q, i>> \in tried[g]
    BY <1>2, <1>3, <2>1 DEF LoopInv, TriedOK, Tried
  <2>2. CASE q = p /\ i = n
    <3>1. n \in 1..Len(topic[p]) /\ \A j \in 1..(n - 1) : j \in 1..n
      <4>1. Len(topic[p]) \in Nat
        BY <1>1, LenProperties DEF LoopInv, LoopTypeOK
      <4> QED BY <1>1, <4>1
    <3>2. \A j \in 1..n : Tried(g, p, j)'
      BY <1>1, <1>5 DEF Tried
    <3> QED BY <2>2, <3>1, <3>2 DEF Tried
  <2> QED BY <1>3, <1>6, <2>1, <2>2
<1> QED BY <1>2, <1>1, <1>3, <1>4, <1>5, <1>6, OthersKept

LEMMA CommitInv == ASSUME LoopInv, NEW g \in Groups, CommitStep(g) PROVE LoopInv'
<1>1. PICK p \in Partitions, n \in Nat : p = current[g] /\ n = position[g][p]
  BY DEF CommitStep, LoopInv, LoopTypeOK, HandOK
<1>2. /\ UNCHANGED <<topic, position, tried>> /\ phase[g] = "commit"
      /\ committed' = committed \/ committed' = [committed EXCEPT ![g][p] = n]
      /\ current' = [current EXCEPT ![g] = NoPartition]
      /\ phase' = [phase EXCEPT ![g] = "fetch"]
  BY <1>1 DEF CommitStep, Commit
<1>3. faults' \in 0..MaxFaults
  BY FaultCounted DEF CommitStep, Commit, LoopInv, LoopTypeOK
<1>4. /\ committed' \in [Groups -> [Partitions -> Nat]]
      /\ \A q \in Partitions :
           committed'[g][q] = committed[g][q] \/ (q = p /\ committed'[g][q] = n)
      /\ \A k \in Groups \ {g} : committed'[k] = committed[k]
  <2>1. committed \in [Groups -> [Partitions -> Nat]]
    BY DEF LoopInv, LoopTypeOK
  <2>2. committed' = committed \/ committed' = [committed EXCEPT ![g][p] = n]
    BY <1>2
  <2> DEFINE row == [committed[g] EXCEPT ![p] = n]
  <2>3. /\ row \in [Partitions -> Nat]
        /\ \A q \in Partitions : row[q] = committed[g][q] \/ (q = p /\ row[q] = n)
    BY <1>1, <2>1
  <2>4. committed' = committed \/ committed' = [committed EXCEPT ![g] = row]
    BY <2>2
  <2> HIDE DEF row
  <2> QED BY <2>1, <2>3, <2>4
<1>5. /\ current' \in [Groups -> Partitions \cup {NoPartition}] /\ current'[g] = NoPartition
      /\ phase' \in [Groups -> Phases] /\ phase'[g] = "fetch"
      /\ \A k \in Groups \ {g} : current'[k] = current[k] /\ phase'[k] = phase[k]
  BY <1>2 DEF LoopInv, LoopTypeOK, Phases
<1>6. LoopTypeOK'
  BY <1>2, <1>3, <1>4, <1>5 DEF LoopInv, LoopTypeOK
<1>7. ASSUME NEW q \in Partitions
      PROVE  /\ committed'[g][q] <= position[g][q]
             /\ \A i \in 1..position[g][q] : Tried(g, q, i)'
  <2>1. /\ committed[g][q] <= position[g][q] /\ position[g][q] \in Nat
        /\ \A i \in 1..position[g][q] : Tried(g, q, i)
    BY <1>2 DEF LoopInv, LoopTypeOK, FetchedOK, InHandNow
  <2> QED BY <1>2, <1>1, <1>4, <2>1 DEF Tried
<1>8. \A q \in Partitions, i \in Nat : <<q, i>> \in tried'[g] =>
        i \in 1..Len(topic[q]) /\ \A j \in 1..(i - 1) : Tried(g, q, j)'
  BY <1>2 DEF LoopInv, TriedOK, Tried
<1> QED BY <1>2, <1>4, <1>5, <1>6, <1>7, <1>8, OthersKept

LEMMA CrashInv == ASSUME LoopInv, NEW g \in Groups, CrashStep(g) PROVE LoopInv'
<1>1. /\ UNCHANGED <<topic, committed, tried>>
      /\ position' = [position EXCEPT ![g] = committed[g]]
      /\ current' = [current EXCEPT ![g] = NoPartition]
      /\ phase' = [phase EXCEPT ![g] = "fetch"]
  BY DEF CrashStep, Rejoin
<1>2. faults' \in 0..MaxFaults
  BY FaultCounted DEF CrashStep, Rejoin, LoopInv, LoopTypeOK
<1>3. /\ position' \in [Groups -> [Partitions -> Nat]] /\ position'[g] = committed[g]
      /\ \A k \in Groups \ {g} : position'[k] = position[k]
  BY <1>1 DEF LoopInv, LoopTypeOK
<1>4. /\ current' \in [Groups -> Partitions \cup {NoPartition}] /\ current'[g] = NoPartition
      /\ phase' \in [Groups -> Phases] /\ phase'[g] = "fetch"
      /\ \A k \in Groups \ {g} : current'[k] = current[k] /\ phase'[k] = phase[k]
  BY <1>1 DEF LoopInv, LoopTypeOK, Phases
<1>5. ASSUME NEW q \in Partitions
      PROVE  /\ committed[g][q] \in Nat /\ committed[g][q] <= position[g][q]
             /\ \A i \in 1..committed[g][q] : Tried(g, q, i)'
  <2>1. /\ committed[g][q] \in Nat /\ position[g][q] \in Nat /\ committed[g][q] <= position[g][q]
        /\ phase[g] = "handle" /\ current[g] = q => committed[g][q] < position[g][q]
        /\ \A i \in 1..position[g][q] : Tried(g, q, i) \/ InHandNow(g, q, i)
    BY DEF LoopInv, LoopTypeOK, FetchedOK
  <2>2. \A i \in 1..committed[g][q] : i \in 1..position[g][q] /\ ~InHandNow(g, q, i)
    BY <2>1 DEF InHandNow
  <2> QED BY <1>1, <2>1, <2>2 DEF Tried
<1>6. LoopTypeOK'
  <2>1. \A k \in Groups, q \in Partitions : position'[k][q] <= Len(topic[q])
    <3> SUFFICES ASSUME NEW k \in Groups, NEW q \in Partitions PROVE position'[k][q] <= Len(topic[q])
      OBVIOUS
    <3>1. /\ position[k][q] \in Nat /\ position[k][q] <= Len(topic[q]) /\ Len(topic[q]) \in Nat
          /\ position[g][q] \in Nat /\ position[g][q] <= Len(topic[q])
      BY LenProperties DEF LoopInv, LoopTypeOK
    <3> QED BY <1>3, <1>5, <3>1
  <2> QED BY <1>1, <1>2, <1>3, <1>4, <2>1 DEF LoopInv, LoopTypeOK
<1>7. \A q \in Partitions, i \in Nat : <<q, i>> \in tried'[g] =>
        i \in 1..Len(topic[q]) /\ \A j \in 1..(i - 1) : Tried(g, q, j)'
  BY <1>1 DEF LoopInv, TriedOK, Tried
<1> QED BY <1>1, <1>3, <1>4, <1>5, <1>6, <1>7, OthersKept

LEMMA LoopNextInv == LoopInv /\ [LoopNext]_loopVars => LoopInv'
<1> SUFFICES ASSUME LoopInv, [LoopNext]_loopVars PROVE LoopInv'
  OBVIOUS
<1>1. CASE UNCHANGED loopVars
  <2>1. UNCHANGED <<topic, position, committed, current, faults, phase, tried>>
    BY <1>1 DEF loopVars, busVars
  <2> QED BY <2>1 DEF LoopInv, LoopTypeOK, HandOK, FetchedOK, TriedOK, Tried, InHandNow
<1> QED BY <1>1, ProduceInv, FetchInv, HandleInv, CommitInv, CrashInv DEF LoopNext, LoopStep

LEMMA LoopInvImplies == LoopInv => LoopTypeOK /\ CommittedWereTried /\ TriedInOrder
<1> SUFFICES ASSUME LoopInv PROVE LoopTypeOK /\ CommittedWereTried /\ TriedInOrder
  OBVIOUS
<1>1. CommittedWereTried
  <2> SUFFICES ASSUME NEW g \in Groups, NEW p \in Partitions
               PROVE  /\ committed[g][p] <= position[g][p]
                      /\ \A i \in 1..committed[g][p] : Tried(g, p, i)
    BY DEF CommittedWereTried
  <2>1. /\ committed[g][p] \in Nat /\ position[g][p] \in Nat /\ committed[g][p] <= position[g][p]
        /\ phase[g] = "handle" /\ current[g] = p => committed[g][p] < position[g][p]
        /\ \A i \in 1..position[g][p] : Tried(g, p, i) \/ InHandNow(g, p, i)
    BY DEF LoopInv, LoopTypeOK, FetchedOK
  <2> QED BY <2>1 DEF InHandNow
<1>2. TriedInOrder
  <2> SUFFICES ASSUME NEW g \in Groups, NEW x \in tried[g]
               PROVE  \A i \in 1..(x[2] - 1) : Tried(g, x[1], i)
    BY DEF TriedInOrder
  <2>1. PICK p \in Partitions, n \in Nat : x = <<p, n>>
    BY DEF LoopInv, LoopTypeOK
  <2> QED BY <2>1 DEF LoopInv, TriedOK
<1> QED BY <1>1, <1>2 DEF LoopInv

LEMMA LoopSpecInv == LoopSpec => []LoopInv
<1> QED BY LoopInitInv, LoopNextInv, PTL DEF LoopSpec

(* No producer, consumer or crash leaves the types of the bus, and no      *)
(* group reads beyond the end of a partition.                              *)
THEOREM LoopTypeCorrect == LoopSpec => []LoopTypeOK
<1> QED BY LoopInvImplies, LoopSpecInv, PTL

(* At least once (consumeEvents): the commit comes after the handler, so   *)
(* no offset is committed before the handler was given its message.        *)
THEOREM AtLeastOnce == LoopSpec => []CommittedWereTried
<1> QED BY LoopInvImplies, LoopSpecInv, PTL

(* In order (FetchMessage): within a partition no message is handled       *)
(* before those written before it.                                         *)
THEOREM HandledInOrder == LoopSpec => []TriedInOrder
<1> QED BY LoopInvImplies, LoopSpecInv, PTL

----
(* The metrics service.  Its counters follow the topic because it counts   *)
(* exactly what it has in hand, and because it began no later than at the  *)
(* committed offset, which the message in hand is beyond.                  *)
StartOK ==
  /\ started \in [Partitions -> Nat]
  /\ \A p \in Partitions : started[p] <= committed[Metrics][p]

CountOK ==
  /\ counters \in [Counters -> Nat]
  /\ \A c \in Counters : IsFiniteSet(Counted(c)) /\ counters[c] = Cardinality(Counted(c))

HandDecodes ==
  phase[Metrics] = "handle" =>
    topic[current[Metrics]][position[Metrics][current[Metrics]]] \notin Undecodable

MetricsInv == LoopInv /\ StartOK /\ HandDecodes /\ CountOK

(* A message that is counted, or would be.                                 *)
InCount(c, p, i) == i \in HandledSince(p) /\ Counts(c, topic[p][i])

(* Steps that hand the service no new message to count.                    *)
LEMMA SameCount ==
  ASSUME NEW c,
         \A p \in Partitions, i \in Int : InCount(c, p, i)' <=> InCount(c, p, i)
  PROVE  Counted(c)' = Counted(c)
<1>1. \A p \in Partitions : HandledSince(p) \subseteq Int /\ HandledSince(p)' \subseteq Int
  BY DEF HandledSince
<1> QED BY <1>1 DEF Counted, InCount

LEMMA CountKept ==
  ASSUME CountOK, UNCHANGED counters,
         \A c \in Counters : \A p \in Partitions, i \in Int :
           InCount(c, p, i)' <=> InCount(c, p, i)
  PROVE  CountOK'
<1>1. \A c \in Counters : Counted(c)' = Counted(c)
  BY SameCount
<1> QED BY <1>1 DEF CountOK

LEMMA MetricsInitInv == MetricsInit => MetricsInv
<1> SUFFICES ASSUME MetricsInit PROVE MetricsInv
  OBVIOUS
<1>1. LoopInv
  BY LoopInitInv DEF MetricsInit
<1>2. StartOK
  BY MetricsAssumption DEF MetricsInit, LoopInit, BusInit, StartOK
<1>3. \A p \in Partitions : HandledSince(p) = {}
  BY MetricsAssumption DEF MetricsInit, LoopInit, BusInit, HandledSince
<1>4. \A c \in Counters : Counted(c) = {}
  BY <1>3 DEF Counted
<1>5. CountOK
  BY <1>4, FS_EmptySet DEF MetricsInit, ZeroCounters, CountOK
<1>6. HandDecodes
  BY MetricsAssumption DEF MetricsInit, LoopInit, HandDecodes
<1> QED BY <1>1, <1>2, <1>5, <1>6 DEF MetricsInv

LEMMA MetricsProduceInv ==
  ASSUME MetricsInv, NEW m \in Messages, Produce(m), UNCHANGED <<counters, started>>
  PROVE  MetricsInv'
<1>1. LoopInv'
  BY ProduceInv DEF MetricsInv
<1>2. /\ UNCHANGED <<position, committed, current, phase>>
      /\ \A p \in Partitions : \A i \in 1..Len(topic[p]) : topic'[p][i] = topic[p][i]
  BY SendGrows DEF MetricsInv, LoopInv, LoopTypeOK, Produce, Send
<1>3. StartOK'
  BY <1>2 DEF MetricsInv, StartOK
<1>4. ASSUME NEW p \in Partitions
      PROVE  HandledSince(p)' = HandledSince(p) /\ HandledSince(p) \subseteq 1..Len(topic[p])
  <2>1. /\ started[p] \in Nat /\ position[Metrics][p] \in Nat
        /\ position[Metrics][p] <= Len(topic[p]) /\ Len(topic[p]) \in Nat
    BY MetricsAssumption, LenProperties DEF MetricsInv, LoopInv, LoopTypeOK, StartOK
  <2> QED BY <1>2, <2>1 DEF HandledSince
<1>5. CountOK'
  BY <1>2, <1>4, CountKept DEF MetricsInv, InCount
<1>6. HandDecodes'
  <2> SUFFICES ASSUME phase[Metrics] = "handle"
               PROVE  topic'[current[Metrics]][position[Metrics][current[Metrics]]] \notin Undecodable
    BY <1>2 DEF HandDecodes
  <2>1. current[Metrics] \in Partitions /\ position[Metrics][current[Metrics]] >= 1
    BY MetricsAssumption DEF MetricsInv, LoopInv, HandOK
  <2>2. position[Metrics][current[Metrics]] \in 1..Len(topic[current[Metrics]])
    BY <2>1, MetricsAssumption, LenProperties DEF MetricsInv, LoopInv, LoopTypeOK
  <2> QED BY <1>2, <2>1, <2>2 DEF MetricsInv, HandDecodes
<1> QED BY <1>1, <1>3, <1>5, <1>6 DEF MetricsInv

LEMMA MetricsFetchInv == ASSUME MetricsInv, MetricsFetch PROVE MetricsInv'
<1>1. LoopInv' /\ LoopInv
  BY FetchInv, MetricsAssumption DEF MetricsInv, MetricsFetch
<1>2. PICK p \in Partitions : Fetch(Metrics, p)
  BY DEF MetricsFetch, FetchStep
<1>3. PICK n \in Nat : n = position[Metrics][p] + 1
  BY <1>1, MetricsAssumption DEF LoopInv, LoopTypeOK
<1>4. /\ UNCHANGED <<topic, committed, counters, started>> /\ phase[Metrics] = "fetch"
      /\ position'[Metrics][p] = n /\ current'[Metrics] = p
      /\ \A q \in Partitions \ {p} : position'[Metrics][q] = position[Metrics][q]
  BY <1>1, <1>2, <1>3, MetricsAssumption DEF Fetch, MetricsFetch, FetchStep, LoopInv, LoopTypeOK
<1>5. phase'[Metrics] = IF topic[p][n] \in Undecodable THEN "commit" ELSE "handle"
  <2>1. InHand(Metrics)' = topic[p][n]
    BY <1>4 DEF InHand
  <2> QED BY <1>1, <2>1, MetricsAssumption DEF MetricsFetch, FetchStep, LoopInv, LoopTypeOK
<1>6. StartOK' /\ HandDecodes'
  BY <1>4, <1>5 DEF MetricsInv, StartOK, HandDecodes
<1>7. ASSUME NEW c \in Counters, NEW q \in Partitions, NEW i \in Int
      PROVE  InCount(c, q, i)' <=> InCount(c, q, i)
  <2>1. started[q] \in Nat /\ position[Metrics][q] \in Nat
    BY <1>1, MetricsAssumption DEF MetricsInv, StartOK, LoopInv, LoopTypeOK
  <2>2. HandledSince(q) = (started[q] + 1)..position[Metrics][q]
    BY <1>4 DEF HandledSince
  <2>3. CASE q # p
    BY <1>4, <2>2, <2>3 DEF InCount, HandledSince
  <2>4. CASE q = p /\ topic[p][n] \in Undecodable
    <3>1. HandledSince(q)' = (started[q] + 1)..n /\ ~Counts(c, topic[q][n])
      BY <1>4, <1>5, <2>4 DEF HandledSince, Counts
    <3>2. i # n => (i \in (started[q] + 1)..n <=> i \in (started[q] + 1)..position[Metrics][q])
      BY <1>3, <2>1, <2>4
    <3>3. i = n => i \notin (started[q] + 1)..position[Metrics][q]
      BY <1>3, <2>1, <2>4
    <3> QED BY <1>4, <2>2, <3>1, <3>2, <3>3 DEF InCount
  <2>5. CASE q = p /\ topic[p][n] \notin Undecodable
    <3>1. HandledSince(q)' = (started[q] + 1)..(n - 1)
      BY <1>4, <1>5, <2>5 DEF HandledSince
    <3>2. n - 1 = position[Metrics][q]
      BY <1>3, <2>1, <2>5
    <3> QED BY <1>4, <2>2, <3>1, <3>2 DEF InCount
  <2> QED BY <2>3, <2>4, <2>5
<1>8. CountOK'
  BY <1>4, <1>7, CountKept DEF MetricsInv
<1> QED BY <1>1, <1>6, <1>8 DEF MetricsInv

LEMMA MetricsHandleInv == ASSUME MetricsInv, MetricsHandle PROVE MetricsInv'
<1>1. LoopInv' /\ LoopInv
  BY HandleInv, MetricsAssumption DEF MetricsInv, MetricsHandle
<1>2. PICK p \in Partitions, n \in Nat :
        p = current[Metrics] /\ n = position[Metrics][p] /\ started[p] < n
  <2>1. current[Metrics] \in Partitions /\ phase[Metrics] = "handle"
    BY <1>1, MetricsAssumption DEF LoopInv, HandOK, MetricsHandle, HandleStep
  <2>2. \A p \in Partitions :
          position[Metrics][p] \in Nat /\ committed[Metrics][p] \in Nat /\ started[p] \in Nat
    BY <1>1, MetricsAssumption DEF LoopInv, LoopTypeOK, MetricsInv, StartOK
  <2>3. committed[Metrics][current[Metrics]] < position[Metrics][current[Metrics]]
    BY <1>1, <2>1, MetricsAssumption DEF LoopInv, FetchedOK
  <2> QED BY <2>1, <2>2, <2>3 DEF MetricsInv, StartOK
<1>3. /\ UNCHANGED <<topic, position, committed, current, started>>
      /\ phase[Metrics] = "handle" /\ phase'[Metrics] = "commit"
  BY <1>1, MetricsAssumption
  DEF MetricsHandle, HandleStep, busVars, LoopInv, LoopTypeOK
<1>4. StartOK'
  BY <1>3 DEF MetricsInv, StartOK
<1>5. PICK m : m = topic[p][n]
  OBVIOUS
<1>6. /\ m \notin Undecodable
      /\ counters' = IF m.type \in DOMAIN CounterOf
                     THEN [counters EXCEPT ![CounterOf[m.type]] = @ + 1] ELSE counters
  BY <1>2, <1>3, <1>5 DEF MetricsInv, HandDecodes, MetricsHandle, InHand
<1>7. ASSUME NEW c \in Counters
      PROVE  Counted(c)' = IF Counts(c, m) THEN Counted(c) \cup {<<p, n>>} ELSE Counted(c)
  <2>1. /\ started \in [Partitions -> Nat]
        /\ \A q \in Partitions : position[Metrics][q] \in Nat
    BY <1>1, MetricsAssumption DEF MetricsInv, StartOK, LoopInv, LoopTypeOK
  <2>2. HandledSince(p) = (started[p] + 1)..(n - 1) /\ HandledSince(p)' = (started[p] + 1)..n
    BY <1>2, <1>3 DEF HandledSince
  <2>3. HandledSince(p)' = HandledSince(p) \cup {n}
    BY <1>2, <2>1, <2>2
  <2>4. \A q \in Partitions \ {p} : HandledSince(q)' = HandledSince(q)
    BY <1>2, <1>3 DEF HandledSince
  <2> DEFINE before == UNION {{q} \X HandledSince(q) : q \in Partitions}
             after == UNION {{q} \X HandledSince(q)' : q \in Partitions}
  <2>5. after = before \cup {<<p, n>>}
    BY <2>3, <2>4
  <2>6. Counted(c)' = {x \in after : Counts(c, topic[x[1]][x[2]])}
        /\ Counted(c) = {x \in before : Counts(c, topic[x[1]][x[2]])}
    BY <1>3 DEF Counted
  <2> HIDE DEF before, after
  <2> QED BY <1>5, <2>5, <2>6
<1>8. \A c \in Counters : <<p, n>> \notin Counted(c)
  <2>1. n \notin HandledSince(p)
    BY <1>2, <1>3 DEF HandledSince
  <2> QED BY <2>1 DEF Counted
<1>9. counters' \in [Counters -> Nat]
      /\ \A c \in Counters : counters'[c] = IF Counts(c, m) THEN counters[c] + 1 ELSE counters[c]
  BY <1>6 DEF MetricsInv, CountOK, Counts, Counters
<1>10. CountOK'
  <2> SUFFICES ASSUME NEW c \in Counters
               PROVE  IsFiniteSet(Counted(c)') /\ counters'[c] = Cardinality(Counted(c)')
    BY <1>9 DEF CountOK
  <2>1. IsFiniteSet(Counted(c)) /\ counters[c] = Cardinality(Counted(c))
    BY DEF MetricsInv, CountOK
  <2>2. CASE Counts(c, m)
    BY <1>7, <1>8, <1>9, <2>1, <2>2, FS_AddElement
  <2>3. CASE ~Counts(c, m)
    BY <1>7, <1>9, <2>1, <2>3
  <2> QED BY <2>2, <2>3
<1>11. HandDecodes'
  BY <1>3 DEF HandDecodes
<1> QED BY <1>1, <1>4, <1>10, <1>11 DEF MetricsInv

LEMMA MetricsCommitInv == ASSUME MetricsInv, MetricsCommit PROVE MetricsInv'
<1>1. LoopInv' /\ LoopInv
  BY CommitInv, MetricsAssumption DEF MetricsInv, MetricsCommit
<1>2. /\ UNCHANGED <<topic, position, counters, started>>
      /\ phase[Metrics] = "commit" /\ phase'[Metrics] = "fetch"
  BY <1>1, MetricsAssumption DEF MetricsCommit, CommitStep, Commit, LoopInv, LoopTypeOK
<1>3. StartOK'
  <2> SUFFICES ASSUME NEW p \in Partitions PROVE started[p] <= committed'[Metrics][p]
    BY <1>2 DEF MetricsInv, StartOK
  <2>1. /\ started[p] \in Nat /\ committed[Metrics][p] \in Nat /\ started[p] <= committed[Metrics][p]
        /\ position[Metrics][p] \in Nat /\ committed[Metrics][p] <= position[Metrics][p]
    BY <1>1, MetricsAssumption DEF MetricsInv, StartOK, LoopInv, LoopTypeOK, FetchedOK
  <2>2. committed'[Metrics][p] \in {committed[Metrics][p], position[Metrics][p]}
    <3>1. \/ committed' = committed
          \/ committed' = [committed EXCEPT ![Metrics][current[Metrics]] =
                             position[Metrics][current[Metrics]]]
      BY DEF MetricsCommit, CommitStep, Commit
    <3>2. committed \in [Groups -> [Partitions -> Nat]]
      BY <1>1 DEF LoopInv, LoopTypeOK
    <3> QED BY <3>1, <3>2, MetricsAssumption
  <2> QED BY <2>1, <2>2
<1>4. CountOK'
  <2>1. \A p \in Partitions : HandledSince(p)' = HandledSince(p)
    BY <1>2 DEF HandledSince
  <2> QED BY <1>2, <2>1, CountKept DEF MetricsInv, InCount
<1>5. HandDecodes'
  BY <1>2 DEF HandDecodes
<1> QED BY <1>1, <1>3, <1>4, <1>5 DEF MetricsInv

LEMMA MetricsCrashInv == ASSUME MetricsInv, MetricsCrash PROVE MetricsInv'
<1>1. LoopInv' /\ LoopInv
  BY CrashInv, MetricsAssumption DEF MetricsInv, MetricsCrash
<1>2. /\ committed' = committed /\ position'[Metrics] = committed[Metrics]
      /\ started' = committed[Metrics] /\ phase'[Metrics] = "fetch"
      /\ counters' = ZeroCounters /\ committed[Metrics] \in [Partitions -> Nat]
  BY <1>1, MetricsAssumption DEF MetricsCrash, CrashStep, Rejoin, LoopInv, LoopTypeOK
<1>3. StartOK' /\ HandDecodes'
  BY <1>2 DEF StartOK, HandDecodes
<1>4. \A p \in Partitions : HandledSince(p)' = {}
  BY <1>2 DEF HandledSince
<1>5. \A c \in Counters : Counted(c)' = {}
  BY <1>4 DEF Counted
<1>6. CountOK'
  BY <1>2, <1>5, FS_EmptySet DEF ZeroCounters, CountOK
<1> QED BY <1>1, <1>3, <1>6 DEF MetricsInv

LEMMA MetricsNextInv == MetricsInv /\ [MetricsNext]_metricsVars => MetricsInv'
<1> SUFFICES ASSUME MetricsInv, [MetricsNext]_metricsVars PROVE MetricsInv'
  OBVIOUS
<1>1. CASE UNCHANGED metricsVars
  <2>1. UNCHANGED <<topic, position, committed, current, faults, phase, tried, counters, started>>
    BY <1>1 DEF metricsVars, loopVars, busVars
  <2>2. LoopInv'
    BY <2>1, LoopNextInv DEF MetricsInv, loopVars, busVars
  <2>3. \A c \in Counters : Counted(c)' = Counted(c)
    BY <2>1 DEF Counted, HandledSince
  <2> QED BY <2>1, <2>2, <2>3 DEF MetricsInv, StartOK, HandDecodes, CountOK
<1> QED BY <1>1, MetricsProduceInv, MetricsFetchInv, MetricsHandleInv, MetricsCommitInv,
           MetricsCrashInv DEF MetricsNext, MetricsLoop

(* The counters of the metrics service (service.go) are what the topic     *)
(* holds, from where the process began to where it reads: no failed commit *)
(* counts a message twice, and none it was given is left out.              *)
THEOREM CountersAreRight == MetricsSpec => []CountersMatchTopic
<1>1. MetricsInv => CountersMatchTopic
  BY DEF MetricsInv, CountOK, CountersMatchTopic
<1> QED BY <1>1, MetricsInitInv, MetricsNextInv, PTL DEF MetricsSpec

=============================================================================
