--------------------------- MODULE AggregatesProofs ---------------------------
(***************************************************************************)
(* For every log of events, of whatever length: the loops that rebuild a   *)
(* wallet and a saga end where the closed forms of the other modules say,  *)
(* and a rebuilt saga makes at most four moves, the concluding one last.   *)
(*                                                                         *)
(* The loops are folds.  FoldLeft is a recursive function on the sets of   *)
(* indices, and that there is such a function is the first thing to prove. *)
(* The two loops then go through the prefixes of the log, one step for     *)
(* each event (WalletRuns, SagaRuns: FoldLeft takes an operator, so each   *)
(* loop needs the lemma for itself), and the closed forms follow by        *)
(* induction on the length of the prefix.                                  *)
(***************************************************************************)
EXTENDS Aggregates, OrchestratorProofs, FiniteSetTheorems

(* it folds step over every set of indices up to n, from the least up.     *)
Folds(it, n, start, step) ==
  \A s \in SUBSET (1..n) :
    it[s] = IF s = {} THEN start ELSE step[Max(s)][it[s \ {Max(s)}]]

(* The greatest of a set of indices, as the fold below chooses it.         *)
LEMMA MaxInInterval ==
  ASSUME NEW n \in Nat, NEW s \in SUBSET (1..n), s # {}
  PROVE  /\ Max(s) \in 1..n /\ Max(s) \in s
         /\ s \ {Max(s)} \in SUBSET (1..n)
         /\ \A m \in Nat : (s \in SUBSET (1..(m + 1)) /\ m + 1 \notin s) => s \in SUBSET (1..m)
         /\ \A m \in Nat : (s \in SUBSET (1..(m + 1)) /\ m + 1 \in s) => Max(s) = m + 1
<1>1. Max(s) \in s /\ \A y \in s : Max(s) >= y
  BY MaxIsMember
<1>2. \A m \in Nat : (s \in SUBSET (1..(m + 1)) /\ m + 1 \notin s) => s \in SUBSET (1..m)
  OBVIOUS
<1>3. PICK x : x = Max(s)
  OBVIOUS
<1>4. ASSUME NEW m \in Nat, s \in SUBSET (1..(m + 1)), m + 1 \in s PROVE x = m + 1
  <2>1. x \in s /\ x >= m + 1
    BY <1>1, <1>3, <1>4
  <2> QED BY <1>4, <2>1
<1> QED BY <1>1, <1>2, <1>3, <1>4

(* There is such a fold: it is extended from the indices up to k to those  *)
(* up to k + 1.                                                            *)
LEMMA FoldExists ==
  ASSUME NEW n \in Nat, NEW S, NEW start \in S, NEW step \in [1..n -> [S -> S]]
  PROVE  \E it \in [SUBSET (1..n) -> S] : Folds(it, n, start, step)
<1> DEFINE Has(k) == \E it \in [SUBSET (1..k) -> S] : Folds(it, k, start, step)
           T == {k \in Nat : k <= n => Has(k)}
<1>1. Has(0)
  <2>1. PICK it : it = [s \in SUBSET (1..0) |-> start]
    OBVIOUS
  <2>2. it \in [SUBSET (1..0) -> S]
    BY <2>1
  <2>3. Folds(it, 0, start, step)
    <3>1. 1..0 = {}
      OBVIOUS
    <3> QED BY <2>1, <3>1 DEF Folds
  <2> QED BY <2>2, <2>3
<1>2. ASSUME NEW k \in Nat, k + 1 <= n, Has(k) PROVE Has(k + 1)
  <2>1. k \in Nat /\ k + 1 \in 1..n
    BY <1>2
  <2>2. PICK f \in [SUBSET (1..k) -> S] : Folds(f, k, start, step)
    BY <1>2
  <2>3. PICK g : g = [s \in SUBSET (1..(k + 1)) |->
                        IF k + 1 \in s THEN step[k + 1][f[s \ {k + 1}]] ELSE f[s]]
    OBVIOUS
  <2>4. ASSUME NEW s \in SUBSET (1..(k + 1))
        PROVE  s \ {k + 1} \in SUBSET (1..k) /\ (k + 1 \notin s => s \in SUBSET (1..k))
    BY <2>1
  <2>5. g \in [SUBSET (1..(k + 1)) -> S]
    <3> SUFFICES ASSUME NEW s \in SUBSET (1..(k + 1)) PROVE g[s] \in S
      BY <2>3
    <3>1. CASE k + 1 \in s
      <4>1. f[s \ {k + 1}] \in S
        BY <2>2, <2>4
      <4> QED BY <2>1, <2>3, <3>1, <4>1
    <3>2. CASE k + 1 \notin s
      BY <2>2, <2>3, <2>4, <3>2
    <3> QED BY <3>1, <3>2
  <2>6. Folds(g, k + 1, start, step)
    <3> SUFFICES ASSUME NEW s \in SUBSET (1..(k + 1))
                 PROVE  g[s] = IF s = {} THEN start ELSE step[Max(s)][g[s \ {Max(s)}]]
      BY DEF Folds
    <3>1. CASE s = {}
      <4>1. s \in SUBSET (1..k) /\ k + 1 \notin s
        BY <3>1
      <4> QED BY <2>2, <2>3, <3>1, <4>1 DEF Folds
    <3>2. CASE s # {} /\ k + 1 \in s
      <4>1. Max(s) = k + 1
        BY <2>1, <3>2, MaxInInterval
      <4>2. g[s \ {k + 1}] = f[s \ {k + 1}]
        BY <2>3, <2>4
      <4>3. g[s] = step[k + 1][f[s \ {k + 1}]]
        BY <2>3, <3>2
      <4> QED BY <3>2, <4>1, <4>2, <4>3
    <3>3. CASE s # {} /\ k + 1 \notin s
      <4>1. s \in SUBSET (1..k)
        BY <2>4, <3>3
      <4>2. s \ {Max(s)} \in SUBSET (1..k)
        BY <4>1
      <4>3. g[s] = f[s] /\ g[s \ {Max(s)}] = f[s \ {Max(s)}]
        <5>1. k + 1 \notin s \ {Max(s)} /\ s \ {Max(s)} \in SUBSET (1..(k + 1))
          BY <3>3
        <5> QED BY <2>3, <3>3, <5>1
      <4>4. f[s] = step[Max(s)][f[s \ {Max(s)}]]
        BY <2>2, <3>3, <4>1 DEF Folds
      <4> QED BY <3>3, <4>3, <4>4
    <3> QED BY <3>1, <3>2, <3>3
  <2> QED BY <2>5, <2>6
<1>3. Nat \subseteq T
  <2> HIDE DEF Has
  <2>1. 0 \in T /\ \A k \in T : k + 1 \in T
    BY <1>1, <1>2
  <2>2. T \in SUBSET Nat
    OBVIOUS
  <2> HIDE DEF T
  <2> QED BY <2>1, <2>2, SetInduction
<1>4. Has(n)
  <2> HIDE DEF Has
  <2> QED BY <1>3
<1> QED BY <1>4

(* The prefixes of a log are the sets such a fold goes through.            *)
LEMMA PrefixSteps ==
  ASSUME NEW n \in Nat, NEW k \in 1..n
  PROVE  /\ 1..k \in SUBSET (1..n) /\ 1..k # {}
         /\ Max(1..k) = k
         /\ (1..k) \ {k} = 1..(k - 1)
<1>1. PICK s : s = 1..k
  OBVIOUS
<1>2. s \in SUBSET (1..n) /\ k \in s /\ k \in Nat
  BY <1>1
<1>3. s \ {k} = 1..(k - 1)
  <2>1. ASSUME NEW i \in s \ {k} PROVE i \in 1..(k - 1)
    BY <1>1
  <2>2. ASSUME NEW i \in 1..(k - 1) PROVE i \in s \ {k}
    BY <1>1
  <2> QED BY <2>1, <2>2
<1>4. Max(s) = k
  <2>1. s \in SUBSET (1..((k - 1) + 1)) /\ (k - 1) + 1 \in s /\ (k - 1) + 1 = k
    BY <1>1
  <2> QED BY <1>2, <2>1, MaxInInterval
<1> QED BY <1>1, <1>2, <1>3, <1>4

----
(* The wallet after each event of a log.                                   *)
LEMMA WalletRuns ==
  ASSUME NEW es \in Seq(Event)
  PROVE  \E run : /\ run[0] = NewWallet
                  /\ \A k \in 1..Len(es) : run[k] = ApplyWalletEvent(run[k - 1], es[k])
                  /\ run[Len(es)] = RebuildLoop(es)
<1>1. PICK n \in Nat : n = Len(es) /\ DOMAIN es = 1..n /\ \A k \in 1..n : es[k] \in Event
  BY LenProperties
<1>2. PICK wallets : wallets = [balance : Int, version : Nat]
  OBVIOUS
<1>3. PICK step : step = [k \in 1..n |-> [w \in wallets |-> ApplyWalletEvent(w, es[k])]]
  OBVIOUS
<1>4. step \in [1..n -> [wallets -> wallets]] /\ NewWallet \in wallets
  <2>1. ASSUME NEW k \in 1..n, NEW w \in wallets PROVE ApplyWalletEvent(w, es[k]) \in wallets
    <3>1. es[k].after \in Int
      BY <1>1 DEF Event
    <3> QED BY <1>2, <3>1 DEF ApplyWalletEvent
  <2>2. NewWallet \in wallets
    BY <1>2 DEF NewWallet
  <2> QED BY <1>3, <2>1, <2>2
<1>5. PICK g \in [SUBSET (1..n) -> wallets] : Folds(g, n, NewWallet, step)
  BY <1>4, FoldExists
<1>6. g = [s \in SUBSET (DOMAIN es) |-> IF s = {} THEN NewWallet
                                    ELSE ApplyWalletEvent(g[s \ {Max(s)}], es[Max(s)])]
  <2>1. ASSUME NEW s \in SUBSET (1..n)
        PROVE  g[s] = IF s = {} THEN NewWallet
                      ELSE ApplyWalletEvent(g[s \ {Max(s)}], es[Max(s)])
    <3>1. CASE s = {}
      BY <1>5, <3>1 DEF Folds
    <3>2. CASE s # {}
      <4>1. Max(s) \in 1..n /\ s \ {Max(s)} \in SUBSET (1..n)
        BY <3>2, MaxInInterval
      <4>2. g[s] = step[Max(s)][g[s \ {Max(s)}]] /\ g[s \ {Max(s)}] \in wallets
        BY <1>5, <3>2, <4>1 DEF Folds
      <4>3. \A k \in 1..n : \A w \in wallets : step[k][w] = ApplyWalletEvent(w, es[k])
        BY <1>3
      <4> QED BY <3>2, <4>1, <4>2, <4>3
    <3> QED BY <3>1, <3>2
  <2> QED BY <1>1, <1>5, <2>1
<1>7. PICK it : it = CHOOSE iter : iter =
               [s \in SUBSET (DOMAIN es) |-> IF s = {} THEN NewWallet
                                    ELSE ApplyWalletEvent(iter[s \ {Max(s)}], es[Max(s)])]
  OBVIOUS
<1>8. it = [s \in SUBSET (DOMAIN es) |-> IF s = {} THEN NewWallet
                                    ELSE ApplyWalletEvent(it[s \ {Max(s)}], es[Max(s)])]
  BY <1>6, <1>7, Zenon
<1>9. RebuildLoop(es) = it[DOMAIN es]
  BY <1>7, SMT DEF RebuildLoop, FoldLeft, MapThenFoldSet
<1>10. PICK run : run = [k \in 0..n |-> it[1..k]]
  OBVIOUS
<1>11. run[0] = NewWallet
  <2>1. 1..0 = {} /\ {} \in SUBSET (DOMAIN es)
    OBVIOUS
  <2>2. it[{}] = NewWallet
    BY <1>8, <2>1
  <2> QED BY <1>10, <2>1, <2>2
<1>12. ASSUME NEW k \in 1..n PROVE run[k] = ApplyWalletEvent(run[k - 1], es[k])
  <2>1. it[1..k] = ApplyWalletEvent(it[1..(k - 1)], es[k])
    <3>1. PICK s : s = 1..k
      OBVIOUS
    <3>2. s \in SUBSET (DOMAIN es) /\ s # {} /\ Max(s) = k /\ s \ {k} = 1..(k - 1)
      BY <1>1, <3>1, PrefixSteps
    <3>3. it[s] = ApplyWalletEvent(it[s \ {Max(s)}], es[Max(s)])
      BY <1>8, <3>2
    <3> QED BY <3>1, <3>2, <3>3
  <2>2. k \in 0..n /\ k - 1 \in 0..n
    OBVIOUS
  <2> QED BY <1>10, <2>1, <2>2
<1>13. run[n] = RebuildLoop(es)
  <2>1. n \in 0..n
    OBVIOUS
  <2> QED BY <1>1, <1>9, <1>10, <2>1
<1> QED BY <1>1, <1>11, <1>12, <1>13

(* It has the balance of the last balance event so far, and counts them.   *)
LEMMA WalletLoopCounts ==
  ASSUME NEW es \in Seq(Event)
  PROVE  /\ RebuildLoop(es).balance = Balance(es)
         /\ RebuildLoop(es).version = Cardinality(BalanceEvents(es))
<1>1. PICK n \in Nat : n = Len(es) /\ DOMAIN es = 1..n
  BY LenProperties
<1>2. PICK run : /\ run[0] = NewWallet
                 /\ \A k \in 1..n : run[k] = ApplyWalletEvent(run[k - 1], es[k])
                 /\ run[n] = RebuildLoop(es)
  BY <1>1, WalletRuns
<1> DEFINE past(k) == {i \in BalanceEvents(es) : i <= k}
           Counted(k) == /\ run[k].balance = IF past(k) = {} THEN 0 ELSE es[Max(past(k))].after
                         /\ IsFiniteSet(past(k)) /\ run[k].version = Cardinality(past(k))
           T == {k \in Nat : k <= n => Counted(k)}
<1>3. BalanceEvents(es) \in SUBSET (1..n)
  BY <1>1 DEF BalanceEvents
<1>4. Counted(0)
  <2>1. past(0) = {}
    BY <1>3
  <2> HIDE DEF past
  <2>2. run[0].balance = 0 /\ run[0].version = 0
    BY <1>2 DEF NewWallet
  <2>3. IsFiniteSet(past(0)) /\ Cardinality(past(0)) = 0
    BY <2>1, FS_EmptySet
  <2> QED BY <2>1, <2>2, <2>3
<1>5. ASSUME NEW k \in Nat, k + 1 <= n, Counted(k) PROVE Counted(k + 1)
  <2>1. k + 1 \in 1..n /\ (k + 1) - 1 = k
    BY <1>5
  <2>2. run[k + 1] = ApplyWalletEvent(run[k], es[k + 1])
    BY <1>2, <2>1
  <2>3. CASE es[k + 1].type \in BalanceTypes
    <3>1. past(k + 1) = past(k) \cup {k + 1} /\ k + 1 \notin past(k)
      BY <1>1, <1>3, <2>1, <2>3 DEF BalanceEvents
    <3>2. past(k + 1) \in SUBSET (1..(k + 1)) /\ past(k + 1) # {} /\ k + 1 \in past(k + 1)
      BY <1>3, <3>1
    <3>3. run[k + 1].balance = es[k + 1].after /\ run[k + 1].version = run[k].version + 1
      BY <2>2, <2>3 DEF ApplyWalletEvent
    <3>4. IsFiniteSet(past(k + 1)) /\ Cardinality(past(k + 1)) = Cardinality(past(k)) + 1
      <4> HIDE DEF past
      <4> QED BY <1>5, <3>1, FS_AddElement
    <3> HIDE DEF past
    <3>5. Max(past(k + 1)) = k + 1
      BY <2>1, <3>2, MaxInInterval
    <3> QED BY <1>5, <3>2, <3>3, <3>4, <3>5
  <2>4. CASE es[k + 1].type \notin BalanceTypes
    <3>1. past(k + 1) = past(k)
      BY <1>1, <1>3, <2>1, <2>4 DEF BalanceEvents
    <3>2. run[k + 1] = run[k]
      BY <2>2, <2>4 DEF ApplyWalletEvent
    <3> HIDE DEF past
    <3> QED BY <1>5, <3>1, <3>2
  <2> QED BY <2>3, <2>4
<1>6. Nat \subseteq T
  <2> HIDE DEF Counted
  <2>1. 0 \in T /\ \A k \in T : k + 1 \in T
    BY <1>4, <1>5
  <2>2. T \in SUBSET Nat
    OBVIOUS
  <2> HIDE DEF T
  <2> QED BY <2>1, <2>2, SetInduction
<1>7. Counted(n)
  <2> HIDE DEF Counted
  <2> QED BY <1>6
<1>8. past(n) = BalanceEvents(es)
  BY <1>3
<1> HIDE DEF past
<1> QED BY <1>2, <1>7, <1>8 DEF Balance

----
Sagas == [state : SagaStates, version : Nat, refused : BOOLEAN]

LEMMA MovesReachStates == \A t \in MovingTypes : Target[t] \in SagaStates
BY DEF MovingTypes, Target, SagaStates

(* ApplyEvent leaves the saga alone, moves it, or fails.                   *)
LEMMA ApplyEventMoves ==
  ASSUME NEW x \in Sagas, NEW e
  PROVE  /\ ApplyEvent(x, e) \in Sagas
         /\ x.refused \/ e.type \notin MovingTypes => ApplyEvent(x, e) = x
         /\ ~x.refused /\ e.type \in MovingTypes =>
              IF CanTransitionTo(x.state, Target[e.type])
              THEN /\ ApplyEvent(x, e).state = Target[e.type]
                   /\ ApplyEvent(x, e).version = x.version + 1
                   /\ ~ApplyEvent(x, e).refused
              ELSE ApplyEvent(x, e).refused
<1>1. CASE x.refused \/ e.type \notin MovingTypes
  BY <1>1 DEF ApplyEvent
<1>2. CASE ~(x.refused \/ e.type \notin MovingTypes)
  <2>1. PICK t \in SagaStates : t = Target[e.type]
    BY <1>2, MovesReachStates
  <2>2. PICK v \in Nat : v = x.version + 1
    BY DEF Sagas
  <2>3. CASE CanTransitionTo(x.state, t)
    <3>1. ApplyEvent(x, e) = [x EXCEPT !.state = t, !.version = v]
      BY <1>2, <2>1, <2>2, <2>3 DEF ApplyEvent
    <3>2. [x EXCEPT !.state = t, !.version = v] \in Sagas
      BY Zenon DEF Sagas
    <3>3. /\ [x EXCEPT !.state = t, !.version = v].state = t
          /\ [x EXCEPT !.state = t, !.version = v].version = v
          /\ [x EXCEPT !.state = t, !.version = v].refused <=> x.refused
      BY DEF Sagas
    <3> QED BY <1>2, <2>1, <2>2, <2>3, <3>1, <3>2, <3>3
  <2>4. CASE ~CanTransitionTo(x.state, t)
    <3>1. ApplyEvent(x, e) = [x EXCEPT !.refused = TRUE]
      BY <1>2, <2>1, <2>4 DEF ApplyEvent
    <3>2. [x EXCEPT !.refused = TRUE] \in Sagas /\ [x EXCEPT !.refused = TRUE].refused
      BY DEF Sagas
    <3> QED BY <1>2, <2>1, <2>4, <3>1, <3>2
  <2> QED BY <2>3, <2>4
<1> QED BY <1>1, <1>2

(* How far on its way to an end a saga is: each allowed move takes it on.  *)
Rank ==
  [INITIALIZED |-> 0, VALIDATING_BALANCE |-> 1, SENDING_TO_GATEWAY |-> 1,
   SENT_TO_GATEWAY |-> 2, AWAITING_RESPONSE |-> 3, COMPLETED |-> 4, FAILED |-> 4]

LEMMA MovesRaiseRank ==
  /\ \A s \in SagaStates : Rank[s] \in 0..4
  /\ \A s \in SagaStates, t \in SagaStates : CanTransitionTo(s, t) => Rank[s] < Rank[t]
<1>1. ASSUME NEW s \in SagaStates PROVE Rank[s] \in 0..4
  BY DEF SagaStates, Rank
<1>2. ASSUME NEW s \in SagaStates, NEW t \in SagaStates, CanTransitionTo(s, t)
      PROVE  Rank[s] < Rank[t]
  BY <1>2 DEF SagaStates, Rank, CanTransitionTo, ValidTransitions
<1> QED BY <1>1, <1>2

(* The saga after each event of a log.                                     *)
LEMMA SagaRuns ==
  ASSUME NEW es \in Seq(Event)
  PROVE  \E run : /\ run[0] = NewSaga
                  /\ \A k \in 1..Len(es) : run[k] = ApplyEvent(run[k - 1], es[k])
                  /\ run[Len(es)] = SagaLoop(es)
<1>1. PICK n \in Nat : n = Len(es) /\ DOMAIN es = 1..n /\ \A k \in 1..n : es[k] \in Event
  BY LenProperties
<1>2. PICK sagas : sagas = Sagas
  OBVIOUS
<1>3. PICK step : step = [k \in 1..n |-> [x \in sagas |-> ApplyEvent(x, es[k])]]
  OBVIOUS
<1>4. step \in [1..n -> [sagas -> sagas]] /\ NewSaga \in sagas
  <2>1. ASSUME NEW k \in 1..n, NEW x \in sagas PROVE ApplyEvent(x, es[k]) \in sagas
    BY <1>2, ApplyEventMoves
  <2>2. NewSaga \in sagas
    BY <1>2 DEF Sagas, NewSaga, SagaStates
  <2> QED BY <1>3, <2>1, <2>2
<1>5. PICK g \in [SUBSET (1..n) -> sagas] : Folds(g, n, NewSaga, step)
  BY <1>4, FoldExists
<1>6. g = [s \in SUBSET (DOMAIN es) |-> IF s = {} THEN NewSaga
                                    ELSE ApplyEvent(g[s \ {Max(s)}], es[Max(s)])]
  <2>1. ASSUME NEW s \in SUBSET (1..n)
        PROVE  g[s] = IF s = {} THEN NewSaga
                      ELSE ApplyEvent(g[s \ {Max(s)}], es[Max(s)])
    <3>1. CASE s = {}
      BY <1>5, <3>1 DEF Folds
    <3>2. CASE s # {}
      <4>1. Max(s) \in 1..n /\ s \ {Max(s)} \in SUBSET (1..n)
        BY <3>2, MaxInInterval
      <4>2. g[s] = step[Max(s)][g[s \ {Max(s)}]] /\ g[s \ {Max(s)}] \in sagas
        BY <1>5, <3>2, <4>1 DEF Folds
      <4>3. \A k \in 1..n : \A x \in sagas : step[k][x] = ApplyEvent(x, es[k])
        BY <1>3
      <4> QED BY <3>2, <4>1, <4>2, <4>3
    <3> QED BY <3>1, <3>2
  <2> QED BY <1>1, <1>5, <2>1
<1>7. PICK it : it = CHOOSE iter : iter =
               [s \in SUBSET (DOMAIN es) |-> IF s = {} THEN NewSaga
                                    ELSE ApplyEvent(iter[s \ {Max(s)}], es[Max(s)])]
  OBVIOUS
<1>8. it = [s \in SUBSET (DOMAIN es) |-> IF s = {} THEN NewSaga
                                    ELSE ApplyEvent(it[s \ {Max(s)}], es[Max(s)])]
  BY <1>6, <1>7, Zenon
<1>9. SagaLoop(es) = it[DOMAIN es]
  BY <1>7, SMT DEF SagaLoop, FoldLeft, MapThenFoldSet
<1>10. PICK run : run = [k \in 0..n |-> it[1..k]]
  OBVIOUS
<1>11. run[0] = NewSaga
  <2>1. 1..0 = {} /\ {} \in SUBSET (DOMAIN es)
    OBVIOUS
  <2>2. it[{}] = NewSaga
    BY <1>8, <2>1
  <2> QED BY <1>10, <2>1, <2>2
<1>12. ASSUME NEW k \in 1..n PROVE run[k] = ApplyEvent(run[k - 1], es[k])
  <2>1. it[1..k] = ApplyEvent(it[1..(k - 1)], es[k])
    <3>1. PICK s : s = 1..k
      OBVIOUS
    <3>2. s \in SUBSET (DOMAIN es) /\ s # {} /\ Max(s) = k /\ s \ {k} = 1..(k - 1)
      BY <1>1, <3>1, PrefixSteps
    <3>3. it[s] = ApplyEvent(it[s \ {Max(s)}], es[Max(s)])
      BY <1>8, <3>2
    <3> QED BY <3>1, <3>2, <3>3
  <2>2. k \in 0..n /\ k - 1 \in 0..n
    OBVIOUS
  <2> QED BY <1>10, <2>1, <2>2
<1>13. run[n] = SagaLoop(es)
  <2>1. n \in 0..n
    OBVIOUS
  <2> QED BY <1>1, <1>9, <1>10, <2>1
<1> QED BY <1>1, <1>11, <1>12, <1>13

(* While no move has been refused it is in the state before the next event,*)
(* after no more moves than that state has rank.                           *)
LEMMA SagaLoopFollows ==
  ASSUME NEW es \in Seq(Event)
  PROVE  /\ SagaLoop(es).refused = ~MovesAllowed(es)
         /\ MovesAllowed(es) => /\ SagaLoop(es).state = StateOf(es)
                                /\ SagaLoop(es).version <= 4
<1>1. PICK n \in Nat : n = Len(es) /\ DOMAIN es = 1..n
  BY LenProperties
<1>2. PICK run : /\ run[0] = NewSaga
                 /\ \A k \in 1..n : run[k] = ApplyEvent(run[k - 1], es[k])
                 /\ run[n] = SagaLoop(es)
  BY <1>1, SagaRuns
<1> DEFINE allowed(k) ==
             \A i \in Moves(es) :
               i <= k => CanTransitionTo(StateBefore(es, i), Target[es[i].type])
           Followed(k) ==
             /\ run[k] \in Sagas
             /\ run[k].refused <=> ~allowed(k)
             /\ allowed(k) => /\ run[k].state = StateBefore(es, k + 1)
                              /\ run[k].version <= Rank[run[k].state]
           T == {k \in Nat : k <= n => Followed(k)}
<1>3. Moves(es) \in SUBSET (1..n)
  BY <1>1 DEF Moves
<1>4. Followed(0)
  <2>1. allowed(0)
    BY <1>3
  <2>2. StateBefore(es, 0 + 1) = "INITIALIZED"
    BY StateBeforeFirst
  <2>3. /\ run[0] \in Sagas
        /\ run[0].state = "INITIALIZED" /\ run[0].version = 0 /\ ~run[0].refused
    BY <1>2 DEF Sagas, NewSaga, SagaStates
  <2>4. Rank[run[0].state] = 0
    BY <2>3 DEF Rank
  <2> HIDE DEF allowed
  <2> QED BY <2>1, <2>2, <2>3, <2>4
<1>5. ASSUME NEW k \in Nat, k + 1 <= n, Followed(k) PROVE Followed(k + 1)
  <2>1. k + 1 \in 1..n /\ (k + 1) - 1 = k
    BY <1>5
  <2>2. run[k + 1] = ApplyEvent(run[k], es[k + 1])
    BY <1>2, <2>1
  <2>3. StateBefore(es, (k + 1) + 1) = IF es[k + 1].type \in MovingTypes
                                       THEN Target[es[k + 1].type] ELSE StateBefore(es, k + 1)
    BY <1>1, <2>1, StateBeforeNext
  <2>4. k + 1 \in Moves(es) <=> es[k + 1].type \in MovingTypes
    BY <1>1, <2>1 DEF Moves
  <2>5. allowed(k + 1) <=>
          /\ allowed(k)
          /\ k + 1 \in Moves(es) => CanTransitionTo(StateBefore(es, k + 1), Target[es[k + 1].type])
    BY <1>3
  <2> HIDE DEF allowed
  <2>6. CASE ~allowed(k) \/ es[k + 1].type \notin MovingTypes
    <3>1. run[k + 1] = run[k]
      BY <1>5, <2>2, <2>6, ApplyEventMoves
    <3> QED BY <1>5, <2>3, <2>4, <2>5, <2>6, <3>1
  <2>7. CASE allowed(k) /\ es[k + 1].type \in MovingTypes
    <3>1. PICK t \in SagaStates : t = Target[es[k + 1].type]
      BY <2>7, MovesReachStates
    <3>2. ~run[k].refused /\ run[k].state = StateBefore(es, k + 1) /\ run[k] \in Sagas
      BY <1>5, <2>7
    <3>3. /\ run[k + 1] \in Sagas
          /\ IF CanTransitionTo(run[k].state, t)
             THEN /\ run[k + 1].state = t /\ run[k + 1].version = run[k].version + 1
                  /\ ~run[k + 1].refused
             ELSE run[k + 1].refused
      <4>1. PICK e : e = es[k + 1]
        OBVIOUS
      <4>2. PICK x \in Sagas : x = run[k]
        BY <3>2
      <4>3. ~x.refused /\ e.type \in MovingTypes /\ run[k + 1] = ApplyEvent(x, e)
        BY <2>2, <2>7, <3>2, <4>1, <4>2
      <4>4. PICK y : y = ApplyEvent(x, e)
        OBVIOUS
      <4>5. /\ y \in Sagas
            /\ IF CanTransitionTo(x.state, Target[e.type])
               THEN y.state = Target[e.type] /\ y.version = x.version + 1 /\ ~y.refused
               ELSE y.refused
        BY <4>3, <4>4, ApplyEventMoves
      <4> HIDE DEF allowed
      <4> QED BY <3>1, <4>1, <4>2, <4>3, <4>4, <4>5
    <3>4. CASE CanTransitionTo(run[k].state, t)
      <4>1. /\ run[k + 1].state = t /\ run[k + 1].version = run[k].version + 1
            /\ ~run[k + 1].refused /\ run[k + 1] \in Sagas
        BY <3>3, <3>4
      <4>2. Rank[run[k].state] < Rank[t] /\ Rank[t] \in 0..4 /\ Rank[run[k].state] \in 0..4
        BY <1>5, <3>4, MovesRaiseRank DEF Sagas
      <4>3. run[k + 1].version <= Rank[run[k + 1].state]
        BY <1>5, <2>7, <4>1, <4>2 DEF Sagas
      <4>4. allowed(k + 1) /\ run[k + 1].state = StateBefore(es, (k + 1) + 1)
        BY <2>3, <2>5, <2>7, <3>1, <3>2, <3>4, <4>1
      <4> QED BY <4>1, <4>3, <4>4
    <3>5. CASE ~CanTransitionTo(run[k].state, t)
      <4>1. run[k + 1] \in Sagas /\ run[k + 1].refused
        BY <3>3, <3>5
      <4>2. ~allowed(k + 1)
        BY <2>4, <2>5, <2>7, <3>1, <3>2, <3>5
      <4> QED BY <4>1, <4>2
    <3> QED BY <3>4, <3>5
  <2> QED BY <2>6, <2>7
<1>6. Nat \subseteq T
  <2> HIDE DEF Followed
  <2>1. 0 \in T /\ \A k \in T : k + 1 \in T
    BY <1>4, <1>5
  <2>2. T \in SUBSET Nat
    OBVIOUS
  <2> HIDE DEF T
  <2> QED BY <2>1, <2>2, SetInduction
<1>7. Followed(n)
  <2> HIDE DEF Followed
  <2> QED BY <1>6
<1>8. allowed(n) <=> MovesAllowed(es)
  BY <1>3 DEF MovesAllowed
<1> HIDE DEF allowed
<1>9. Rank[run[n].state] \in 0..4 /\ run[n].version \in Nat
  BY <1>7, MovesRaiseRank DEF Sagas
<1>10. run[n].refused = ~MovesAllowed(es)
  <2>1. run[n].refused \in BOOLEAN /\ (run[n].refused <=> ~MovesAllowed(es))
    BY <1>7, <1>8 DEF Sagas
  <2> QED BY <2>1
<1> QED BY <1>1, <1>2, <1>7, <1>8, <1>9, <1>10 DEF StateOf

----
(* The log holds events.                                                   *)
LogOK == log \in Seq(Event)

LEMMA CandidatesAreEvents == Candidates \subseteq Event
<1>1. ASSUME NEW t \in EventTypes, NEW p \in Payments, NEW u \in Users
      PROVE  NewBaseEvent(t, p, u, 1) \in Event
  BY DEF NewBaseEvent, NewBalanceEvent, Event
<1>2. ASSUME NEW e \in Event, NEW b \in Int PROVE [e EXCEPT !.after = b] \in Event
  BY DEF Event
<1>3. BalanceTypes \subseteq EventTypes /\ Balances \subseteq Int
  BY AggregatesAssumption DEF BalanceTypes, EventTypes
<1> QED BY <1>1, <1>2, <1>3 DEF Candidates

LEMMA LogInvariant == AggregatesSpec => []LogOK
<1>1. AggregatesInit => LogOK
  BY EmptySeq DEF AggregatesInit, LogOK
<1>2. ASSUME LogOK, [AppendEvent]_log PROVE LogOK'
  <2>1. CASE AppendEvent
    <3>1. PICK e \in Candidates : log' = Append(log, e)
      BY <2>1 DEF AppendEvent
    <3>2. e \in Event
      BY CandidatesAreEvents
    <3> QED BY <1>2, <3>1, <3>2, AppendProperties DEF LogOK
  <2>2. CASE UNCHANGED log
    BY <1>2, <2>2 DEF LogOK
  <2> QED BY <1>2, <2>1, <2>2
<1> QED BY <1>1, <1>2, PTL DEF AggregatesSpec

(* For every log of events, however long and however it came about: the    *)
(* loop of RebuildWalletState ends with the balance of the last balance    *)
(* event and has counted them all.                                         *)
THEOREM WalletLoopIsBalance == AggregatesSpec => []WalletLoopAgrees
<1>1. LogOK => WalletLoopAgrees
  BY WalletLoopCounts DEF LogOK, WalletLoopAgrees
<1> QED BY <1>1, LogInvariant, PTL

(* And the loop of rebuildSagaFromEvents fails exactly on the logs with a  *)
(* move the saga does not allow, and is otherwise in the state the last    *)
(* move leads to.                                                          *)
THEOREM SagaLoopIsStateOf == AggregatesSpec => []SagaLoopAgrees
<1>1. LogOK => SagaLoopAgrees
  BY SagaLoopFollows DEF LogOK, SagaLoopAgrees
<1> QED BY <1>1, LogInvariant, PTL

(* TransitionTo lets no log take a saga through more than four moves or    *)
(* past its end: a rebuilt saga has one concluding event at most, the last.*)
THEOREM SagasEndOnce == AggregatesSpec => []RebuiltSagaEndsOnce
<1>1. ASSUME LogOK PROVE RebuiltSagaEndsOnce
  <2> SUFFICES ASSUME MovesAllowed(log)
               PROVE  /\ SagaLoop(log).version <= 4
                      /\ \A i \in Moves(log) : Target[log[i].type] \in TerminalStates
                                             => \A j \in Moves(log) : j <= i
    BY DEF RebuiltSagaEndsOnce
  <2>1. SagaLoop(log).version <= 4
    BY <1>1, SagaLoopFollows DEF LogOK
  <2>2. Moves(log) \subseteq Nat
    BY <1>1, LenProperties DEF LogOK, Moves
  <2>3. ASSUME NEW i \in Moves(log), Target[log[i].type] \in TerminalStates,
               NEW j \in Moves(log), i < j
        PROVE  FALSE
    <3>1. PICK m \in Moves(log) : StateBefore(log, m) = Target[log[i].type]
      BY <1>1, <2>3, NextMoveStarts DEF LogOK
    <3>2. CanTransitionTo(StateBefore(log, m), Target[log[m].type])
      BY DEF MovesAllowed
    <3> QED BY <2>3, <3>1, <3>2 DEF CanTransitionTo, ValidTransitions, TerminalStates
  <2>4. \A i \in Moves(log) : Target[log[i].type] \in TerminalStates
                             => \A j \in Moves(log) : j <= i
    BY <2>2, <2>3
  <2> QED BY <2>1, <2>4
<1> QED BY <1>1, LogInvariant, PTL

=============================================================================
