------------------------- MODULE ErrorReportingProofs -------------------------
(***************************************************************************)
(* For every size of the queue and of the block it drops, every number of  *)
(* subscribers, letters and faults: the queue holds the newest letters,    *)
(* and a letter accepted after a handler subscribed is never forgotten.    *)
(*                                                                         *)
(* Each of the two is inductive on top of the type invariant.              *)
(***************************************************************************)
EXTENDS ErrorReporting, SequenceTheorems, TLAPS

(* How many letters a publication drops.                                   *)
Dropped(queue) == IF Len(queue) >= MaxEvents THEN Discarded ELSE 0

LEMMA MakeRoomKeepsNewest ==
  ASSUME NEW S, NEW queue \in Seq(S)
  PROVE  /\ MakeRoom(queue) \in Seq(S)
         /\ Dropped(queue) \in 0..Len(queue)
         /\ Len(MakeRoom(queue)) = Len(queue) - Dropped(queue)
         /\ \A i \in 1..(Len(queue) - Dropped(queue)) :
              MakeRoom(queue)[i] = queue[Dropped(queue) + i]
<1>1. Len(queue) \in Nat /\ Discarded \in Nat /\ Discarded <= MaxEvents /\ MaxEvents \in Nat
      /\ 0 < Discarded
  BY QueueAssumption, LenProperties
<1>2. CASE Len(queue) >= MaxEvents
  <2> DEFINE rest == SubSeq(queue, Discarded + 1, Len(queue))
  <2>1. Dropped(queue) = Discarded /\ MakeRoom(queue) = rest /\ Discarded <= Len(queue)
    BY <1>1, <1>2 DEF Dropped, MakeRoom
  <2>2. rest \in Seq(S) /\ Len(rest) = Len(queue) - Discarded
    BY <1>1, <2>1, SubSeqProperties
  <2>3. \A i \in 1..(Len(queue) - Discarded) : rest[i] = queue[Discarded + i]
    BY <1>1, <2>1, <2>2, SubSeqProperties
  <2> HIDE DEF rest
  <2> QED BY <1>1, <2>1, <2>2, <2>3
<1>3. CASE ~(Len(queue) >= MaxEvents)
  <2>1. Dropped(queue) = 0 /\ MakeRoom(queue) = queue
    BY <1>3 DEF Dropped, MakeRoom
  <2> QED BY <1>1, <2>1
<1> QED BY <1>2, <1>3

LEMMA EnqueueKeepsNewest ==
  ASSUME NEW S, deadLetters \in Seq(S), Len(deadLetters) <= MaxEvents, NEW x \in S,
         Enqueue(x)
  PROVE  /\ deadLetters' \in Seq(S)
         /\ Len(deadLetters') <= MaxEvents
         /\ Len(deadLetters') = Len(deadLetters) - Dropped(deadLetters) + 1
         /\ \A i \in 1..(Len(deadLetters) - Dropped(deadLetters)) :
              deadLetters'[i] = deadLetters[Dropped(deadLetters) + i]
         /\ deadLetters'[Len(deadLetters')] = x
         /\ Dropped(deadLetters) \in 0..Len(deadLetters)
<1> DEFINE kept == MakeRoom(deadLetters)
           d == Dropped(deadLetters)
<1>1. /\ kept \in Seq(S) /\ d \in 0..Len(deadLetters) /\ Len(kept) = Len(deadLetters) - d
      /\ \A i \in 1..(Len(deadLetters) - d) : kept[i] = deadLetters[d + i]
  BY MakeRoomKeepsNewest
<1>2. deadLetters' = Append(kept, x)
  BY DEF Enqueue
<1>3. Len(deadLetters) - d + 1 <= MaxEvents /\ Len(deadLetters) \in Nat
  BY QueueAssumption, LenProperties DEF Dropped
<1> HIDE DEF kept, d
<1>4. /\ deadLetters' \in Seq(S) /\ Len(deadLetters') = Len(kept) + 1
      /\ \A i \in 1..Len(kept) : deadLetters'[i] = kept[i]
      /\ deadLetters'[Len(kept) + 1] = x
  BY <1>1, <1>2, AppendProperties
<1> QED BY <1>1, <1>3, <1>4 DEF d

----

(* A sequence of letters stays one when letters are added.                 *)
LEMMA LettersGrow ==
  ASSUME NEW m \in Nat, NEW n \in Nat, m <= n
  PROVE  Seq(1..m) \subseteq Seq(1..n)
<1> SUFFICES ASSUME NEW s \in Seq(1..m) PROVE s \in Seq(1..n)
  OBVIOUS
<1>1. Len(s) \in Nat /\ s \in [1..Len(s) -> 1..m]
  BY LenProperties
<1>2. \A i \in 1..Len(s) : s[i] \in 1..n
  BY <1>1
<1> QED BY <1>1, <1>2, IsASeq, SeqDef

LEMMA FaultCounted ==
  ASSUME faults \in 0..MaxFaults, NoFault \/ \E kind \in {"store", "crash"} : Fault(kind)
  PROVE  faults' \in 0..MaxFaults
BY FaultsAssumption DEF NoFault, Fault

LEMMA ReportInitTyped == ReportInit => ReportTypeOK
<1> SUFFICES ASSUME ReportInit PROVE ReportTypeOK
  OBVIOUS
<1>1. deadLetters \in Seq(1..published) /\ <<>> \in Seq(1..published)
  BY DEF ReportInit, QueueInit
<1> QED BY <1>1, ReportAssumption, FaultsAssumption
        DEF ReportInit, FaultsInit, ProcessInit, ReportTypeOK

(* The handler is given a letter x.                                        *)
LEMMA HandlingTyped ==
  ASSUME ReportTypeOK, NEW h \in Handlers, NEW x \in 1..published, HandleDLQEvent(h, x)
  PROVE  /\ handled' = [handled EXCEPT ![h] = @ \cup {x}]
         /\ handled' \in [Handlers -> SUBSET (1..published)]
         /\ stored' \subseteq 1..published
         /\ faults' \in 0..MaxFaults
<1>1. handled' = [handled EXCEPT ![h] = @ \cup {x}]
  BY DEF HandleDLQEvent, PersistDLQEvent
<1>2. handled' \in [Handlers -> SUBSET (1..published)] /\ stored' \subseteq 1..published
  BY <1>1 DEF HandleDLQEvent, PersistDLQEvent, ReportTypeOK
<1>3. faults' \in 0..MaxFaults
  BY FaultCounted DEF HandleDLQEvent, PersistDLQEvent, ReportTypeOK
<1> QED BY <1>1, <1>2, <1>3

(* The next letter of a copy is one that was published.                    *)
LEMMA HeadTyped ==
  ASSUME ReportTypeOK, NEW h \in Handlers, batch[h] # <<>>
  PROVE  /\ Head(batch[h]) \in 1..published
         /\ Tail(batch[h]) \in Seq(1..published)
<1>1. batch[h] \in Seq(1..published)
  BY DEF ReportTypeOK
<1> QED BY <1>1, HeadTailProperties

LEMMA PublishTyped ==
  ASSUME ReportTypeOK, Len(deadLetters) <= MaxEvents, PublishLetter
  PROVE  ReportTypeOK'
<1>1. /\ published \in Nat /\ published' = published + 1 /\ published' \in 0..MaxPublished
      /\ 1..published \subseteq 1..published'
  BY ReportAssumption DEF PublishLetter, ReportTypeOK
<1>2. Seq(1..published) \subseteq Seq(1..published')
  BY <1>1, LettersGrow
<1>3. deadLetters' \in Seq(1..published')
  <2>1. deadLetters \in Seq(1..published') /\ published + 1 \in 1..published'
    BY <1>1, <1>2 DEF ReportTypeOK
  <2>2. Enqueue(published + 1)
    BY DEF PublishLetter
  <2> HIDE <1>1
  <2> QED BY <2>1, <2>2, EnqueueKeepsNewest
<1>4. batch' \in [Handlers -> Seq(1..published')]
  BY <1>2 DEF PublishLetter, ReportTypeOK
<1>5. spawned' \subseteq subscribed' \X (1..published')
  BY <1>1 DEF PublishLetter, ReportTypeOK
<1>6. /\ stored' \subseteq 1..published' /\ born' \in 0..published'
      /\ since' \in [Handlers -> 0..published']
      /\ handled' \in [Handlers -> SUBSET (1..published')]
  BY <1>1 DEF PublishLetter, ReportTypeOK
<1>7. faults' \in 0..MaxFaults /\ running' \in BOOLEAN /\ subscribed' \subseteq Handlers
  BY DEF PublishLetter, ReportTypeOK
<1> QED BY <1>1, <1>3, <1>4, <1>5, <1>6, <1>7 DEF ReportTypeOK

LEMMA ReportingStepTyped == ASSUME ReportTypeOK, ReportingStep PROVE ReportTypeOK'
<1>1. published \in Nat
  BY DEF ReportTypeOK
<1>2. ASSUME NEW h \in Handlers, Subscribe(h) PROVE ReportTypeOK'
  <2>1. since' \in [Handlers -> 0..published] /\ spawned \subseteq subscribed' \X (1..published)
    BY <1>1, <1>2 DEF Subscribe, ReportTypeOK
  <2> QED BY <1>2, <2>1 DEF Subscribe, ReportTypeOK
<1>3. ASSUME NEW h \in Handlers, CopyQueue(h) PROVE ReportTypeOK'
  <2>1. batch' \in [Handlers -> Seq(1..published)]
    BY <1>3 DEF CopyQueue, ReportTypeOK
  <2> QED BY <1>3, <2>1 DEF CopyQueue, ReportTypeOK
<1>4. ASSUME NEW h \in Handlers, HandleQueued(h) PROVE ReportTypeOK'
  <2>1. Head(batch[h]) \in 1..published /\ Tail(batch[h]) \in Seq(1..published)
    BY <1>4, HeadTyped DEF HandleQueued
  <2>2. /\ handled' \in [Handlers -> SUBSET (1..published)]
        /\ stored' \subseteq 1..published /\ faults' \in 0..MaxFaults
    BY <1>4, <2>1, HandlingTyped DEF HandleQueued
  <2>3. batch' \in [Handlers -> Seq(1..published)]
    BY <1>4, <2>1 DEF HandleQueued, ReportTypeOK
  <2> QED BY <1>4, <2>2, <2>3 DEF HandleQueued, ReportTypeOK
<1>5. ASSUME NEW h \in Handlers, NEW x \in Letters, HandleSpawned(h, x) PROVE ReportTypeOK'
  <2>1. x \in 1..published
    BY <1>5 DEF HandleSpawned, ReportTypeOK
  <2>2. /\ handled' \in [Handlers -> SUBSET (1..published)]
        /\ stored' \subseteq 1..published /\ faults' \in 0..MaxFaults
    BY <1>5, <2>1, HandlingTyped DEF HandleSpawned
  <2> QED BY <1>5, <2>2 DEF HandleSpawned, ReportTypeOK
<1>6. CASE CloseQueue
  BY <1>6 DEF CloseQueue, ReportTypeOK
<1>7. CASE CrashReporting
  <2>1. faults' \in 0..MaxFaults
    BY <1>7, FaultCounted DEF CrashReporting, ReportTypeOK
  <2>2. deadLetters' \in Seq(1..published) /\ batch' \in [Handlers -> Seq(1..published)]
    BY <1>7 DEF CrashReporting
  <2> QED BY <1>1, <1>7, <2>1, <2>2 DEF CrashReporting, ReportTypeOK
<1> QED BY <1>2, <1>3, <1>4, <1>5, <1>6, <1>7 DEF ReportingStep, QueueLoop, Spawned

----
(* What the queue holds changes only with a publication or a crash.        *)
LEMMA QueueUntouched ==
  ASSUME ReportingStep
  PROVE  CrashReporting \/ UNCHANGED <<deadLetters, published, born>>
BY DEF ReportingStep, Subscribe, QueueLoop, CopyQueue, HandleQueued, Spawned,
       HandleSpawned, CloseQueue

LEMMA PublishKeepsRecent ==
  ASSUME ReportTypeOK, QueueIsRecentPast, PublishLetter
  PROVE  QueueIsRecentPast'
<1> DEFINE n == Len(deadLetters)
           d == Dropped(deadLetters)
<1>1. /\ published \in Nat /\ published' = published + 1 /\ born' = born /\ born \in 0..published
      /\ deadLetters \in Seq(1..(published + 1)) /\ n \in Nat
      /\ published + 1 \in 1..(published + 1) /\ Enqueue(published + 1)
  <2>1. /\ published \in Nat /\ published' = published + 1 /\ born' = born
        /\ born \in 0..published /\ deadLetters \in Seq(1..published) /\ Enqueue(published + 1)
    BY DEF PublishLetter, ReportTypeOK
  <2>2. Seq(1..published) \subseteq Seq(1..(published + 1))
    BY <2>1, LettersGrow
  <2>3. n \in Nat
    BY <2>1, LenProperties
  <2> QED BY <2>1, <2>2, <2>3
<1>2. /\ n <= MaxEvents
      /\ n = published - born \/ n > MaxEvents - Discarded
      /\ \A i \in 1..n : deadLetters[i] = published - n + i
  BY DEF QueueIsRecentPast
<1>3. /\ Len(deadLetters') <= MaxEvents /\ Len(deadLetters') = n - d + 1 /\ d \in 0..n
      /\ \A i \in 1..(n - d) : deadLetters'[i] = deadLetters[d + i]
      /\ deadLetters'[Len(deadLetters')] = published + 1
  <2> DEFINE S == 1..(published + 1)
             x == published + 1
  <2>1. deadLetters \in Seq(S) /\ Len(deadLetters) <= MaxEvents /\ x \in S /\ Enqueue(x)
    BY <1>1, <1>2
  <2> HIDE DEF S, x
  <2>2. /\ Len(deadLetters') <= MaxEvents
        /\ Len(deadLetters') = Len(deadLetters) - Dropped(deadLetters) + 1
        /\ \A i \in 1..(Len(deadLetters) - Dropped(deadLetters)) :
             deadLetters'[i] = deadLetters[Dropped(deadLetters) + i]
        /\ deadLetters'[Len(deadLetters')] = x
        /\ Dropped(deadLetters) \in 0..Len(deadLetters)
    BY <2>1, EnqueueKeepsNewest
  <2> QED BY <2>2 DEF x
<1>4. n - d + 1 = published + 1 - born \/ n - d + 1 > MaxEvents - Discarded
  <2>1. /\ n \in Nat /\ published \in Nat /\ born \in Nat /\ MaxEvents \in Nat
        /\ Discarded \in Nat /\ Discarded <= MaxEvents /\ n <= MaxEvents
    BY <1>1, <1>2, QueueAssumption
  <2>2. CASE n >= MaxEvents
    <3>1. d = Discarded
      BY <2>2 DEF Dropped
    <3> QED BY <2>1, <2>2, <3>1
  <2>3. CASE ~(n >= MaxEvents)
    <3>1. d = 0
      BY <2>3 DEF Dropped
    <3> QED BY <1>2, <2>1, <3>1
  <2> QED BY <2>2, <2>3
<1> HIDE DEF n, d
<1>5. ASSUME NEW i \in 1..Len(deadLetters')
      PROVE  deadLetters'[i] = published + 1 - (n - d + 1) + i
  <2>1. CASE i \in 1..(n - d)
    <3>1. d + i \in 1..n
      BY <1>1, <1>3, <2>1
    <3>2. deadLetters'[i] = published - n + (d + i)
      BY <1>2, <1>3, <2>1, <3>1
    <3> QED BY <1>1, <1>3, <2>1, <3>2
  <2>2. CASE i = n - d + 1
    BY <1>1, <1>3, <2>2
  <2>3. i \in 1..(n - d) \/ i = n - d + 1
    BY <1>1, <1>3
  <2> QED BY <2>1, <2>2, <2>3
<1> QED BY <1>1, <1>3, <1>4, <1>5 DEF QueueIsRecentPast

LEMMA RecentNext ==
  ASSUME ReportTypeOK, QueueIsRecentPast, [ReportNext]_reportVars
  PROVE  QueueIsRecentPast'
<1>1. CASE PublishLetter
  BY <1>1, PublishKeepsRecent
<1>2. CASE CrashReporting
  <2>1. deadLetters' = <<>> /\ Len(deadLetters') = 0
    BY <1>2 DEF CrashReporting
  <2>2. published \in Nat /\ published - published = 0
    BY DEF ReportTypeOK
  <2>3. published' = published /\ born' = published
    BY <1>2 DEF CrashReporting
  <2>4. Len(deadLetters') <= MaxEvents /\ Len(deadLetters') = published' - born'
    BY <2>1, <2>2, <2>3, QueueAssumption
  <2>5. \A i \in 1..Len(deadLetters') : deadLetters'[i] = published' - Len(deadLetters') + i
    BY <2>1
  <2> QED BY <2>4, <2>5 DEF QueueIsRecentPast
<1>3. CASE UNCHANGED <<deadLetters, published, born>>
  BY <1>3 DEF QueueIsRecentPast
<1> QED BY <1>1, <1>2, <1>3, QueueUntouched DEF ReportNext, reportVars

LEMMA TypedNext ==
  ASSUME ReportTypeOK, QueueIsRecentPast, [ReportNext]_reportVars
  PROVE  ReportTypeOK'
<1>1. CASE PublishLetter
  BY <1>1, PublishTyped DEF QueueIsRecentPast
<1>2. CASE ReportingStep
  BY <1>2, ReportingStepTyped
<1>3. CASE UNCHANGED reportVars
  BY <1>3 DEF reportVars, ReportTypeOK
<1> QED BY <1>1, <1>2, <1>3 DEF ReportNext

LEMMA ReportInvariants == ReportSpec => [](ReportTypeOK /\ QueueIsRecentPast)
<1>1. ReportInit => ReportTypeOK /\ QueueIsRecentPast
  <2>1. ReportInit => QueueIsRecentPast
    BY QueueAssumption DEF ReportInit, QueueInit, ProcessInit, QueueIsRecentPast
  <2> QED BY <2>1, ReportInitTyped
<1>2. ReportTypeOK /\ QueueIsRecentPast /\ [ReportNext]_reportVars
        => ReportTypeOK' /\ QueueIsRecentPast'
  BY TypedNext, RecentNext
<1> QED BY <1>1, <1>2, PTL DEF ReportSpec

(* No goroutine and no copy of the queue ever holds a letter that was not  *)
(* published, and none is started for a handler that has not subscribed.   *)
THEOREM ReportingTypeCorrect == ReportSpec => []ReportTypeOK
<1> QED BY ReportInvariants, PTL

(* Publish in dlq.go keeps the newest letters, in order and up to its      *)
(* bound, for every bound and every block it drops.                        *)
THEOREM QueueKeepsNewest == ReportSpec => []QueueIsRecentPast
<1> QED BY ReportInvariants, PTL

----
LEMMA PublishForgetsNothing ==
  ASSUME ReportTypeOK, NoLetterForgotten, PublishLetter
  PROVE  NoLetterForgotten'
<1> SUFFICES ASSUME NEW h \in subscribed', NEW x \in 1..published', x > since'[h]
             PROVE  x \in handled'[h] \/ <<h, x>> \in spawned'
  BY DEF NoLetterForgotten
<1>1. /\ h \in subscribed /\ since' = since /\ handled' = handled
      /\ published' = published + 1 /\ published \in Nat
      /\ spawned' = spawned \cup (subscribed \X {published + 1})
  BY DEF PublishLetter, ReportTypeOK
<1>2. CASE x = published + 1
  BY <1>1, <1>2
<1>3. CASE x \in 1..published
  BY <1>1, <1>3 DEF NoLetterForgotten
<1> QED BY <1>1, <1>2, <1>3

(* A handler that is given letters forgets none.                           *)
LEMMA HandlingForgetsNothing ==
  ASSUME ReportTypeOK, NoLetterForgotten, NEW h \in Handlers, NEW x \in 1..published,
         HandleDLQEvent(h, x), UNCHANGED <<subscribed, published, since>>,
         spawned' = spawned \/ spawned' = spawned \ {<<h, x>>}
  PROVE  NoLetterForgotten'
<1> SUFFICES ASSUME NEW k \in subscribed, NEW y \in 1..published, y > since[k]
             PROVE  y \in handled'[k] \/ <<k, y>> \in spawned'
  BY DEF NoLetterForgotten
<1>1. /\ handled' = [handled EXCEPT ![h] = @ \cup {x}] /\ k \in Handlers
      /\ handled \in [Handlers -> SUBSET (1..published)]
  BY DEF HandleDLQEvent, PersistDLQEvent, ReportTypeOK
<1>2. y \in handled[k] \/ <<k, y>> \in spawned
  BY DEF NoLetterForgotten
<1>3. CASE y \in handled[k]
  BY <1>1, <1>3
<1>4. CASE <<k, y>> \in spawned /\ <<k, y>> # <<h, x>>
  BY <1>4
<1>5. CASE k = h /\ y = x
  BY <1>1, <1>5
<1> QED BY <1>2, <1>3, <1>4, <1>5

LEMMA ForgottenNext ==
  ASSUME ReportTypeOK, NoLetterForgotten, [ReportNext]_reportVars
  PROVE  NoLetterForgotten'
<1>1. CASE PublishLetter
  BY <1>1, PublishForgetsNothing
<1>2. ASSUME NEW h \in Handlers, Subscribe(h) PROVE NoLetterForgotten'
  <2> SUFFICES ASSUME NEW k \in subscribed', NEW x \in 1..published, x > since'[k]
               PROVE  x \in handled[k] \/ <<k, x>> \in spawned
    BY <1>2 DEF Subscribe, NoLetterForgotten
  <2>1. since' = [since EXCEPT ![h] = published] /\ since \in [Handlers -> 0..published]
        /\ subscribed' = subscribed \cup {h} /\ published \in Nat
    BY <1>2 DEF Subscribe, ReportTypeOK
  <2>2. k # h
    BY <2>1
  <2>3. k \in subscribed /\ x > since[k]
    BY <2>1, <2>2
  <2> QED BY <2>3 DEF NoLetterForgotten
<1>3. ASSUME NEW h \in Handlers, HandleQueued(h) PROVE NoLetterForgotten'
  <2>1. Head(batch[h]) \in 1..published
    BY <1>3, HeadTyped DEF HandleQueued
  <2>2. HandleDLQEvent(h, Head(batch[h])) /\ UNCHANGED <<subscribed, published, since, spawned>>
    BY <1>3 DEF HandleQueued
  <2> QED BY <2>1, <2>2, HandlingForgetsNothing
<1>4. ASSUME NEW h \in Handlers, NEW x \in Letters, HandleSpawned(h, x) PROVE NoLetterForgotten'
  <2>1. x \in 1..published
    BY <1>4 DEF HandleSpawned, ReportTypeOK
  <2>2. /\ HandleDLQEvent(h, x) /\ UNCHANGED <<subscribed, published, since>>
        /\ spawned' = spawned \ {<<h, x>>}
    BY <1>4 DEF HandleSpawned
  <2> QED BY <2>1, <2>2, HandlingForgetsNothing
<1>5. CASE CrashReporting
  BY <1>5 DEF CrashReporting, NoLetterForgotten
<1>6. CASE UNCHANGED <<subscribed, published, since, handled, spawned>>
  BY <1>6 DEF NoLetterForgotten
<1>7. ASSUME NEW h \in Handlers, CopyQueue(h) PROVE NoLetterForgotten'
  BY <1>6, <1>7 DEF CopyQueue
<1>8. CASE CloseQueue \/ UNCHANGED reportVars
  BY <1>6, <1>8 DEF CloseQueue, reportVars
<1> QED BY <1>1, <1>2, <1>3, <1>4, <1>5, <1>7, <1>8
        DEF ReportNext, ReportingStep, QueueLoop, Spawned

(* A letter Publish accepts after a handler subscribed is handled by it or *)
(* has its goroutine still to run, however often the queue drops letters.  *)
THEOREM NothingForgotten == ReportSpec => []NoLetterForgotten
<1>1. ReportInit => NoLetterForgotten
  BY DEF ReportInit, ProcessInit, NoLetterForgotten
<1>2. ReportTypeOK /\ NoLetterForgotten /\ [ReportNext]_reportVars => NoLetterForgotten'
  BY ForgottenNext
<1> QED BY <1>1, <1>2, ReportingTypeCorrect, PTL DEF ReportSpec

=============================================================================
