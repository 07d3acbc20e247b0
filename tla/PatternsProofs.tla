---------------------------- MODULE PatternsProofs ----------------------------
(***************************************************************************)
(* Theorems about the components that the Patterns run checks: producers   *)
(* and consumers, learning episodes, and the run itself.                   *)
(***************************************************************************)
EXTENDS MCPatterns, CircuitBreakerProofs, AgentBreakerProofs, FiniteSetTheorems, TLAPS

-----------------------------------------------------------------------------
(***************************************************************************)
(* ProducerConsumer.  Drained looks at the end of stop() only.  What it    *)
(* rests on is the order in the buffer: as soon as stop() was called the   *)
(* items it has to see consumed are all in front of the first sentinel, so *)
(* that a consumer that leaves on one leaves none of them behind.          *)
(***************************************************************************)
InBuffer(x) == \E k \in 1..Len(pdBuffer) : pdBuffer[k] = x

InHand(c, x) == pdAt[c] = "work" /\ pdItem[c] = x

(* What a consumer works on came out of the buffer. *)
FromBuffer == \A c \in Consumers : pdAt[c] = "work" => pdItem[c] \in Items \cup {Sentinel}

ProducerTypeInv == ProducerTypeOK /\ FromBuffer

(* Where start() and stop() are. *)
Phases ==
  /\ pdStop => pdStarts = MaxStarts
  /\ pdRunning => pdStarts >= 1
  /\ pdMain # "idle" => pdStop
  /\ pdMain = "idle" /\ pdStop => ~pdRunning
  /\ ~pdRunning => \A c \in Consumers : pdAt[c] = "none"
  /\ ~pdStop /\ pdRunning => \A c \in Consumers : pdAt[c] # "none"

(* Sentinels come from stop(). *)
NoEarlySentinel ==
  ~pdStop => ~InBuffer(Sentinel) /\ \A c \in Consumers : ~InHand(c, Sentinel)

(* An item is put once, by its own producer. *)
PutOnce ==
  \A i \in Items : pdProducer[i] # "done" => i \notin pdAccepted

(* An accepted item is still on its way until it was consumed. *)
NothingLost ==
  \A i \in pdAccepted :
    i \in pdConsumed \/ InBuffer(i) \/ \E c \in Consumers : InHand(c, i)

(* The sentinels are behind every accepted item, so a consumer that leaves  *)
(* leaves none behind.                                                      *)
SentinelsBehind ==
  \A j, k \in 1..Len(pdBuffer) : j < k /\ pdBuffer[j] = Sentinel => pdBuffer[k] \notin pdAccepted

LeftNothing ==
  pdStop /\ (\E c \in Consumers : pdAt[c] = "none" \/ InHand(c, Sentinel))
    => \A k \in 1..Len(pdBuffer) : pdBuffer[k] \notin pdAccepted

DrainInv ==
  /\ ProducerTypeInv /\ Phases /\ NoEarlySentinel /\ PutOnce
  /\ NothingLost /\ SentinelsBehind /\ LeftNothing

LEMMA ProducerInitType == ProducerInit => ProducerTypeInv
<1>1. Cardinality(Consumers) \in Nat
  BY ConsumersAssumption, FS_CardinalityType
<1> SUFFICES ASSUME ProducerInit PROVE ProducerTypeInv
  OBVIOUS
<1>2. pdBuffer \in Seq(Items \cup {Sentinel}) /\ Len(pdBuffer) = 0
  BY DEF ProducerInit
<1>3. pdAt \in [Consumers -> {"none", "loop", "get", "work"}]
  BY DEF ProducerInit
<1>4. pdItem \in [Consumers -> Items \cup {Sentinel, NoItem}]
  BY DEF ProducerInit
<1>5. pdProducer \in [Items -> {"new", "put", "done"}]
  BY DEF ProducerInit
<1>6. FromBuffer
  BY DEF ProducerInit, FromBuffer
<1>7. Len(pdBuffer) <= BufferSize /\ pdSentinels \in 0..Cardinality(Consumers)
      /\ pdStarts \in 0..MaxStarts
  BY <1>1, <1>2, BufferAssumption DEF ProducerInit
<1>8. /\ pdRunning \in BOOLEAN /\ pdStop \in BOOLEAN
      /\ pdMain \in {"idle", "pushing", "joining"}
      /\ pdAccepted \subseteq Items /\ pdConsumed \subseteq Items \cup {Sentinel}
  BY DEF ProducerInit
<1> QED
  BY <1>2, <1>3, <1>4, <1>5, <1>6, <1>7, <1>8 DEF ProducerTypeInv, ProducerTypeOK

LEMMA ProducerTypeStep ==
  ASSUME ProducerTypeInv, [ProducerNext]_pdVars
  PROVE  ProducerTypeInv'
<1>0. Cardinality(Consumers) \in Nat /\ BufferSize \in Nat \ {0} /\ MaxStarts \in Nat
  BY ConsumersAssumption, FS_CardinalityType, BufferAssumption
<1> USE DEF ProducerTypeInv, ProducerTypeOK, FromBuffer
<1>1. CASE Start
  <2>1. pdAt' \in [Consumers -> {"none", "loop", "get", "work"}]
    BY <1>1 DEF Start
  <2>2. FromBuffer'
    BY <1>1 DEF Start
  <2>3. pdStarts' \in 0..MaxStarts
    BY <1>0, <1>1 DEF Start
  <2> QED
    BY <1>1, <2>1, <2>2, <2>3 DEF Start
<1>2. CASE Stop
  BY <1>0, <1>2 DEF Stop
<1>3. CASE PushSentinel
  <2>1. CASE pdSentinels > 0 /\ Len(pdBuffer) < BufferSize
    <3>1. pdBuffer' = Append(pdBuffer, Sentinel) /\ pdSentinels' = pdSentinels - 1
      BY <1>3, <2>1 DEF PushSentinel
    <3>2. pdBuffer' \in Seq(Items \cup {Sentinel}) /\ Len(pdBuffer') = Len(pdBuffer) + 1
      BY <3>1
    <3>3. Len(pdBuffer') <= BufferSize
      BY <1>0, <2>1, <3>2
    <3>4. pdSentinels' \in 0..Cardinality(Consumers)
      BY <1>0, <2>1, <3>1
    <3> QED
      BY <1>3, <2>1, <3>2, <3>3, <3>4 DEF PushSentinel
  <2>2. CASE ~(pdSentinels > 0 /\ Len(pdBuffer) < BufferSize)
    BY <1>0, <1>3, <2>2 DEF PushSentinel
  <2> QED
    BY <2>1, <2>2
<1>4. CASE Joined
  BY <1>4 DEF Joined
<1>5. ASSUME NEW i \in Items, Produce(i) PROVE ProducerTypeInv'
  BY <1>5 DEF Produce
<1>6. ASSUME NEW i \in Items, Put(i) PROVE ProducerTypeInv'
  <2>1. pdBuffer' \in Seq(Items \cup {Sentinel}) /\ Len(pdBuffer') = Len(pdBuffer) + 1
    BY <1>6 DEF Put
  <2>2. Len(pdBuffer') <= BufferSize
    BY <1>0, <1>6, <2>1 DEF Put
  <2>3. pdAccepted' \subseteq Items
    BY <1>6 DEF Put
  <2> QED
    BY <1>6, <2>1, <2>2, <2>3 DEF Put
<1>7. ASSUME NEW c \in Consumers, TestLoop(c) PROVE ProducerTypeInv'
  BY <1>7 DEF TestLoop
<1>8. ASSUME NEW c \in Consumers, Get(c) PROVE ProducerTypeInv'
  <2>1. CASE pdBuffer = << >>
    BY <1>8, <2>1 DEF Get
  <2>2. CASE pdBuffer # << >>
    <3>1. /\ pdAt' = [pdAt EXCEPT ![c] = "work"]
          /\ pdItem' = [pdItem EXCEPT ![c] = Head(pdBuffer)]
          /\ pdBuffer' = Tail(pdBuffer)
      BY <1>8, <2>2 DEF Get
    <3>2. Head(pdBuffer) \in Items \cup {Sentinel}
      BY <2>2
    <3>3. pdBuffer' \in Seq(Items \cup {Sentinel}) /\ Len(pdBuffer') = Len(pdBuffer) - 1
      BY <2>2, <3>1
    <3>4. Len(pdBuffer') <= BufferSize
      BY <1>0, <3>3
    <3> QED
      BY <1>8, <3>1, <3>2, <3>3, <3>4 DEF Get
  <2> QED
    BY <2>1, <2>2
<1>9. ASSUME NEW c \in Consumers, Consume(c) PROVE ProducerTypeInv'
  BY <1>9 DEF Consume
<1>10. CASE UNCHANGED pdVars
  BY <1>10 DEF pdVars
<1> QED
  BY <1>1, <1>2, <1>3, <1>4, <1>5, <1>6, <1>7, <1>8, <1>9, <1>10
  DEF ProducerNext, ConsumerStep

(* Every variable keeps its type, and the buffer its size.                  *)
THEOREM ProducerTypeCorrect == ProducerSpec => []ProducerTypeOK
<1>1. ProducerTypeInv => ProducerTypeOK
  BY DEF ProducerTypeInv
<1> QED
  BY <1>1, ProducerInitType, ProducerTypeStep, PTL DEF ProducerSpec

LEMMA DrainInit == ProducerInit => DrainInv
<1> SUFFICES ASSUME ProducerInit PROVE DrainInv
  OBVIOUS
<1>1. ProducerTypeInv
  BY ProducerInitType
<1>2. Len(pdBuffer) = 0
  BY DEF ProducerInit
<1>3. Phases /\ PutOnce /\ NothingLost
  BY DEF ProducerInit, Phases, PutOnce, NothingLost
<1>4. NoEarlySentinel
  BY <1>2 DEF ProducerInit, NoEarlySentinel, InBuffer, InHand
<1>5. SentinelsBehind /\ LeftNothing
  BY <1>2 DEF ProducerInit, SentinelsBehind, LeftNothing
<1> QED
  BY <1>1, <1>3, <1>4, <1>5 DEF DrainInv

(* A step that leaves the buffer, the hands, the history and stop() alone   *)
(* leaves all that is said of them.                                         *)
LEMMA DrainFrame ==
  ASSUME DrainInv, ProducerTypeInv', Phases',
         UNCHANGED <<pdBuffer, pdItem, pdAccepted, pdConsumed, pdStop>>,
         \A i \in Items : pdProducer'[i] # "done" => pdProducer[i] # "done",
         \A c \in Consumers : pdAt'[c] = "work" <=> pdAt[c] = "work",
         pdStop' => (\A c \in Consumers : pdAt'[c] = "none" => pdAt[c] = "none")
                    \/ pdBuffer = << >>
  PROVE  DrainInv'
<1>1. NoEarlySentinel'
  BY DEF DrainInv, NoEarlySentinel, InBuffer, InHand
<1>4. PutOnce'
  BY DEF DrainInv, PutOnce
<1>5. SentinelsBehind'
  BY DEF DrainInv, SentinelsBehind
<1>2. NothingLost'
  BY DEF DrainInv, NothingLost, InBuffer, InHand
<1>3. LeftNothing'
  <2>1. CASE pdBuffer = << >>
    <3>1. Len(pdBuffer') = 0
      BY <2>1
    <3> QED
      BY <3>1 DEF LeftNothing
  <2>2. CASE pdBuffer # << >>
    BY <2>2 DEF DrainInv, LeftNothing, InHand
  <2> QED
    BY <2>1, <2>2
<1> QED
  BY <1>1, <1>2, <1>3, <1>4, <1>5 DEF DrainInv

LEMMA PhasesStep ==
  ASSUME MaxStarts <= 1, ProducerTypeInv, ProducerTypeInv', Phases, [ProducerNext]_pdVars
  PROVE  Phases'
<1>0. MaxStarts \in Nat /\ pdStarts \in 0..MaxStarts /\ pdStarts' \in 0..MaxStarts
      /\ pdAt \in [Consumers -> {"none", "loop", "get", "work"}]
      /\ pdMain \in {"idle", "pushing", "joining"} /\ pdRunning \in BOOLEAN
      /\ pdStop \in BOOLEAN
  BY BufferAssumption DEF ProducerTypeInv, ProducerTypeOK
<1>1. CASE Start
  <2>1. ~pdStop /\ pdStarts' >= 1
    BY <1>0, <1>1 DEF Start, Phases
  <2>2. pdMain' = "idle" /\ ~pdStop' /\ pdRunning' /\ \A c \in Consumers : pdAt'[c] = "loop"
    BY <1>1 DEF Start
  <2> QED
    BY <2>1, <2>2 DEF Phases
<1>2. CASE Stop
  <2>1. pdRunning /\ ~pdStop /\ pdStarts = MaxStarts
    BY <1>0, <1>2 DEF Stop, Phases
  <2> QED
    BY <1>0, <1>2, <2>1 DEF Stop, Phases
<1>3. CASE PushSentinel
  BY <1>3 DEF PushSentinel, Phases
<1>4. CASE Joined
  BY <1>4 DEF Joined, Phases
<1>5. ASSUME NEW i \in Items, Produce(i) \/ Put(i) PROVE Phases'
  BY <1>5 DEF Produce, Put, Phases
<1>7. ASSUME NEW c \in Consumers, TestLoop(c) PROVE Phases'
  <2>1. pdRunning
    BY <1>7 DEF TestLoop, Phases
  <2>2. ~pdStop => pdAt'[c] = "get"
    BY <1>0, <1>7 DEF TestLoop, GoesOn
  <2>3. \A d \in Consumers : d # c => pdAt'[d] = pdAt[d]
    BY <1>0, <1>7 DEF TestLoop
  <2> QED
    BY <1>7, <2>1, <2>2, <2>3 DEF TestLoop, Phases
<1>8. ASSUME NEW c \in Consumers, Get(c) PROVE Phases'
  <2>1. pdRunning
    BY <1>8 DEF Get, Phases
  <2>2. pdAt'[c] \in {"loop", "work"}
    BY <1>0, <1>8 DEF Get
  <2>3. \A d \in Consumers : d # c => pdAt'[d] = pdAt[d]
    BY <1>0, <1>8 DEF Get
  <2> QED
    BY <1>8, <2>1, <2>2, <2>3 DEF Get, Phases
<1>9. ASSUME NEW c \in Consumers, Consume(c) PROVE Phases'
  <2>1. pdRunning
    BY <1>9 DEF Consume, Phases
  <2>2. ~pdStop => pdAt'[c] = "loop"
    BY <1>0, <1>9 DEF Consume
  <2>3. \A d \in Consumers : d # c => pdAt'[d] = pdAt[d]
    BY <1>0, <1>9 DEF Consume
  <2> QED
    BY <1>9, <2>1, <2>2, <2>3 DEF Consume, Phases
<1>10. CASE UNCHANGED pdVars
  BY <1>10 DEF pdVars, Phases
<1> QED
  BY <1>1, <1>2, <1>3, <1>4, <1>5, <1>7, <1>8, <1>9, <1>10 DEF ProducerNext, ConsumerStep

(* What is put behind the buffer. *)
LEMMA PutBehind ==
  ASSUME NEW S, NEW q \in Seq(S), NEW x \in S
  PROVE  /\ Append(q, x) \in Seq(S) /\ Len(Append(q, x)) = Len(q) + 1
         /\ Append(q, x)[Len(q) + 1] = x
         /\ \A k \in 1..Len(q) : Append(q, x)[k] = q[k]
OBVIOUS

(* What is left when the head was taken. *)
LEMMA TakenFrom ==
  ASSUME NEW S, NEW q \in Seq(S), q # << >>
  PROVE  /\ Head(q) = q[1] /\ Head(q) \in S
         /\ Tail(q) \in Seq(S) /\ Len(Tail(q)) = Len(q) - 1 /\ Len(q) \in Nat \ {0}
         /\ \A k \in 1..(Len(q) - 1) : Tail(q)[k] = q[k + 1]
OBVIOUS

LEMMA DrainPush ==
  ASSUME DrainInv, ProducerTypeInv', Phases', PushSentinel
  PROVE  DrainInv'
<1> USE DEF DrainInv
<1>0. pdBuffer \in Seq(Items \cup {Sentinel}) /\ Len(pdBuffer) \in Nat
      /\ pdAccepted \subseteq Items
  BY DEF ProducerTypeInv, ProducerTypeOK
<1>1. CASE pdSentinels > 0 /\ Len(pdBuffer) < BufferSize
  <2>1. /\ pdBuffer' = Append(pdBuffer, Sentinel) /\ pdStop /\ pdStop'
        /\ UNCHANGED <<pdAt, pdItem, pdAccepted, pdConsumed, pdProducer>>
    BY <1>1 DEF PushSentinel, Phases
  <2>2. Len(pdBuffer') = Len(pdBuffer) + 1 /\ pdBuffer'[Len(pdBuffer) + 1] = Sentinel
        /\ \A k \in 1..Len(pdBuffer) : pdBuffer'[k] = pdBuffer[k]
    BY <1>0, <2>1, PutBehind
  <2>3. \A k \in 1..Len(pdBuffer') : k \in 1..Len(pdBuffer) \/ k = Len(pdBuffer) + 1
    BY <1>0, <2>2
  <2>4. Sentinel \notin pdAccepted
    BY <1>0, ItemsAssumption
  <2>5. NoEarlySentinel' /\ PutOnce'
    BY <2>1 DEF NoEarlySentinel, PutOnce
  <2>6. NothingLost'
    <3>1. \A k \in 1..Len(pdBuffer) : k \in 1..Len(pdBuffer')
      BY <1>0, <2>2
    <3> QED
      BY <2>1, <2>2, <3>1 DEF NothingLost, InBuffer, InHand
  <2>7. SentinelsBehind'
    <3>1. ASSUME NEW j \in 1..Len(pdBuffer'), NEW k \in 1..Len(pdBuffer'),
                 j < k, pdBuffer'[j] = Sentinel
          PROVE  pdBuffer'[k] \notin pdAccepted
      <4>1. CASE k = Len(pdBuffer) + 1
        BY <2>2, <2>4, <4>1
      <4>2. CASE k \in 1..Len(pdBuffer)
        <5>1. j \in 1..Len(pdBuffer)
          BY <1>0, <3>1, <4>2
        <5> QED
          BY <2>2, <3>1, <4>2, <5>1 DEF SentinelsBehind
      <4> QED
        BY <2>3, <4>1, <4>2
    <3> QED
      BY <2>1, <3>1 DEF SentinelsBehind
  <2>8. LeftNothing'
    BY <2>1, <2>2, <2>3, <2>4 DEF LeftNothing, InHand
  <2> QED
    BY <2>5, <2>6, <2>7, <2>8
<1>2. CASE ~(pdSentinels > 0 /\ Len(pdBuffer) < BufferSize)
  <2>1. UNCHANGED <<pdBuffer, pdItem, pdAccepted, pdConsumed, pdStop, pdProducer, pdAt>>
    BY <1>2 DEF PushSentinel
  <2> QED
    BY <2>1, DrainFrame
<1> QED
  BY <1>1, <1>2

LEMMA DrainPut ==
  ASSUME DrainInv, ProducerTypeInv', Phases', NEW i \in Items, Put(i)
  PROVE  DrainInv'
<1> USE DEF DrainInv
<1>0. pdBuffer \in Seq(Items \cup {Sentinel}) /\ Len(pdBuffer) \in Nat
      /\ pdAccepted \subseteq Items /\ pdProducer \in [Items -> {"new", "put", "done"}]
      /\ pdStop \in BOOLEAN
  BY DEF ProducerTypeInv, ProducerTypeOK
<1>1. /\ pdBuffer' = Append(pdBuffer, i) /\ pdProducer[i] = "put"
      /\ pdAccepted' = (IF pdStop THEN pdAccepted ELSE pdAccepted \cup {i})
      /\ pdProducer' = [pdProducer EXCEPT ![i] = "done"]
      /\ UNCHANGED <<pdAt, pdItem, pdConsumed, pdStop>>
  BY DEF Put
<1>2. Len(pdBuffer') = Len(pdBuffer) + 1 /\ pdBuffer'[Len(pdBuffer) + 1] = i
      /\ \A k \in 1..Len(pdBuffer) : pdBuffer'[k] = pdBuffer[k]
  BY <1>0, <1>1, PutBehind
<1>3. \A k \in 1..Len(pdBuffer') : k \in 1..Len(pdBuffer) \/ k = Len(pdBuffer) + 1
  BY <1>0, <1>2
<1>4. /\ \A k \in 1..Len(pdBuffer) : k \in 1..Len(pdBuffer')
      /\ Len(pdBuffer) + 1 \in 1..Len(pdBuffer')
  BY <1>0, <1>2
<1>5. i # Sentinel /\ i \notin pdAccepted
  BY <1>1, ItemsAssumption DEF PutOnce
<1>6. NoEarlySentinel'
  <2>1. ASSUME ~pdStop' PROVE ~InBuffer(Sentinel)' /\ \A c \in Consumers : ~InHand(c, Sentinel)'
    <3>1. ~InBuffer(Sentinel) /\ \A c \in Consumers : ~InHand(c, Sentinel)
      BY <1>1, <2>1 DEF NoEarlySentinel
    <3>2. \A k \in 1..Len(pdBuffer') : pdBuffer'[k] # Sentinel
      BY <1>2, <1>3, <1>5, <3>1 DEF InBuffer
    <3> QED
      BY <1>1, <3>1, <3>2 DEF InBuffer, InHand
  <2> QED
    BY <2>1 DEF NoEarlySentinel
<1>7. PutOnce'
  <2>1. \A j \in Items : j # i => pdProducer'[j] = pdProducer[j]
    BY <1>0, <1>1
  <2>2. pdProducer'[i] = "done"
    BY <1>0, <1>1
  <2>3. \A j \in pdAccepted' : j \in pdAccepted \/ j = i
    BY <1>1
  <2> QED
    BY <2>1, <2>2, <2>3 DEF PutOnce
<1>8. NothingLost'
  <2>1. ASSUME NEW j \in pdAccepted'
        PROVE  j \in pdConsumed' \/ InBuffer(j)' \/ \E c \in Consumers : InHand(c, j)'
    <3>1. CASE j = i
      BY <1>2, <1>4, <3>1 DEF InBuffer
    <3>2. CASE j \in pdAccepted
      <4>1. InBuffer(j) => InBuffer(j)'
        BY <1>2, <1>4 DEF InBuffer
      <4>2. \A c \in Consumers : InHand(c, j) => InHand(c, j)'
        BY <1>1 DEF InHand
      <4> QED
        BY <1>1, <3>2, <4>1, <4>2 DEF NothingLost
    <3> QED
      BY <1>1, <2>1, <3>1, <3>2
  <2> QED
    BY <2>1 DEF NothingLost
<1>9. CASE pdStop
  <2>1. pdAccepted' = pdAccepted
    BY <1>1, <1>9
  <2>2. SentinelsBehind'
    <3>1. ASSUME NEW j \in 1..Len(pdBuffer'), NEW k \in 1..Len(pdBuffer'),
                 j < k, pdBuffer'[j] = Sentinel
          PROVE  pdBuffer'[k] \notin pdAccepted
      <4>1. CASE k = Len(pdBuffer) + 1
        BY <1>2, <1>5, <4>1
      <4>2. CASE k \in 1..Len(pdBuffer)
        <5>1. j \in 1..Len(pdBuffer)
          BY <1>0, <3>1, <4>2
        <5> QED
          BY <1>2, <3>1, <4>2, <5>1 DEF SentinelsBehind
      <4> QED
        BY <1>3, <4>1, <4>2
    <3> QED
      BY <2>1, <3>1 DEF SentinelsBehind
  <2>3. LeftNothing'
    BY <1>1, <1>2, <1>3, <1>5, <2>1 DEF LeftNothing, InHand
  <2> QED
    BY <1>6, <1>7, <1>8, <2>2, <2>3
<1>10. CASE ~pdStop
  <2>1. \A k \in 1..Len(pdBuffer') : pdBuffer'[k] # Sentinel
    BY <1>2, <1>3, <1>5, <1>10 DEF NoEarlySentinel, InBuffer
  <2>2. SentinelsBehind' /\ LeftNothing'
    BY <1>1, <1>10, <2>1 DEF SentinelsBehind, LeftNothing
  <2> QED
    BY <1>6, <1>7, <1>8, <2>2
<1> QED
  BY <1>9, <1>10

LEMMA DrainGet ==
  ASSUME DrainInv, ProducerTypeInv', Phases', NEW c \in Consumers, Get(c)
  PROVE  DrainInv'
<1> USE DEF DrainInv
<1>0. pdBuffer \in Seq(Items \cup {Sentinel}) /\ Len(pdBuffer) \in Nat
      /\ pdAccepted \subseteq Items /\ pdAt \in [Consumers -> {"none", "loop", "get", "work"}]
      /\ pdItem \in [Consumers -> Items \cup {Sentinel, NoItem}]
  BY DEF ProducerTypeInv, ProducerTypeOK
<1>a. pdAt[c] = "get" /\ UNCHANGED <<pdStop, pdProducer, pdAccepted, pdConsumed>>
  BY DEF Get
<1>b. \A d \in Consumers : d # c => pdAt'[d] = pdAt[d] /\ pdItem'[d] = pdItem[d]
  BY <1>0 DEF Get
<1>1. CASE pdBuffer = << >>
  <2>1. pdAt'[c] = "loop" /\ UNCHANGED <<pdBuffer, pdItem>>
    BY <1>0, <1>1 DEF Get
  <2>2. \A d \in Consumers : pdAt'[d] = "work" <=> pdAt[d] = "work"
    BY <1>a, <1>b, <2>1
  <2> QED
    BY <1>1, <1>a, <2>1, <2>2, DrainFrame
<1>2. CASE pdBuffer # << >>
  <2>1. /\ pdAt'[c] = "work" /\ pdItem'[c] = Head(pdBuffer) /\ pdBuffer' = Tail(pdBuffer)
    BY <1>0, <1>2 DEF Get
  <2>2. /\ pdItem'[c] = pdBuffer[1] /\ Len(pdBuffer') = Len(pdBuffer) - 1
        /\ Len(pdBuffer) \in Nat \ {0}
        /\ \A k \in 1..(Len(pdBuffer) - 1) : pdBuffer'[k] = pdBuffer[k + 1]
    BY <1>0, <1>2, <2>1, TakenFrom
  <2>3. /\ \A k \in 1..Len(pdBuffer') : k + 1 \in 2..Len(pdBuffer) /\ pdBuffer'[k] = pdBuffer[k + 1]
        /\ \A k \in 1..Len(pdBuffer) : k # 1 => k - 1 \in 1..Len(pdBuffer') /\ pdBuffer'[k - 1] = pdBuffer[k]
        /\ 1 \in 1..Len(pdBuffer) /\ 2..Len(pdBuffer) \subseteq 1..Len(pdBuffer)
    BY <2>2
  <2>4. NoEarlySentinel'
    <3>1. ASSUME ~pdStop' PROVE ~InBuffer(Sentinel)' /\ \A d \in Consumers : ~InHand(d, Sentinel)'
      <4>1. ~InBuffer(Sentinel) /\ \A d \in Consumers : ~InHand(d, Sentinel)
        BY <1>a, <3>1 DEF NoEarlySentinel
      <4>2. \A k \in 1..Len(pdBuffer) : pdBuffer[k] # Sentinel
        BY <4>1 DEF InBuffer
      <4>3. \A k \in 1..Len(pdBuffer') : pdBuffer'[k] # Sentinel
        BY <2>3, <4>2
      <4>4. pdItem'[c] # Sentinel
        BY <2>2, <2>3, <4>2
      <4> QED
        BY <1>b, <4>1, <4>3, <4>4 DEF InBuffer, InHand
    <3> QED
      BY <3>1 DEF NoEarlySentinel
  <2>5. PutOnce'
    BY <1>a DEF PutOnce
  <2>6. NothingLost'
    <3>1. ASSUME NEW j \in pdAccepted
          PROVE  j \in pdConsumed' \/ InBuffer(j)' \/ \E d \in Consumers : InHand(d, j)'
      <4>1. CASE j \in pdConsumed
        BY <1>a, <4>1
      <4>2. CASE InBuffer(j)
        <5>1. PICK k \in 1..Len(pdBuffer) : pdBuffer[k] = j
          BY <4>2 DEF InBuffer
        <5>2. CASE k = 1
          BY <2>1, <2>2, <5>1, <5>2 DEF InHand
        <5>3. CASE k # 1
          BY <2>3, <5>1, <5>3 DEF InBuffer
        <5> QED
          BY <5>2, <5>3
      <4>3. ASSUME NEW d \in Consumers, InHand(d, j)
            PROVE  InHand(d, j)'
        BY <1>a, <1>b, <4>3 DEF InHand
      <4> QED
        BY <3>1, <4>1, <4>2, <4>3 DEF NothingLost
    <3> QED
      BY <1>a, <3>1 DEF NothingLost
  <2>7. SentinelsBehind'
    <3>1. ASSUME NEW j \in 1..Len(pdBuffer'), NEW k \in 1..Len(pdBuffer'),
                 j < k, pdBuffer'[j] = Sentinel
          PROVE  pdBuffer'[k] \notin pdAccepted
      <4>1. j + 1 \in 1..Len(pdBuffer) /\ k + 1 \in 1..Len(pdBuffer) /\ j + 1 < k + 1
            /\ pdBuffer[j + 1] = Sentinel /\ pdBuffer'[k] = pdBuffer[k + 1]
        BY <2>3, <3>1
      <4> QED
        BY <4>1 DEF SentinelsBehind
    <3> QED
      BY <1>a, <3>1 DEF SentinelsBehind
  <2>8. LeftNothing'
    <3>1. ASSUME pdStop, NEW d \in Consumers, pdAt'[d] = "none" \/ InHand(d, Sentinel)',
                 NEW k \in 1..Len(pdBuffer')
          PROVE  pdBuffer'[k] \notin pdAccepted
      <4>1. k + 1 \in 1..Len(pdBuffer) /\ pdBuffer'[k] = pdBuffer[k + 1] /\ 1 < k + 1
        BY <2>3
      <4>2. CASE d = c
        <5>1. pdBuffer[1] = Sentinel
          BY <2>1, <2>2, <3>1, <4>2 DEF InHand
        <5> QED
          BY <2>3, <4>1, <5>1 DEF SentinelsBehind
      <4>3. CASE d # c
        <5>1. pdAt[d] = "none" \/ InHand(d, Sentinel)
          BY <1>b, <3>1, <4>3 DEF InHand
        <5> QED
          BY <3>1, <4>1, <5>1 DEF LeftNothing
      <4> QED
        BY <4>2, <4>3
    <3> QED
      BY <1>a, <3>1 DEF LeftNothing
  <2> QED
    BY <2>4, <2>5, <2>6, <2>7, <2>8
<1> QED
  BY <1>1, <1>2

LEMMA DrainConsume ==
  ASSUME DrainInv, ProducerTypeInv', Phases', NEW c \in Consumers, Consume(c)
  PROVE  DrainInv'
<1> USE DEF DrainInv
<1>0. pdAt \in [Consumers -> {"none", "loop", "get", "work"}]
      /\ pdItem \in [Consumers -> Items \cup {Sentinel, NoItem}] /\ pdAccepted \subseteq Items
  BY DEF ProducerTypeInv, ProducerTypeOK
<1>a. pdAt[c] = "work" /\ UNCHANGED <<pdStop, pdProducer, pdAccepted, pdBuffer>>
      /\ pdConsumed \subseteq pdConsumed'
  BY DEF Consume
<1>b. \A d \in Consumers : d # c => pdAt'[d] = pdAt[d] /\ pdItem'[d] = pdItem[d]
  BY <1>0 DEF Consume
<1>c. pdAt'[c] \in {"none", "loop"}
  BY <1>0 DEF Consume
<1>d. pdAt'[c] = "none" => InHand(c, Sentinel)
  BY <1>0 DEF Consume, InHand
<1>e. pdItem[c] # Sentinel => pdItem[c] \in pdConsumed'
  BY <1>0 DEF Consume
<1>1. NoEarlySentinel'
  BY <1>a, <1>b, <1>c DEF NoEarlySentinel, InBuffer, InHand
<1>2. PutOnce' /\ SentinelsBehind'
  BY <1>a DEF PutOnce, SentinelsBehind
<1>3. NothingLost'
  <2>1. ASSUME NEW j \in pdAccepted
        PROVE  j \in pdConsumed' \/ InBuffer(j)' \/ \E d \in Consumers : InHand(d, j)'
    <3>1. CASE j \in pdConsumed \/ InBuffer(j)
      BY <1>a, <3>1 DEF InBuffer
    <3>2. ASSUME NEW d \in Consumers, InHand(d, j), d # c PROVE InHand(d, j)'
      BY <1>b, <3>2 DEF InHand
    <3>3. CASE InHand(c, j)
      BY <1>0, <1>e, <2>1, <3>3, ItemsAssumption DEF InHand
    <3> QED
      BY <2>1, <3>1, <3>2, <3>3 DEF NothingLost
  <2> QED
    BY <1>a, <2>1 DEF NothingLost
<1>4. LeftNothing'
  BY <1>a, <1>b, <1>c, <1>d DEF LeftNothing, InHand
<1> QED
  BY <1>1, <1>2, <1>3, <1>4

LEMMA DrainStep ==
  ASSUME MaxStarts <= 1, DrainInv, [ProducerNext]_pdVars
  PROVE  DrainInv'
<1>a. ProducerTypeInv' /\ Phases'
  BY ProducerTypeStep, PhasesStep DEF DrainInv
<1>b. /\ pdAt \in [Consumers -> {"none", "loop", "get", "work"}]
      /\ pdProducer \in [Items -> {"new", "put", "done"}]
      /\ MaxStarts \in Nat /\ pdStarts \in 0..MaxStarts
  BY BufferAssumption DEF DrainInv, ProducerTypeInv, ProducerTypeOK
<1>1. CASE Start
  <2>1. ~pdStop /\ ~pdRunning
    BY <1>1, <1>b DEF Start, DrainInv, Phases
  <2>2. \A c \in Consumers : pdAt[c] = "none" /\ pdAt'[c] = "loop"
    BY <1>1, <2>1 DEF Start, DrainInv, Phases
  <2>3. UNCHANGED <<pdBuffer, pdItem, pdAccepted, pdConsumed, pdProducer>> /\ ~pdStop'
    BY <1>1 DEF Start
  <2>4. NoEarlySentinel'
    BY <2>1, <2>2, <2>3 DEF DrainInv, NoEarlySentinel, InBuffer, InHand
  <2>5. PutOnce' /\ SentinelsBehind'
    BY <2>3 DEF DrainInv, PutOnce, SentinelsBehind
  <2>6. NothingLost'
    BY <2>2, <2>3 DEF DrainInv, NothingLost, InBuffer, InHand
  <2>7. LeftNothing'
    BY <2>3 DEF LeftNothing
  <2> QED
    BY <1>a, <2>4, <2>5, <2>6, <2>7 DEF DrainInv
<1>2. CASE Stop
  <2>1. ~pdStop /\ pdStop'
    BY <1>2 DEF Stop, DrainInv, Phases
  <2>2. UNCHANGED <<pdBuffer, pdItem, pdAccepted, pdConsumed, pdProducer, pdAt>>
    BY <1>2 DEF Stop
  <2>3. \A c \in Consumers : pdAt[c] # "none" /\ ~InHand(c, Sentinel)
    BY <1>2, <2>1 DEF Stop, DrainInv, Phases, NoEarlySentinel
  <2>4. NoEarlySentinel'
    BY <2>1 DEF NoEarlySentinel
  <2>5. PutOnce' /\ SentinelsBehind'
    BY <2>2 DEF DrainInv, PutOnce, SentinelsBehind
  <2>6. NothingLost'
    BY <2>2 DEF DrainInv, NothingLost, InBuffer, InHand
  <2>7. LeftNothing'
    BY <2>2, <2>3 DEF LeftNothing, InHand
  <2> QED
    BY <1>a, <2>4, <2>5, <2>6, <2>7 DEF DrainInv
<1>3. CASE PushSentinel
  BY <1>3, <1>a, DrainPush
<1>4. CASE Joined
  BY <1>4, <1>a, DrainFrame DEF Joined
<1>5. ASSUME NEW i \in Items, Produce(i) PROVE DrainInv'
  <2>1. \A j \in Items : pdProducer'[j] # "done" => pdProducer[j] # "done"
    BY <1>5, <1>b DEF Produce
  <2> QED
    BY <1>5, <1>a, <2>1, DrainFrame DEF Produce
<1>6. ASSUME NEW i \in Items, Put(i) PROVE DrainInv'
  BY <1>6, <1>a, DrainPut
<1>7. ASSUME NEW c \in Consumers, TestLoop(c) PROVE DrainInv'
  <2>1. pdAt[c] = "loop" /\ pdAt'[c] \in {"get", "none"}
        /\ (pdAt'[c] = "none" => pdBuffer = << >>)
    BY <1>7, <1>b DEF TestLoop, GoesOn
  <2>2. \A d \in Consumers : d # c => pdAt'[d] = pdAt[d]
    BY <1>7, <1>b DEF TestLoop
  <2>3. \A d \in Consumers : pdAt'[d] = "work" <=> pdAt[d] = "work"
    BY <2>1, <2>2
  <2>4. (\A d \in Consumers : pdAt'[d] = "none" => pdAt[d] = "none") \/ pdBuffer = << >>
    BY <2>1, <2>2
  <2>5. UNCHANGED <<pdBuffer, pdItem, pdAccepted, pdConsumed, pdStop, pdProducer>>
    BY <1>7 DEF TestLoop
  <2> QED
    BY <1>a, <2>3, <2>4, <2>5, DrainFrame
<1>8. ASSUME NEW c \in Consumers, Get(c) PROVE DrainInv'
  BY <1>8, <1>a, DrainGet
<1>9. ASSUME NEW c \in Consumers, Consume(c) PROVE DrainInv'
  BY <1>9, <1>a, DrainConsume
<1>10. CASE UNCHANGED pdVars
  BY <1>10, <1>a, DrainFrame DEF pdVars
<1> QED
  BY <1>1, <1>2, <1>3, <1>4, <1>5, <1>6, <1>7, <1>8, <1>9, <1>10
  DEF ProducerNext, ConsumerStep

(* stop() leaves nothing behind that was in the buffer when it was called,  *)
(* for every number of items and consumers and every size of the buffer, of *)
(* an object that is started once and has a consumer.  Started again it may *)
(* find sentinels in front of items: those that stop() pushed and the       *)
(* consumers did not need to leave.                                         *)
THEOREM StopDrains ==
  ASSUME MaxStarts <= 1, Consumers # {}
  PROVE  ProducerSpec => []Drained
<1>1. DrainInv => Drained
  <2> SUFFICES ASSUME DrainInv, pdMain = "idle", pdStop, NEW i \in pdAccepted
               PROVE  i \in pdConsumed
    BY DEF Drained
  <2>1. \A c \in Consumers : pdAt[c] = "none"
    BY DEF DrainInv, Phases
  <2>2. ~InBuffer(i)
    BY <2>1 DEF DrainInv, LeftNothing, InBuffer
  <2>3. \A c \in Consumers : ~InHand(c, i)
    BY <2>1 DEF InHand
  <2> QED
    BY <2>2, <2>3 DEF DrainInv, NothingLost
<1>2. DrainInv /\ [ProducerNext]_pdVars => DrainInv'
  BY DrainStep
<1> QED
  BY <1>1, <1>2, DrainInit, PTL DEF ProducerSpec

-----------------------------------------------------------------------------
(***************************************************************************)
(* LearningEpisode.  Neither half of EpisodesFitTogether is inductive: a   *)
(* compensation undoes what the stack of the episode says, which lags one  *)
(* step behind the row and the cache; and what is cached was approved only *)
(* because every completion began with an approval that nothing revokes.   *)
(***************************************************************************)
(* The cache holds a mapping under its own key. *)
UnderItsKey == \A o \in Origins : lmCache[o] # Nothing => OriginOf[lmCache[o]] = o

(* Until the row is there, nothing else is. *)
Beginning(e) ==
  /\ lmAt[e] \in {"new", "insert", "push"} => lmPhase[e] # "compensated"
  /\ lmAt[e] \in {"new", "insert", "push", "classify", "submit"} => lmHitl[e] = "none"

(* Only what was approved is completed. *)
Approved(e) ==
  e \notin Deterministic /\ (lmAt[e] \in Completing \/ lmCache[OriginOf[e]] = e)
    => lmHitl[e] = "approved"

(* An effect has its undo action, but for the step between the two. *)
Undoable(e) ==
  /\ lmGraph[e] # "none" /\ lmAt[e] # "push" => "graph" \in lmUndo[e]
  /\ lmCache[OriginOf[e]] = e /\ lmAt[e] # "deploy" => "cache" \in lmUndo[e]

(* A compensation leaves nothing, but for a completion about to deploy. *)
Undone(e) ==
  lmPhase[e] = "compensated" =>
    lmGraph[e] = "none" /\ (lmAt[e] # "deploy" => lmCache[OriginOf[e]] # e)

EpisodeSound(e) == Beginning(e) /\ Approved(e) /\ Undoable(e) /\ Undone(e)

EpisodeInv == EpisodeTypeOK /\ UnderItsKey /\ \A e \in Episodes : EpisodeSound(e)

LEMMA EpisodeInitType == EpisodeInit => EpisodeTypeOK
<1> SUFFICES ASSUME EpisodeInit PROVE EpisodeTypeOK
  OBVIOUS
<1>1. lmPhase \in [Episodes -> {"none", "proposed", "classified", "human_validation",
                                "committed", "deployed", "compensated"}]
  BY DEF EpisodeInit
<1>2. lmUndo \in [Episodes -> SUBSET {"graph", "cache"}]
  BY DEF EpisodeInit
<1>3. lmGraph \in [Episodes -> {"none", "stored", "approved"}]
  BY DEF EpisodeInit
<1>4. lmHitl \in [Episodes -> {"none", "pending", "invalid", "approved", "rejected", "expired"}]
  BY DEF EpisodeInit
<1>5. lmCache \in [Origins -> Episodes \cup {Nothing}]
  BY DEF EpisodeInit
<1>6. lmAt \in [Episodes -> Places]
  BY DEF EpisodeInit, Places
<1>7. lmPoisoned \in BOOLEAN
  BY DEF EpisodeInit
<1> QED
  BY <1>1, <1>2, <1>3, <1>4, <1>5, <1>6, <1>7 DEF EpisodeTypeOK

LEMMA EpisodeTypeStep ==
  ASSUME EpisodeTypeOK, [EpisodeNext]_lmVars
  PROVE  EpisodeTypeOK'
<1> USE DEF EpisodeTypeOK
<1>1. ASSUME NEW e \in Episodes, StartEpisode(e) PROVE EpisodeTypeOK'
  BY <1>1 DEF StartEpisode, Enter, Go, Places
<1>2. ASSUME NEW e \in Episodes, InsertMapping(e) PROVE EpisodeTypeOK'
  BY <1>2 DEF InsertMapping, Fail, Go, Places
<1>3. ASSUME NEW e \in Episodes, PushRemoval(e) PROVE EpisodeTypeOK'
  <2>1. lmUndo' \in [Episodes -> SUBSET {"graph", "cache"}]
    BY <1>3 DEF PushRemoval, Push
  <2>2. lmAt' \in [Episodes -> Places]
    BY <1>3 DEF PushRemoval, Go, Places
  <2> QED
    BY <1>3, <2>1, <2>2 DEF PushRemoval
<1>4. ASSUME NEW e \in Episodes, Classify(e) PROVE EpisodeTypeOK'
  BY <1>4 DEF Classify, Enter, Go, Places, Completing
<1>5. ASSUME NEW e \in Episodes, SubmitForReview(e) PROVE EpisodeTypeOK'
  BY <1>5 DEF SubmitForReview, Fail, Go, Places
<1>6. ASSUME NEW e \in Episodes, SubmitForHitl(e) PROVE EpisodeTypeOK'
  BY <1>6 DEF SubmitForHitl, Enter, Go, Places
<1>7. ASSUME NEW e \in Episodes, CompleteAfterHitl(e) PROVE EpisodeTypeOK'
  BY <1>7 DEF CompleteAfterHitl, Approve, Go, Places, Completing
<1>8. ASSUME NEW e \in Episodes, NEW how \in {"rejected", "expired"}, CloseRequest(e, how)
      PROVE  EpisodeTypeOK'
  BY <1>8 DEF CloseRequest
<1>9. ASSUME NEW e \in Episodes, ExpireInvalid(e) PROVE EpisodeTypeOK'
  BY <1>9 DEF ExpireInvalid
<1>10. ASSUME NEW e \in Episodes, ValidateEpisode(e) PROVE EpisodeTypeOK'
  BY <1>10 DEF ValidateEpisode, Enter, Go, Places, Completing
<1>11. ASSUME NEW e \in Episodes, ApproveMapping(e) PROVE EpisodeTypeOK'
  BY <1>11 DEF ApproveMapping, Fail, Go, Places, Completing
<1>12. ASSUME NEW e \in Episodes, SealEpisode(e) PROVE EpisodeTypeOK'
  BY <1>12 DEF SealEpisode, Go, Places, Completing
<1>13. ASSUME NEW e \in Episodes, CacheInsert(e) PROVE EpisodeTypeOK'
  <2>1. lmCache' \in [Origins -> Episodes \cup {Nothing}]
    BY <1>13 DEF CacheInsert
  <2>2. lmAt' \in [Episodes -> Places]
    BY <1>13 DEF CacheInsert, Go, Places, Completing
  <2> QED
    BY <1>13, <2>1, <2>2 DEF CacheInsert
<1>14. ASSUME NEW e \in Episodes, Deploy(e) PROVE EpisodeTypeOK'
  <2>1. lmUndo' \in [Episodes -> SUBSET {"graph", "cache"}]
    BY <1>14 DEF Deploy, Push
  <2>2. lmAt' \in [Episodes -> Places]
    BY <1>14 DEF Deploy, Go, Places
  <2>3. lmPhase' \in [Episodes -> {"none", "proposed", "classified", "human_validation",
                                   "committed", "deployed", "compensated"}]
    BY <1>14 DEF Deploy, Enter
  <2> QED
    BY <1>14, <2>1, <2>2, <2>3 DEF Deploy
<1>15. ASSUME NEW e \in Episodes, CompensateEpisode(e) PROVE EpisodeTypeOK'
  <2>1. lmUndo' \in [Episodes -> SUBSET {"graph", "cache"}]
    BY <1>15 DEF CompensateEpisode
  <2>2. lmGraph' \in [Episodes -> {"none", "stored", "approved"}]
    BY <1>15 DEF CompensateEpisode
  <2>3. lmPhase' \in [Episodes -> {"none", "proposed", "classified", "human_validation",
                                   "committed", "deployed", "compensated"}]
    BY <1>15 DEF CompensateEpisode, Enter
  <2>4. lmCache' \in [Origins -> Episodes \cup {Nothing}]
    BY <1>15 DEF CompensateEpisode
  <2> QED
    BY <1>15, <2>1, <2>2, <2>3, <2>4 DEF CompensateEpisode
<1>16. CASE UNCHANGED lmVars
  BY <1>16 DEF lmVars
<1> QED
  BY <1>1, <1>2, <1>3, <1>4, <1>5, <1>6, <1>7, <1>8, <1>9, <1>10, <1>11, <1>12, <1>13, <1>14,
     <1>15, <1>16 DEF EpisodeNext

(* Every variable keeps its type.                                           *)
THEOREM EpisodeTypeCorrect == EpisodeSpec => []EpisodeTypeOK
BY EpisodeInitType, EpisodeTypeStep, PTL DEF EpisodeSpec

LEMMA EpisodeInitInv == EpisodeInit => EpisodeInv
<1> SUFFICES ASSUME EpisodeInit PROVE EpisodeInv
  OBVIOUS
<1>1. UnderItsKey
  BY DEF EpisodeInit, UnderItsKey
<1>2. ASSUME NEW e \in Episodes PROVE EpisodeSound(e)
  <2>1. /\ lmPhase[e] = "none" /\ lmUndo[e] = {} /\ lmGraph[e] = "none"
        /\ lmHitl[e] = "none" /\ lmAt[e] = "new"
    BY DEF EpisodeInit
  <2>2. lmCache[OriginOf[e]] = Nothing /\ e # Nothing
    BY EpisodesAssumption DEF EpisodeInit, Origins
  <2> QED
    BY <2>1, <2>2 DEF EpisodeSound, Beginning, Approved, Undoable, Undone, Completing
<1> QED
  BY <1>1, <1>2, EpisodeInitType DEF EpisodeInv

(* A call of e leaves the other episodes alone, and of the cache it only    *)
(* touches e's own key.                                                     *)
CallOf(e) ==
  /\ \A x \in Episodes : x # e =>
       /\ lmPhase'[x] = lmPhase[x] /\ lmUndo'[x] = lmUndo[x] /\ lmGraph'[x] = lmGraph[x]
       /\ lmHitl'[x] = lmHitl[x] /\ lmAt'[x] = lmAt[x]
  /\ \A o \in Origins : lmCache'[o] = lmCache[o] \/ (o = OriginOf[e] /\ lmCache'[o] \in {e, Nothing})

LEMMA EpisodeFrame ==
  ASSUME EpisodeInv, NEW e \in Episodes, CallOf(e), EpisodeTypeOK', EpisodeSound(e)'
  PROVE  EpisodeInv'
<1>1. UnderItsKey'
  BY DEF EpisodeInv, UnderItsKey, CallOf
<1>2. ASSUME NEW x \in Episodes, x # e PROVE EpisodeSound(x)'
  <2>1. OriginOf[x] \in Origins /\ x # Nothing
    BY EpisodesAssumption DEF Origins
  <2>2. lmCache'[OriginOf[x]] = x => lmCache[OriginOf[x]] = x
    BY <1>2, <2>1 DEF CallOf
  <2>3. EpisodeSound(x)
    BY DEF EpisodeInv
  <2>4. /\ lmPhase'[x] = lmPhase[x] /\ lmUndo'[x] = lmUndo[x] /\ lmGraph'[x] = lmGraph[x]
        /\ lmHitl'[x] = lmHitl[x] /\ lmAt'[x] = lmAt[x]
    BY <1>2 DEF CallOf
  <2> QED
    BY <2>2, <2>3, <2>4 DEF EpisodeSound, Beginning, Approved, Undoable, Undone
<1> QED
  BY <1>1, <1>2 DEF EpisodeInv

LEMMA EpisodeStepOf ==
  ASSUME "delete" \notin Troubles, EpisodeInv, EpisodeTypeOK', NEW e \in Episodes,
         \/ StartEpisode(e) \/ InsertMapping(e) \/ PushRemoval(e) \/ Classify(e)
         \/ SubmitForReview(e) \/ SubmitForHitl(e)
         \/ CompleteAfterHitl(e) \/ (\E how \in {"rejected", "expired"} : CloseRequest(e, how))
         \/ ExpireInvalid(e)
         \/ ValidateEpisode(e) \/ ApproveMapping(e) \/ SealEpisode(e) \/ CacheInsert(e) \/ Deploy(e)
         \/ CompensateEpisode(e)
  PROVE  EpisodeInv'
<1>0. /\ lmPhase \in [Episodes -> {"none", "proposed", "classified", "human_validation",
                                   "committed", "deployed", "compensated"}]
      /\ lmUndo \in [Episodes -> SUBSET {"graph", "cache"}]
      /\ lmGraph \in [Episodes -> {"none", "stored", "approved"}]
      /\ lmHitl \in [Episodes -> {"none", "pending", "invalid", "approved", "rejected", "expired"}]
      /\ lmCache \in [Origins -> Episodes \cup {Nothing}]
      /\ lmAt \in [Episodes -> Places]
      /\ OriginOf[e] \in Origins /\ e # Nothing
  BY EpisodesAssumption DEF EpisodeInv, EpisodeTypeOK, Origins
<1>a. EpisodeSound(e)
  BY DEF EpisodeInv
<1>1. CASE StartEpisode(e)
  <2>1. CallOf(e)
    BY <1>0, <1>1 DEF StartEpisode, Enter, Go, CallOf
  <2>2. EpisodeSound(e)'
    BY <1>0, <1>a, <1>1 DEF StartEpisode, Enter, Go, EpisodeSound, Beginning, Approved, Undoable, Undone, Completing
  <2> QED
    BY <2>1, <2>2, EpisodeFrame
<1>2. CASE InsertMapping(e)
  <2>1. CallOf(e)
    BY <1>0, <1>2 DEF InsertMapping, Fail, Go, CallOf
  <2>2. EpisodeSound(e)'
    BY <1>0, <1>a, <1>2 DEF InsertMapping, Fail, Go, EpisodeSound, Beginning, Approved, Undoable, Undone, Completing
  <2> QED
    BY <2>1, <2>2, EpisodeFrame
<1>3. CASE PushRemoval(e)
  <2>1. CallOf(e)
    BY <1>0, <1>3 DEF PushRemoval, Push, Go, CallOf
  <2>2. EpisodeSound(e)'
    BY <1>0, <1>a, <1>3 DEF PushRemoval, Push, Go, EpisodeSound, Beginning, Approved, Undoable, Undone, Completing
  <2> QED
    BY <2>1, <2>2, EpisodeFrame
<1>4. CASE Classify(e)
  <2>1. CallOf(e)
    BY <1>0, <1>4 DEF Classify, Enter, Go, CallOf
  <2>2. EpisodeSound(e)'
    BY <1>0, <1>a, <1>4 DEF Classify, Enter, Go, EpisodeSound, Beginning, Approved, Undoable, Undone, Completing
  <2> QED
    BY <2>1, <2>2, EpisodeFrame
<1>5. CASE SubmitForReview(e)
  <2>1. CallOf(e)
    BY <1>0, <1>5 DEF SubmitForReview, Fail, Go, CallOf
  <2>2. EpisodeSound(e)'
    BY <1>0, <1>a, <1>5 DEF SubmitForReview, Fail, Go, EpisodeSound, Beginning, Approved, Undoable, Undone, Completing
  <2> QED
    BY <2>1, <2>2, EpisodeFrame
<1>6. CASE SubmitForHitl(e)
  <2>1. CallOf(e)
    BY <1>0, <1>6 DEF SubmitForHitl, Enter, Go, CallOf
  <2>2. EpisodeSound(e)'
    BY <1>0, <1>a, <1>6 DEF SubmitForHitl, Enter, Go, EpisodeSound, Beginning, Approved, Undoable, Undone, Completing
  <2> QED
    BY <2>1, <2>2, EpisodeFrame
<1>7. CASE CompleteAfterHitl(e)
  <2>1. CallOf(e)
    BY <1>0, <1>7 DEF CompleteAfterHitl, Approve, Go, CallOf
  <2>2. EpisodeSound(e)'
    BY <1>0, <1>a, <1>7 DEF CompleteAfterHitl, Approve, Go, EpisodeSound, Beginning, Approved, Undoable, Undone, Completing
  <2> QED
    BY <2>1, <2>2, EpisodeFrame
<1>8. CASE ExpireInvalid(e)
  <2>1. CallOf(e)
    BY <1>0, <1>8 DEF ExpireInvalid, CallOf
  <2>2. EpisodeSound(e)'
    BY <1>0, <1>a, <1>8 DEF ExpireInvalid, EpisodeSound, Beginning, Approved, Undoable, Undone, Completing
  <2> QED
    BY <2>1, <2>2, EpisodeFrame
<1>9. CASE ValidateEpisode(e)
  <2>1. CallOf(e)
    BY <1>0, <1>9 DEF ValidateEpisode, Enter, Go, CallOf
  <2>2. EpisodeSound(e)'
    BY <1>0, <1>a, <1>9 DEF ValidateEpisode, Enter, Go, EpisodeSound, Beginning, Approved, Undoable, Undone, Completing
  <2> QED
    BY <2>1, <2>2, EpisodeFrame
<1>10. CASE ApproveMapping(e)
  <2>1. CallOf(e)
    BY <1>0, <1>10 DEF ApproveMapping, Fail, Go, CallOf
  <2>2. EpisodeSound(e)'
    BY <1>0, <1>a, <1>10 DEF ApproveMapping, Fail, Go, EpisodeSound, Beginning, Approved, Undoable, Undone, Completing
  <2> QED
    BY <2>1, <2>2, EpisodeFrame
<1>11. CASE SealEpisode(e)
  <2>1. CallOf(e)
    BY <1>0, <1>11 DEF SealEpisode, Go, CallOf
  <2>2. EpisodeSound(e)'
    BY <1>0, <1>a, <1>11 DEF SealEpisode, Go, EpisodeSound, Beginning, Approved, Undoable, Undone, Completing
  <2> QED
    BY <2>1, <2>2, EpisodeFrame
<1>12. CASE CacheInsert(e)
  <2>1. CallOf(e)
    BY <1>0, <1>12 DEF CacheInsert, Go, CallOf
  <2>2. EpisodeSound(e)'
    BY <1>0, <1>a, <1>12 DEF CacheInsert, Go, EpisodeSound, Beginning, Approved, Undoable, Undone, Completing
  <2> QED
    BY <2>1, <2>2, EpisodeFrame
<1>13. CASE Deploy(e)
  <2>1. CallOf(e)
    BY <1>0, <1>13 DEF Deploy, Enter, Push, Go, CallOf
  <2>2. EpisodeSound(e)'
    BY <1>0, <1>a, <1>13 DEF Deploy, Enter, Push, Go, EpisodeSound, Beginning, Approved, Undoable, Undone, Completing
  <2> QED
    BY <2>1, <2>2, EpisodeFrame
<1>14. CASE CompensateEpisode(e)
  <2>1. CallOf(e)
    BY <1>0, <1>14 DEF CompensateEpisode, Enter, CallOf
  <2>2. lmGraph'[e] = "none"
    <3>1. lmAt[e] # "push"
      BY <1>14 DEF CompensateEpisode, Known, Completing
    <3>2. lmGraph'[e] = IF "graph" \in lmUndo[e] THEN "none" ELSE lmGraph[e]
      BY <1>0, <1>14 DEF CompensateEpisode
    <3> QED
      BY <1>a, <3>1, <3>2 DEF EpisodeSound, Undoable
  <2>3. lmCache'[OriginOf[e]] = IF "cache" \in lmUndo[e] THEN Nothing ELSE lmCache[OriginOf[e]]
    BY <1>0, <1>14 DEF CompensateEpisode
  <2>4. /\ lmAt[e] # "deploy" => lmCache'[OriginOf[e]] # e
        /\ lmCache'[OriginOf[e]] = e => lmCache[OriginOf[e]] = e
    BY <1>0, <1>a, <2>3 DEF EpisodeSound, Undoable
  <2>5. /\ lmAt[e] \notin {"new", "insert", "push"}
        /\ UNCHANGED <<lmHitl, lmAt>>
    BY <1>14 DEF CompensateEpisode, Known, Completing
  <2>6. EpisodeSound(e)'
    BY <1>a, <2>2, <2>4, <2>5 DEF EpisodeSound, Beginning, Approved, Undoable, Undone
  <2> QED
    BY <2>1, <2>6, EpisodeFrame
<1>15. ASSUME NEW how \in {"rejected", "expired"}, CloseRequest(e, how) PROVE EpisodeInv'
  <2>1. CallOf(e)
    BY <1>0, <1>15 DEF CloseRequest, CallOf
  <2>2. EpisodeSound(e)'
    BY <1>0, <1>a, <1>15 DEF CloseRequest, EpisodeSound, Beginning, Approved, Undoable, Undone, Completing
  <2> QED
    BY <2>1, <2>2, EpisodeFrame
<1> QED
  BY <1>1, <1>2, <1>3, <1>4, <1>5, <1>6, <1>7, <1>8, <1>9, <1>10, <1>11, <1>12, <1>13, <1>14, <1>15

LEMMA EpisodeStepInv ==
  ASSUME "delete" \notin Troubles, EpisodeInv, [EpisodeNext]_lmVars
  PROVE  EpisodeInv'
<1>1. EpisodeTypeOK'
  BY EpisodeTypeStep DEF EpisodeInv
<1>2. CASE EpisodeNext
  BY <1>1, <1>2, EpisodeStepOf DEF EpisodeNext
<1>3. CASE UNCHANGED lmVars
  BY <1>1, <1>3 DEF lmVars, EpisodeInv, UnderItsKey, EpisodeSound, Beginning, Approved, Undoable, Undone
<1> QED
  BY <1>2, <1>3

(* What the cache serves was approved, and a compensated episode left       *)
(* nothing behind, whatever calls overlap and panic, for every number of    *)
(* episodes and every choice of their keys, as long as rows can be deleted. *)
THEOREM EpisodesStayTogether ==
  ASSUME "delete" \notin Troubles
  PROVE  EpisodeSpec => []EpisodesFitTogether
<1>1. EpisodeInv => EpisodesFitTogether
  <2> SUFFICES ASSUME EpisodeInv PROVE EpisodesFitTogether
    OBVIOUS
  <2>1. ServedIsApproved
    BY DEF EpisodeInv, EpisodeTypeOK, UnderItsKey, EpisodeSound, Approved, ServedIsApproved
  <2>2. RolledBack
    BY DEF EpisodeInv, EpisodeSound, Undone, RolledBack
  <2> QED
    BY <2>1, <2>2 DEF EpisodesFitTogether
<1>2. EpisodeInv /\ [EpisodeNext]_lmVars => EpisodeInv'
  BY EpisodeStepInv
<1> QED
  BY <1>1, <1>2, EpisodeInitInv, PTL DEF EpisodeSpec

-----------------------------------------------------------------------------
(* The run: a behaviour of MCPatterns is one of each component. *)

LEMMA RunsBreaker == MCSpec => Spec
<1>1. MCInit => Init
  BY DEF MCInit
<1>2. [MCNext]_mcVars => [Next]_vars
  BY DEF MCNext, mcVars, vars
<1> QED BY <1>1, <1>2, PTL DEF MCSpec, Spec

LEMMA RunsProducer == MCSpec => ProducerSpec
<1>1. MCInit => ProducerInit
  BY DEF MCInit
<1>2. [MCNext]_mcVars => [ProducerNext]_pdVars
  BY DEF MCNext, mcVars, pdVars
<1> QED BY <1>1, <1>2, PTL DEF MCSpec, ProducerSpec

LEMMA RunsAgent == MCSpec => AgentSpec
<1>1. MCInit => AgentInit
  BY DEF MCInit
<1>2. [MCNext]_mcVars => [AgentNext]_agVars
  BY DEF MCNext, mcVars, agVars
<1> QED BY <1>1, <1>2, PTL DEF MCSpec, AgentSpec

LEMMA RunsEpisode == MCSpec => EpisodeSpec
<1>1. MCInit => EpisodeInit
  BY DEF MCInit
<1>2. [MCNext]_mcVars => [EpisodeNext]_lmVars
  BY DEF MCNext, mcVars, lmVars
<1> QED BY <1>1, <1>2, PTL DEF MCSpec, EpisodeSpec

(* Every variable of the run has its type, for every value of the constants *)
(* of its components: the breaker of the nodes, the buffer, the bulkhead    *)
(* and the maps of the memory chip.                                         *)
THEOREM PatternsTypesCorrect == MCSpec => []TypesOK
BY RunsBreaker, BreakerTypeCorrect, RunsProducer, ProducerTypeCorrect, RunsAgent,
   AgentTypeCorrect, RunsEpisode, EpisodeTypeCorrect, PTL DEF TypesOK

=============================================================================
