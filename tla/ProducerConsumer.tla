-------------------------- MODULE ProducerConsumer --------------------------
(***************************************************************************)
(* ProducerConsumer (src/core/patterns/concurrency/producer_consumer.py):  *)
(* threads that call produce(), consumer threads, and one that calls       *)
(* start() and stop().  The buffer is a queue.Queue, whose operations are  *)
(* atomic; every other shared variable is read and written without a lock. *)
(* A consumer function returns or raises before stop() gives up waiting    *)
(* for its thread (30 s).                                                  *)
(***************************************************************************)
EXTENDS Integers, Sequences, FiniteSets

CONSTANTS
  Items,          \* what is produced; a thread of its own produces each
  Consumers,      \* the threads start() makes
  BufferSize,     \* maxsize of the buffer
  MaxStarts       \* bound on calls of start()

Sentinel == "None"

ASSUME ItemsAssumption == Sentinel \notin Items
ASSUME ConsumersAssumption == IsFiniteSet(Consumers)
ASSUME BufferAssumption == BufferSize \in Nat \ {0} /\ MaxStarts \in Nat

VARIABLES
  pdBuffer,       \* _buffer
  pdRunning,      \* _running
  pdStop,         \* _stop_event
  pdMain,         \* the thread that starts and stops
  pdSentinels,    \* sentinels that stop() has yet to push
  pdAt,           \* where each consumer is
  pdItem,         \* the item a consumer works on
  pdProducer,     \* where the producer of each item is
  pdAccepted,     \* history: items that were put before stop() was called
  pdConsumed,     \* history: items that consumer functions were called with
  pdStarts

pdVars == <<pdBuffer, pdRunning, pdStop, pdMain, pdSentinels, pdAt, pdItem, pdProducer,
            pdAccepted, pdConsumed, pdStarts>>

NoItem == "no item"

ProducerTypeOK ==
  /\ pdBuffer \in Seq(Items \cup {Sentinel}) /\ Len(pdBuffer) <= BufferSize
  /\ pdRunning \in BOOLEAN
  /\ pdStop \in BOOLEAN
  /\ pdMain \in {"idle", "pushing", "joining"}
  /\ pdSentinels \in 0..Cardinality(Consumers)
  /\ pdAt \in [Consumers -> {"none", "loop", "get", "work"}]
  /\ pdItem \in [Consumers -> Items \cup {Sentinel, NoItem}]
  /\ pdProducer \in [Items -> {"new", "put", "done"}]
  /\ pdAccepted \subseteq Items
  /\ pdConsumed \subseteq Items \cup {Sentinel}
  /\ pdStarts \in 0..MaxStarts

ProducerInit ==
  /\ pdBuffer = << >>
  /\ pdRunning = FALSE
  /\ pdStop = FALSE
  /\ pdMain = "idle"
  /\ pdSentinels = 0
  /\ pdAt = [c \in Consumers |-> "none"]
  /\ pdItem = [c \in Consumers |-> NoItem]
  /\ pdProducer = [i \in Items |-> "new"]
  /\ pdAccepted = {}
  /\ pdConsumed = {}
  /\ pdStarts = 0

-----------------------------------------------------------------------------
(* start() *)
Start ==
  /\ pdMain = "idle" /\ ~pdRunning
  /\ pdStarts < MaxStarts
  /\ pdStarts' = pdStarts + 1
  /\ pdRunning' = TRUE
  /\ pdStop' = FALSE
  /\ pdAt' = [c \in Consumers |-> "loop"]
  /\ UNCHANGED <<pdBuffer, pdMain, pdSentinels, pdItem, pdProducer, pdAccepted, pdConsumed>>

(* produce(), the test of _running. *)
Produce(i) ==
  /\ pdProducer[i] = "new"
  /\ pdRunning
  /\ pdProducer' = [pdProducer EXCEPT ![i] = "put"]
  /\ UNCHANGED <<pdBuffer, pdRunning, pdStop, pdMain, pdSentinels, pdAt, pdItem, pdAccepted,
                 pdConsumed, pdStarts>>

(* put(block=True): waits for room, whatever has become of the consumers. *)
Put(i) ==
  /\ pdProducer[i] = "put"
  /\ Len(pdBuffer) < BufferSize
  /\ pdBuffer' = Append(pdBuffer, i)
  /\ pdAccepted' = IF pdStop THEN pdAccepted ELSE pdAccepted \cup {i}
  /\ pdProducer' = [pdProducer EXCEPT ![i] = "done"]
  /\ UNCHANGED <<pdRunning, pdStop, pdMain, pdSentinels, pdAt, pdItem, pdConsumed, pdStarts>>

(* stop(), up to the first sentinel. *)
Stop ==
  /\ pdMain = "idle" /\ pdRunning
  /\ pdStop' = TRUE
  /\ pdMain' = "pushing"
  /\ pdSentinels' = Cardinality(Consumers)
  /\ UNCHANGED <<pdBuffer, pdRunning, pdAt, pdItem, pdProducer, pdAccepted, pdConsumed,
                 pdStarts>>

(* put_nowait(None); the first one that finds the buffer full is the last. *)
PushSentinel ==
  /\ pdMain = "pushing"
  /\ IF pdSentinels > 0 /\ Len(pdBuffer) < BufferSize
       THEN /\ pdBuffer' = Append(pdBuffer, Sentinel)
            /\ pdSentinels' = pdSentinels - 1
            /\ UNCHANGED pdMain
       ELSE /\ pdMain' = "joining"
            /\ pdSentinels' = 0
            /\ UNCHANGED pdBuffer
  /\ UNCHANGED <<pdRunning, pdStop, pdAt, pdItem, pdProducer, pdAccepted, pdConsumed, pdStarts>>

(* The joins, and the end of stop(). *)
Joined ==
  /\ pdMain = "joining"
  /\ \A c \in Consumers : pdAt[c] = "none"
  /\ pdMain' = "idle"
  /\ pdRunning' = FALSE
  /\ UNCHANGED <<pdBuffer, pdStop, pdSentinels, pdAt, pdItem, pdProducer, pdAccepted,
                 pdConsumed, pdStarts>>

-----------------------------------------------------------------------------
(* _consumer_loop *)

(* Fault: a consumer leaves as soon as stop() was called. *)
GoesOnUntilStop == ~pdStop

(* The test of the loop. *)
GoesOn == ~pdStop \/ pdBuffer # << >>

TestLoop(c) ==
  /\ pdAt[c] = "loop"
  /\ pdAt' = [pdAt EXCEPT ![c] = IF GoesOn THEN "get" ELSE "none"]
  /\ UNCHANGED <<pdBuffer, pdRunning, pdStop, pdMain, pdSentinels, pdItem, pdProducer,
                 pdAccepted, pdConsumed, pdStarts>>

(* get(timeout=0.5): Empty leads back to the test. *)
Get(c) ==
  /\ pdAt[c] = "get"
  /\ IF pdBuffer = << >>
       THEN /\ pdAt' = [pdAt EXCEPT ![c] = "loop"]
            /\ UNCHANGED <<pdBuffer, pdItem>>
       ELSE /\ pdAt' = [pdAt EXCEPT ![c] = "work"]
            /\ pdItem' = [pdItem EXCEPT ![c] = Head(pdBuffer)]
            /\ pdBuffer' = Tail(pdBuffer)
  /\ UNCHANGED <<pdRunning, pdStop, pdMain, pdSentinels, pdProducer, pdAccepted, pdConsumed,
                 pdStarts>>

(* A sentinel ends the loop, but only once stop() was called; the consumer  *)
(* function gets everything else. *)
Consume(c) ==
  /\ pdAt[c] = "work"
  /\ IF pdItem[c] = Sentinel /\ pdStop
       THEN /\ pdAt' = [pdAt EXCEPT ![c] = "none"]
            /\ UNCHANGED pdConsumed
       ELSE /\ pdAt' = [pdAt EXCEPT ![c] = "loop"]
            /\ pdConsumed' = pdConsumed \cup {pdItem[c]}
  /\ pdItem' = [pdItem EXCEPT ![c] = NoItem]
  /\ UNCHANGED <<pdBuffer, pdRunning, pdStop, pdMain, pdSentinels, pdProducer, pdAccepted,
                 pdStarts>>

ConsumerStep(c) == TestLoop(c) \/ Get(c) \/ Consume(c)

ProducerNext ==
  \/ Start \/ Stop \/ PushSentinel \/ Joined
  \/ \E i \in Items : Produce(i) \/ Put(i)
  \/ \E c \in Consumers : ConsumerStep(c)

ProducerSpec == ProducerInit /\ [][ProducerNext]_pdVars

-----------------------------------------------------------------------------
(* Properties *)

(* When stop() has returned, every item that was in the buffer when it was  *)
(* called has been consumed, however the sentinels, the items of producers  *)
(* that come late and the 0.5 s timeouts fall.                              *)
Drained == pdMain = "idle" /\ pdStop => pdAccepted \subseteq pdConsumed
=============================================================================
