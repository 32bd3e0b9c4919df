-------------------------- MODULE EventStoreProofs --------------------------
(***************************************************************************)
(* Proofs about the event store: whatever the number of fragments of an    *)
(* event, the size of the queue, the modulus and the order of arrival, and *)
(* for any number of runs and subruns.                                     *)
(***************************************************************************)
EXTENDS EventStoreUse, SequenceTheorems, FiniteSetTheorems, TLAPS

-----------------------------------------------------------------------------
(* The inductive invariant, by parts.                                      *)

\* events_ holds RawEvents with fragments, and no fragment is in two of them.
MapInv ==
  /\ \A k \in DOMAIN events : events[k].kind = "event"
  /\ \A j, k \in DOMAIN events : j # k => events[j].frags \cap events[k].frags = {}

\* The fragments of the store are those of its RawEvents, each in one of them.
Held == UNION {ev.frags : ev \in RawEvents}

HeldOnce ==
  /\ \A k \in DOMAIN events, i \in EnqueuedEvents : events[k].frags \cap Enqueued[i].frags = {}
  /\ \A i, j \in EnqueuedEvents : i # j => Enqueued[i].frags \cap Enqueued[j].frags = {}

Clients == {"idle", "running", "flushing", "flushed", "ended", "joining", "shutdown"}

LossInv ==
  /\ StoreTypeOK
  /\ client \in Clients /\ runs \in 0 .. MaxRun
  /\ accepted \subseteq Fragment /\ flushFailed \in BOOLEAN
  /\ MapInv /\ HeldOnce /\ accepted = Held

-----------------------------------------------------------------------------
(* Arithmetic of the keys.                                                 *)

LEMMA KeyType ==
  ASSUME NEW seq \in 1 .. MaxSeq, lastFlushedSeqID \in 0 .. MaxSeq
  PROVE  Key(seq) \in 0 .. 2 ^ Width - 1
  <1> DEFINE x == seq - (1 + lastFlushedSeqID)
             M == 2 ^ Width
  <1>1. M \in Nat \ {0} /\ SeqIDModulus \in Nat \ {0} /\ x \in Int
    BY EventStoreAssumption
  <1> HIDE DEF x, M
  <1>2. x % M \in Nat
    BY <1>1
  <1>3. ((x % M) \div SeqIDModulus) + 1 \in Int
    BY <1>1, <1>2
  <1>4. (((x % M) \div SeqIDModulus) + 1) % M \in 0 .. M - 1
    BY <1>1, <1>3
  <1>5. QED
    BY <1>4 DEF Key, x, M

-----------------------------------------------------------------------------
(* What was put on the queue.                                              *)

LEMMA EnqueuedType ==
  ASSUME StoreTypeOK
  PROVE  /\ Enqueued \in Seq(Item)
         /\ DOMAIN Enqueued = 1 .. Len(Enqueued) /\ Len(Enqueued) \in Nat
         /\ \A i \in DOMAIN Enqueued : Enqueued[i] \in Item
  <1>1. popped \in Seq(Item) /\ queue \in Seq(Item)
    BY DEF StoreTypeOK
  <1>2. Enqueued \in Seq(Item)
    BY <1>1, ConcatProperties DEF Enqueued
  <1>3. QED
    BY <1>2, LenProperties, ElementOfSeq

\* An item added at the end changes nothing before it.
LEMMA EnqueuedAppend ==
  ASSUME StoreTypeOK, NEW e \in Item, queue' = Append(queue, e), popped' = popped
  PROVE  /\ DOMAIN Enqueued' = DOMAIN Enqueued \cup {Len(Enqueued) + 1}
         /\ Len(Enqueued) + 1 \notin DOMAIN Enqueued
         /\ \A i \in DOMAIN Enqueued : Enqueued'[i] = Enqueued[i]
         /\ Enqueued'[Len(Enqueued) + 1] = e
  <1>1. popped \in Seq(Item) /\ queue \in Seq(Item) /\ Enqueued \in Seq(Item)
    BY EnqueuedType DEF StoreTypeOK
  <1>2. Enqueued' = popped \o (queue \o <<e>>)
    BY <1>1, AppendIsConcat DEF Enqueued
  <1>3. Enqueued' = Enqueued \o <<e>>
    BY <1>1, <1>2, ConcatAssociative DEF Enqueued
  <1>4. Enqueued' = Append(Enqueued, e)
    BY <1>1, <1>3, AppendIsConcat
  <1>5. /\ Append(Enqueued, e) \in Seq(Item)
        /\ Len(Append(Enqueued, e)) = Len(Enqueued) + 1
        /\ \A i \in 1 .. Len(Enqueued) : Append(Enqueued, e)[i] = Enqueued[i]
        /\ Append(Enqueued, e)[Len(Enqueued) + 1] = e
    BY <1>1, AppendProperties
  <1>6. DOMAIN Append(Enqueued, e) = 1 .. Len(Enqueued) + 1
    BY <1>5, LenProperties
  <1>7. DOMAIN Enqueued = 1 .. Len(Enqueued) /\ Len(Enqueued) \in Nat
    BY <1>1, LenProperties
  <1>8. QED
    BY <1>4, <1>5, <1>6, <1>7

\* The events among what was put on the queue, when one more item is.
LEMMA EnqueuedEventsAppend ==
  ASSUME StoreTypeOK, NEW e \in Item, queue' = Append(queue, e), popped' = popped
  PROVE  /\ \A i \in EnqueuedEvents : i \in EnqueuedEvents' /\ Enqueued'[i] = Enqueued[i]
         /\ \A i \in EnqueuedEvents' \ EnqueuedEvents : e.kind = "event" /\ Enqueued'[i] = e
         /\ \A i, j \in EnqueuedEvents' \ EnqueuedEvents : i = j
         /\ e.kind = "event" => \E i \in EnqueuedEvents' : Enqueued'[i] = e
  BY EnqueuedAppend DEF EnqueuedEvents

\* What the reader takes was on the queue before.
LEMMA EnqueuedDequeue ==
  ASSUME StoreTypeOK, Dequeue
  PROVE  Enqueued' = Enqueued
  <1>1. popped \in Seq(Item) /\ queue \in Seq(Item) /\ queue # <<>>
    BY DEF StoreTypeOK, Dequeue
  <1>2. Head(queue) \in Item /\ Tail(queue) \in Seq(Item)
    BY <1>1, HeadTailProperties
  <1>3. queue = <<Head(queue)>> \o Tail(queue)
    <2> DEFINE s == <<Head(queue)>> \o Tail(queue)
    <2>1. <<Head(queue)>> \in Seq(Item) /\ Len(<<Head(queue)>>) = 1 /\ <<Head(queue)>>[1] = Head(queue)
      BY <1>2
    <2>2. /\ s \in Seq(Item) /\ Len(s) = 1 + Len(Tail(queue))
          /\ \A i \in 1 .. 1 + Len(Tail(queue)) : s[i] = IF i <= 1 THEN Head(queue) ELSE Tail(queue)[i - 1]
      BY <1>2, <2>1, ConcatProperties
    <2>3. /\ Len(Tail(queue)) = Len(queue) - 1 /\ Len(queue) \in Nat
          /\ \A i \in 1 .. Len(Tail(queue)) : Tail(queue)[i] = queue[i + 1]
          /\ Head(queue) = queue[1]
      BY <1>1, HeadTailProperties, LenProperties
    <2>4. Len(s) = Len(queue) /\ \A i \in 1 .. Len(queue) : s[i] = queue[i]
      BY <2>2, <2>3
    <2> HIDE DEF s
    <2>5. s = queue
      BY <1>1, <2>2, <2>4, SeqEqual
    <2>6. QED
      BY <2>5 DEF s
  <1> DEFINE h == <<Head(queue)>>
             t == Tail(queue)
  <1>4. h \in Seq(Item) /\ t \in Seq(Item) /\ queue = h \o t
    BY <1>2, <1>3
  <1>5. Enqueued' = (popped \o h) \o t
    BY <1>1, <1>2, AppendIsConcat DEF Enqueued, Dequeue
  <1> HIDE DEF h, t
  <1>6. (popped \o h) \o t = popped \o (h \o t)
    BY <1>1, <1>4, ConcatAssociative
  <1>7. QED
    BY <1>4, <1>5, <1>6 DEF Enqueued

\* The RawEvents are those put on the queue and those in the map.
LEMMA RawEventsAre ==
  ASSUME NEW ev
  PROVE  ev \in RawEvents <=> \/ \E i \in EnqueuedEvents : ev = Enqueued[i]
                              \/ \E k \in DOMAIN events : ev = events[k]
  BY DEF RawEvents, Range
-----------------------------------------------------------------------------
(* The operations of the store.                                            *)

LEMMA EventWithIs ==
  ASSUME StoreTypeOK, MapInv, NEW f \in Fragment
  PROVE  /\ EventWith(f) \in Item /\ EventWith(f).kind = "event"
         /\ Key(f.seq) \in DOMAIN events =>
              /\ EventWith(f).frags = events[Key(f.seq)].frags \cup {f}
              /\ EventWith(f).run = events[Key(f.seq)].run
              /\ EventWith(f).subrun = events[Key(f.seq)].subrun
         /\ Key(f.seq) \notin DOMAIN events =>
              EventWith(f).frags = {f} /\ EventWith(f).run = run_id /\ EventWith(f).subrun = subrun_id
  <1> DEFINE k == Key(f.seq)
             found == IF k \in DOMAIN events THEN events[k] ELSE RawEvent(f.seq)
  <1>1. f.seq \in Nat /\ run_id \in Nat /\ subrun_id \in Nat
    BY EventStoreAssumption DEF StoreTypeOK, Fragment
  <1>2. RawEvent(f.seq) \in Item /\ RawEvent(f.seq).kind = "event"
    BY <1>1 DEF RawEvent, Item
  <1>3. k \in DOMAIN events => events[k] \in Item /\ events[k].kind = "event"
    BY DEF StoreTypeOK, MapInv
  <1>4. found \in Item /\ found.kind = "event"
    BY <1>2, <1>3
  <1>5. EventWith(f) = [found EXCEPT !.frags = @ \cup {f}]
    BY DEF EventWith
  <1>6. RawEvent(f.seq).run = run_id /\ RawEvent(f.seq).subrun = subrun_id /\ RawEvent(f.seq).frags = {}
    BY DEF RawEvent
  <1> HIDE DEF found, k
  <1>7. /\ EventWith(f) \in Item /\ EventWith(f).kind = "event"
        /\ EventWith(f).frags = found.frags \cup {f}
        /\ EventWith(f).run = found.run /\ EventWith(f).subrun = found.subrun
    BY <1>4, <1>5 DEF Item
  <1>8. QED
    BY <1>6, <1>7 DEF found, k

LEMMA InsertIs ==
  ASSUME NEW f \in Fragment, InsertAccepted(f)
  PROVE  /\ UNCHANGED <<run_id, subrun_id, lastFlushedSeqID, popped>>
         /\ ~Full
         /\ highestSeqIDSeen' \in {f.seq, highestSeqIDSeen}
         /\ \/ /\ Completes(f)
               /\ DOMAIN events' = DOMAIN events \ {Key(f.seq)}
               /\ \A j \in DOMAIN events' : events'[j] = events[j]
               /\ queue' = Append(queue, EventWith(f))
            \/ /\ DOMAIN events' = DOMAIN events \cup {Key(f.seq)}
               /\ events'[Key(f.seq)] = EventWith(f)
               /\ \A j \in DOMAIN events' \ {Key(f.seq)} : events'[j] = events[j]
               /\ queue' = queue
  BY DEF InsertAccepted, Insert, Restrict

LEMMA FlushEventIs ==
  ASSUME FlushEvent
  PROVE  \E k \in DOMAIN events :
           /\ DOMAIN events' = DOMAIN events \ {k}
           /\ \A j \in DOMAIN events' : events'[j] = events[j]
           /\ queue' = Append(queue, events[k])
           /\ ~Full
           /\ UNCHANGED <<run_id, subrun_id, lastFlushedSeqID, highestSeqIDSeen, popped>>
  BY DEF FlushEvent, Restrict

\* The queue stays within its size.
LEMMA QueueType ==
  ASSUME StoreTypeOK, ~Full, NEW e \in Item, queue' = Append(queue, e)
  PROVE  queue' \in Seq(Item) /\ Len(queue') <= QueueSize
  <1>1. queue \in Seq(Item) /\ Len(queue) \in Nat /\ ~(Len(queue) >= QueueSize)
    BY LenProperties DEF StoreTypeOK, Full
  <1>2. Append(queue, e) \in Seq(Item) /\ Len(Append(queue, e)) = Len(queue) + 1
    BY <1>1, AppendProperties
  <1>3. QED
    BY <1>1, <1>2, EventStoreAssumption

LEMMA MarkerType ==
  ASSUME StoreTypeOK, NEW kind \in {"endSubrun", "endRun", "endOfData", "init"}
  PROVE  Marker(kind) \in Item /\ Marker(kind).kind = kind
  BY EventStoreAssumption DEF Marker, Item, StoreTypeOK

\* Every operation keeps the types of the store.
LEMMA InsertType ==
  ASSUME StoreTypeOK, MapInv, NEW f \in Fragment, InsertAccepted(f)
  PROVE  StoreTypeOK'
  <1>1. EventWith(f) \in Item
    BY EventWithIs
  <1>2. Key(f.seq) \in 0 .. 2 ^ Width - 1 /\ f.seq \in 0 .. MaxSeq
    BY KeyType, EventStoreAssumption DEF StoreTypeOK, Fragment
  <1>3. queue' \in Seq(Item) /\ Len(queue') <= QueueSize
    BY <1>1, InsertIs, QueueType DEF StoreTypeOK
  <1>4. DOMAIN events' \subseteq 0 .. 2 ^ Width - 1 /\ \A j \in DOMAIN events' : events'[j] \in Item
    <2>1. DOMAIN events' \subseteq DOMAIN events \cup {Key(f.seq)}
      BY InsertIs
    <2>2. \A j \in DOMAIN events' : events'[j] = EventWith(f) \/ (j \in DOMAIN events /\ events'[j] = events[j])
      BY InsertIs
    <2>3. QED
      BY <1>1, <1>2, <2>1, <2>2 DEF StoreTypeOK
  <1>5. QED
    BY <1>2, <1>3, <1>4, InsertIs DEF StoreTypeOK

LEMMA FlushEventType ==
  ASSUME StoreTypeOK, FlushEvent
  PROVE  StoreTypeOK'
  <1>1. PICK k \in DOMAIN events :
           /\ DOMAIN events' = DOMAIN events \ {k}
           /\ \A j \in DOMAIN events' : events'[j] = events[j]
           /\ queue' = Append(queue, events[k])
           /\ ~Full
           /\ UNCHANGED <<run_id, subrun_id, lastFlushedSeqID, highestSeqIDSeen, popped>>
    BY FlushEventIs
  <1>2. queue' \in Seq(Item) /\ Len(queue') <= QueueSize
    BY <1>1, QueueType DEF StoreTypeOK
  <1>3. DOMAIN events' \subseteq 0 .. 2 ^ Width - 1 /\ \A j \in DOMAIN events' : events'[j] \in Item
    BY <1>1 DEF StoreTypeOK
  <1>4. QED
    BY <1>1, <1>2, <1>3 DEF StoreTypeOK

LEMMA EnqueueType ==
  ASSUME StoreTypeOK, NEW kind \in {"endSubrun", "endRun", "endOfData", "init"}, Enqueue(kind)
  PROVE  StoreTypeOK'
  <1>1. queue' \in Seq(Item) /\ Len(queue') <= QueueSize
    BY MarkerType, QueueType DEF Enqueue
  <1>2. UNCHANGED <<run_id, subrun_id, events, lastFlushedSeqID, highestSeqIDSeen, popped>>
    BY DEF Enqueue
  <1>3. QED
    BY <1>1, <1>2 DEF StoreTypeOK

LEMMA DequeueType ==
  ASSUME StoreTypeOK, Dequeue
  PROVE  StoreTypeOK'
  <1>1. queue \in Seq(Item) /\ queue # <<>> /\ popped \in Seq(Item)
    BY DEF StoreTypeOK, Dequeue
  <1>2. /\ Head(queue) \in Item /\ Tail(queue) \in Seq(Item) /\ Len(Tail(queue)) = Len(queue) - 1
        /\ Len(queue) \in Nat
    BY <1>1, HeadTailProperties, LenProperties
  <1>3. Append(popped, Head(queue)) \in Seq(Item)
    BY <1>1, <1>2, AppendProperties
  <1>4. queue' \in Seq(Item) /\ Len(queue') <= QueueSize /\ popped' \in Seq(Item)
    BY <1>2, <1>3, EventStoreAssumption DEF Dequeue, StoreTypeOK
  <1>5. UNCHANGED <<run_id, subrun_id, events, lastFlushedSeqID, highestSeqIDSeen>>
    BY DEF Dequeue
  <1>6. QED
    BY <1>4, <1>5 DEF StoreTypeOK

LEMMA StoreStarts ==
  ASSUME StoreInit
  PROVE  StoreTypeOK
  BY EventStoreAssumption DEF StoreInit, StoreTypeOK
-----------------------------------------------------------------------------
(* Nothing is lost.                                                        *)

LEMMA HeldIs ==
  ASSUME NEW g
  PROVE  g \in Held <=> \/ \E i \in EnqueuedEvents : g \in Enqueued[i].frags
                        \/ \E k \in DOMAIN events : g \in events[k].frags
  BY RawEventsAre DEF Held

\* A fragment that the store does not hold is added to what it holds.
LEMMA InsertHeld ==
  ASSUME StoreTypeOK, MapInv, HeldOnce, NEW f \in Fragment, f \notin Held, InsertAccepted(f)
  PROVE  MapInv' /\ HeldOnce' /\ Held' = Held \cup {f}
  <1> DEFINE k == Key(f.seq)
             e == EventWith(f)
  <1>1. /\ e \in Item /\ e.kind = "event" /\ f \in e.frags
        /\ \A g \in e.frags \ {f} : k \in DOMAIN events /\ g \in events[k].frags
        /\ k \in DOMAIN events => events[k].frags \subseteq e.frags
    BY EventWithIs
  <1>2. /\ \A i \in EnqueuedEvents : f \notin Enqueued[i].frags
        /\ \A j \in DOMAIN events : f \notin events[j].frags
    BY HeldIs
  <1>3. \A j \in DOMAIN events \ {k} : events[j].frags \cap e.frags = {}
    BY <1>1, <1>2 DEF MapInv
  <1>4. \A i \in EnqueuedEvents : Enqueued[i].frags \cap e.frags = {}
    BY <1>1, <1>2 DEF HeldOnce
  <1>5. CASE /\ DOMAIN events' = DOMAIN events \ {k}
             /\ \A j \in DOMAIN events' : events'[j] = events[j]
             /\ queue' = Append(queue, e) /\ popped' = popped
    <2>1. /\ \A i \in EnqueuedEvents : i \in EnqueuedEvents' /\ Enqueued'[i] = Enqueued[i]
          /\ \A i \in EnqueuedEvents' \ EnqueuedEvents : Enqueued'[i] = e
          /\ \A i, j \in EnqueuedEvents' \ EnqueuedEvents : i = j
          /\ \E i \in EnqueuedEvents' : Enqueued'[i] = e
      BY <1>1, <1>5, EnqueuedEventsAppend
    <2>2. MapInv'
      BY <1>5 DEF MapInv
    <2>3. HeldOnce'
      <3>1. ASSUME NEW j \in DOMAIN events', NEW i \in EnqueuedEvents'
            PROVE  events'[j].frags \cap Enqueued'[i].frags = {}
        BY <1>3, <1>5, <2>1, <3>1 DEF HeldOnce
      <3>2. ASSUME NEW i \in EnqueuedEvents', NEW j \in EnqueuedEvents', i # j
            PROVE  Enqueued'[i].frags \cap Enqueued'[j].frags = {}
        BY <1>4, <2>1, <3>2 DEF HeldOnce
      <3>3. QED
        BY <3>1, <3>2 DEF HeldOnce
    <2>4. ASSUME NEW g
          PROVE  (\/ \E i \in EnqueuedEvents' : g \in Enqueued'[i].frags
                  \/ \E j \in DOMAIN events' : g \in events'[j].frags) <=> g \in Held \cup {f}
      BY <1>1, <1>5, <2>1, HeldIs
    <2>5. ASSUME NEW g
          PROVE  g \in Held' <=> \/ \E i \in EnqueuedEvents' : g \in Enqueued'[i].frags
                                 \/ \E j \in DOMAIN events' : g \in events'[j].frags
      BY DEF Held, RawEvents, Range
    <2>6. Held' = Held \cup {f}
      BY <2>4, <2>5
    <2>7. QED
      BY <2>2, <2>3, <2>6
  <1>6. CASE /\ DOMAIN events' = DOMAIN events \cup {k}
             /\ events'[k] = e
             /\ \A j \in DOMAIN events' \ {k} : events'[j] = events[j]
             /\ queue' = queue /\ popped' = popped
    <2>1. Enqueued' = Enqueued /\ EnqueuedEvents' = EnqueuedEvents
      BY <1>6 DEF Enqueued, EnqueuedEvents
    <2>2. MapInv'
      BY <1>1, <1>3, <1>6 DEF MapInv
    <2>3. HeldOnce'
      <3>1. ASSUME NEW j \in DOMAIN events', NEW i \in EnqueuedEvents'
            PROVE  events'[j].frags \cap Enqueued'[i].frags = {}
        BY <1>4, <1>6, <2>1 DEF HeldOnce
      <3>2. ASSUME NEW i \in EnqueuedEvents', NEW j \in EnqueuedEvents', i # j
            PROVE  Enqueued'[i].frags \cap Enqueued'[j].frags = {}
        BY <2>1, <3>2 DEF HeldOnce
      <3>3. QED
        BY <3>1, <3>2 DEF HeldOnce
    <2>4. ASSUME NEW g
          PROVE  (\/ \E i \in EnqueuedEvents' : g \in Enqueued'[i].frags
                  \/ \E j \in DOMAIN events' : g \in events'[j].frags) <=> g \in Held \cup {f}
      BY <1>1, <1>6, <2>1, HeldIs
    <2>5. ASSUME NEW g
          PROVE  g \in Held' <=> \/ \E i \in EnqueuedEvents' : g \in Enqueued'[i].frags
                                 \/ \E j \in DOMAIN events' : g \in events'[j].frags
      BY DEF Held, RawEvents, Range
    <2>6. Held' = Held \cup {f}
      BY <2>4, <2>5
    <2>7. QED
      BY <2>2, <2>3, <2>6
  <1>7. QED
    BY <1>5, <1>6, InsertIs

\* An event that is flushed moves to the queue.
LEMMA FlushEventHeld ==
  ASSUME StoreTypeOK, MapInv, HeldOnce, FlushEvent
  PROVE  MapInv' /\ HeldOnce' /\ Held' = Held /\ RawEvents' = RawEvents
  <1>1. PICK k \in DOMAIN events :
           /\ DOMAIN events' = DOMAIN events \ {k}
           /\ \A j \in DOMAIN events' : events'[j] = events[j]
           /\ queue' = Append(queue, events[k])
           /\ popped' = popped
    BY FlushEventIs
  <1>2. events[k] \in Item /\ events[k].kind = "event"
    BY DEF StoreTypeOK, MapInv
  <1>3. /\ \A i \in EnqueuedEvents : i \in EnqueuedEvents' /\ Enqueued'[i] = Enqueued[i]
        /\ \A i \in EnqueuedEvents' \ EnqueuedEvents : Enqueued'[i] = events[k]
        /\ \A i, j \in EnqueuedEvents' \ EnqueuedEvents : i = j
        /\ \E i \in EnqueuedEvents' : Enqueued'[i] = events[k]
    BY <1>1, <1>2, EnqueuedEventsAppend
  <1>4. MapInv'
    BY <1>1 DEF MapInv
  <1>5. HeldOnce'
    <2>1. ASSUME NEW j \in DOMAIN events', NEW i \in EnqueuedEvents'
          PROVE  events'[j].frags \cap Enqueued'[i].frags = {}
      BY <1>1, <1>3 DEF HeldOnce, MapInv
    <2>2. ASSUME NEW i \in EnqueuedEvents', NEW j \in EnqueuedEvents', i # j
          PROVE  Enqueued'[i].frags \cap Enqueued'[j].frags = {}
      BY <1>1, <1>3, <2>2 DEF HeldOnce
    <2>3. QED
      BY <2>1, <2>2 DEF HeldOnce
  <1>6. ASSUME NEW ev
        PROVE  ev \in RawEvents' <=> ev \in RawEvents
    <2>1. ev \in RawEvents' <=> \/ \E i \in EnqueuedEvents' : ev = Enqueued'[i]
                                \/ \E j \in DOMAIN events' : ev = events'[j]
      BY DEF RawEvents, Range
    <2>2. QED
      BY <1>1, <1>3, <2>1, RawEventsAre
  <1>7. RawEvents' = RawEvents
    BY <1>6
  <1>8. QED
    BY <1>4, <1>5, <1>7 DEF Held

\* Markers, and what the reader takes, leave the events where they are.
LEMMA EnqueueHeld ==
  ASSUME StoreTypeOK, MapInv, HeldOnce,
         NEW kind \in {"endSubrun", "endRun", "endOfData", "init"}, Enqueue(kind)
  PROVE  /\ MapInv' /\ HeldOnce' /\ Held' = Held /\ RawEvents' = RawEvents
         /\ EnqueuedEvents' = EnqueuedEvents /\ \A i \in EnqueuedEvents : Enqueued'[i] = Enqueued[i]
  <1>1. Marker(kind) \in Item /\ Marker(kind).kind # "event"
    BY MarkerType
  <1>2. queue' = Append(queue, Marker(kind)) /\ popped' = popped /\ events' = events
    BY DEF Enqueue
  <1>3. EnqueuedEvents' = EnqueuedEvents /\ \A i \in EnqueuedEvents : Enqueued'[i] = Enqueued[i]
    BY <1>1, <1>2, EnqueuedEventsAppend
  <1>4. RawEvents' = RawEvents
    BY <1>2, <1>3 DEF RawEvents
  <1>5. MapInv' /\ HeldOnce'
    BY <1>2, <1>3 DEF MapInv, HeldOnce
  <1>6. QED
    BY <1>3, <1>4, <1>5 DEF Held

LEMMA DequeueHeld ==
  ASSUME StoreTypeOK, MapInv, HeldOnce, Dequeue
  PROVE  /\ MapInv' /\ HeldOnce' /\ Held' = Held /\ RawEvents' = RawEvents
         /\ EnqueuedEvents' = EnqueuedEvents /\ Enqueued' = Enqueued
  <1>1. Enqueued' = Enqueued /\ events' = events
    BY EnqueuedDequeue DEF Dequeue
  <1>2. EnqueuedEvents' = EnqueuedEvents
    BY <1>1 DEF EnqueuedEvents
  <1>3. RawEvents' = RawEvents
    BY <1>1, <1>2 DEF RawEvents
  <1>4. QED
    BY <1>1, <1>2, <1>3 DEF MapInv, HeldOnce, Held

LEMMA UnchangedHeld ==
  ASSUME UNCHANGED <<events, queue, popped>>
  PROVE  /\ RawEvents' = RawEvents /\ Held' = Held
         /\ EnqueuedEvents' = EnqueuedEvents /\ Enqueued' = Enqueued
         /\ MapInv' = MapInv /\ HeldOnce' = HeldOnce
  <1>1. Enqueued' = Enqueued /\ events' = events
    BY DEF Enqueued
  <1>2. EnqueuedEvents' = EnqueuedEvents
    BY <1>1 DEF EnqueuedEvents
  <1>3. RawEvents' = RawEvents
    BY <1>1, <1>2 DEF RawEvents
  <1>4. QED
    BY <1>1, <1>2, <1>3 DEF MapInv, HeldOnce, Held
LEMMA LossStart == Init => LossInv
  <1> SUFFICES ASSUME Init PROVE LossInv
    OBVIOUS
  <1>1. StoreTypeOK
    BY StoreStarts DEF Init
  <1>2. DOMAIN events = {} /\ EnqueuedEvents = {}
    BY DEF Init, StoreInit, EnqueuedEvents, Enqueued
  <1>3. Held = {}
    BY <1>2, HeldIs
  <1>4. MapInv /\ HeldOnce
    BY <1>2 DEF MapInv, HeldOnce
  <1>5. client \in Clients /\ runs \in 0 .. MaxRun /\ flushFailed \in BOOLEAN
    <2>1. client = "idle" /\ runs = 0 /\ flushFailed = FALSE
      BY DEF Init
    <2>2. client \in Clients
      BY <2>1 DEF Clients
    <2>3. runs \in 0 .. MaxRun
      BY <2>1, EventStoreAssumption
    <2>4. flushFailed \in BOOLEAN
      BY <2>1
    <2>5. QED
      BY <2>2, <2>3, <2>4
  <1>6. accepted \subseteq Fragment /\ accepted = Held
    BY <1>3 DEF Init
  <1>7. QED
    BY <1>1, <1>4, <1>5, <1>6 DEF LossInv

\* The caller goes on, the store does not.
LEMMA LossMove ==
  ASSUME LossInv, UNCHANGED <<storeVars, accepted>>, client' \in Clients, runs' \in 0 .. MaxRun,
         flushFailed' \in BOOLEAN
  PROVE  LossInv'
  <1>1. UNCHANGED <<run_id, subrun_id, events, lastFlushedSeqID, highestSeqIDSeen, queue, popped>>
    BY DEF storeVars
  <1>2. StoreTypeOK /\ StoreTypeOK'
    <2>1. StoreTypeOK
      BY DEF LossInv
    <2>2. QED
      BY <1>1, <2>1 DEF StoreTypeOK
  <1>3. QED
    BY <1>1, <1>2, UnchangedHeld DEF LossInv

\* The numbers of the run, the subrun and the sequence IDs change, the events do not.
LEMMA LossRenumber ==
  ASSUME LossInv, UNCHANGED <<events, queue, popped, accepted>>,
         run_id' \in 1 .. MaxRun, subrun_id' \in Nat,
         lastFlushedSeqID' \in 0 .. MaxSeq, highestSeqIDSeen' \in 0 .. MaxSeq,
         client' \in Clients, runs' \in 0 .. MaxRun, flushFailed' \in BOOLEAN
  PROVE  LossInv'
  <1>1. StoreTypeOK'
    BY DEF LossInv, StoreTypeOK
  <1>2. QED
    BY <1>1, UnchangedHeld DEF LossInv

LEMMA LossEnqueue ==
  ASSUME LossInv, NEW kind \in {"endSubrun", "endRun", "endOfData", "init"}, Enqueue(kind),
         UNCHANGED <<accepted, runs>>, client' \in Clients, flushFailed' \in BOOLEAN
  PROVE  LossInv'
  BY EnqueueType, EnqueueHeld DEF LossInv

LEMMA LossDequeue ==
  ASSUME LossInv, Dequeue, UNCHANGED useVars
  PROVE  LossInv'
  BY DequeueType, DequeueHeld DEF LossInv, useVars

LEMMA LossInsert ==
  ASSUME LossInv, NEW f \in Fragment, InsertFragment(f)
  PROVE  LossInv'
  <1>1. InsertAccepted(f) /\ f \notin accepted /\ accepted' = accepted \cup {f}
        /\ UNCHANGED <<client, runs, flushFailed>>
    BY DEF InsertFragment
  <1>2. QED
    BY <1>1, InsertType, InsertHeld DEF LossInv

LEMMA LossFlush ==
  ASSUME LossInv, FlushOne
  PROVE  LossInv'
  <1>1. FlushEvent /\ UNCHANGED <<client, runs, accepted, flushFailed>>
    BY DEF FlushOne, useVars
  <1>2. QED
    BY <1>1, FlushEventType, FlushEventHeld DEF LossInv

LEMMA LossStep == LossInv /\ [Next]_vars => LossInv'
  <1> SUFFICES ASSUME LossInv, [Next]_vars PROVE LossInv'
    OBVIOUS
  <1>0. /\ client \in Clients /\ runs \in 0 .. MaxRun /\ flushFailed \in BOOLEAN
        /\ run_id \in 1 .. MaxRun /\ subrun_id \in Nat
        /\ lastFlushedSeqID \in 0 .. MaxSeq /\ highestSeqIDSeen \in 0 .. MaxSeq
    BY DEF LossInv, StoreTypeOK
  <1>1. CASE StartRun
    BY <1>0, <1>1, LossRenumber, EventStoreAssumption DEF StartRun, startRun, Goto, Clients
  <1>2. CASE BeginFlush
    BY <1>0, <1>2, LossMove DEF BeginFlush, Goto, Clients
  <1>3. CASE FlushOne
    BY <1>3, LossFlush
  <1>4. CASE EndFlush
    BY <1>0, <1>4, LossRenumber DEF EndFlush, FlushReturn, Goto, Clients
  <1>5. CASE EndSubrun
    <2>1. UNCHANGED <<accepted, runs, flushFailed>> /\ client' \in Clients
      BY <1>5 DEF EndSubrun, Goto, Clients
    <2>2. Enqueue("endSubrun") \/ UNCHANGED storeVars
      BY <1>5 DEF EndSubrun, EnqueueOrGiveUp
    <2>3. QED
      BY <1>0, <2>1, <2>2, LossMove, LossEnqueue
  <1>6. CASE StartSubrun
    BY <1>0, <1>6, LossRenumber DEF StartSubrun, startSubrun, Goto, Clients
  <1>7. CASE EndRun
    <2>1. UNCHANGED <<accepted, runs, flushFailed>> /\ client' \in Clients
      BY <1>7 DEF EndRun, Goto, Clients
    <2>2. Enqueue("endRun") \/ UNCHANGED storeVars
      BY <1>7 DEF EndRun, EnqueueOrGiveUp
    <2>3. QED
      BY <1>0, <2>1, <2>2, LossMove, LossEnqueue
  <1>8. CASE EndOfData
    BY <1>0, <1>8, LossEnqueue DEF EndOfData, Goto, Clients
  <1>9. CASE JoinReader
    BY <1>0, <1>9, LossMove DEF JoinReader, Goto, Clients
  <1>10. ASSUME NEW f \in Fragment, InsertFragment(f) PROVE LossInv'
    BY <1>10, LossInsert
  <1>11. CASE Reader
    BY <1>11, LossDequeue DEF Reader
  <1>12. CASE UNCHANGED vars
    BY <1>0, <1>12, LossMove DEF vars, useVars
  <1>13. QED
    BY <1>1, <1>2, <1>3, <1>4, <1>5, <1>6, <1>7, <1>8, <1>9, <1>10, <1>11, <1>12
       DEF Next, Caller, Terminated

\* However many fragments and runs, and however the reader keeps up, a fragment that the
\* rejecting insert accepted is in exactly one RawEvent, of the store, the queue or the reader.
THEOREM StoreLosesNothing == Spec => [](TypeOK /\ NothingLost)
  <1>1. LossInv => TypeOK /\ NothingLost
    BY DEF LossInv, TypeOK, Clients, NothingLost, HeldOnce, Held
  <1>2. QED
    BY <1>1, LossStart, LossStep, PTL DEF Spec
-----------------------------------------------------------------------------
(* Fragments with the same key.                                            *)

\* The sequence IDs from the last flush to seq, in unsigned arithmetic.
Distance(seq) == (seq - (1 + lastFlushedSeqID)) % 2 ^ Width

LEMMA ModWindow ==
  ASSUME NEW M \in Nat \ {0}, NEW x \in Int, -M <= x, x < M
  PROVE  x % M = IF x >= 0 THEN x ELSE x + M
  OBVIOUS

LEMMA DivBound ==
  ASSUME NEW a \in Nat, NEW m \in Nat \ {0}
  PROVE  a \div m \in Nat /\ a \div m <= a
  OBVIOUS

LEMMA DivSame ==
  ASSUME NEW a \in Nat, NEW b \in Nat, NEW m \in Nat \ {0}, a \div m = b \div m
  PROVE  a - b < m
  OBVIOUS

LEMMA DivMod ==
  ASSUME NEW a \in Nat, NEW b \in Nat, NEW m \in Nat \ {0}, a \div m = b \div m, a % m = b % m
  PROVE  a = b
  OBVIOUS

LEMMA WrapSame ==
  ASSUME NEW M \in Nat \ {0}, NEW p \in 0 .. M - 1, NEW q \in 0 .. M - 1, (p + 1) % M = (q + 1) % M
  PROVE  p = q
  OBVIOUS

\* A pair of numbers as one.
LEMMA PairBound ==
  ASSUME NEW m \in Nat, NEW n \in Nat, NEW r \in 0 .. m - 1, NEW a \in 1 .. n
  PROVE  r * n + a \in 1 .. m * n
  <1>1. r * n \in Nat /\ m * n \in Nat
    OBVIOUS
  <1>2. (m - 1 - r) * n >= 0
    OBVIOUS
  <1>3. (m - 1 - r) * n = m * n - n - r * n
    OBVIOUS
  <1>4. QED
    BY <1>1, <1>2, <1>3

LEMMA PairInjective ==
  ASSUME NEW n \in Nat, NEW r \in Nat, NEW s \in Nat, NEW a \in 1 .. n, NEW b \in 1 .. n,
         r * n + a = s * n + b
  PROVE  r = s /\ a = b
  <1>1. ASSUME NEW x \in Nat, NEW y \in Nat, NEW c \in 1 .. n, NEW d \in 1 .. n, x < y
        PROVE  x * n + c < y * n + d
    <2>1. (y - x - 1) * n >= 0
      BY <1>1
    <2>2. (y - x - 1) * n = y * n - x * n - n
      OBVIOUS
    <2>3. QED
      BY <2>1, <2>2
  <1>2. ~(r < s) /\ ~(s < r)
    BY <1>1
  <1>3. QED
    BY <1>2

LEMMA DistanceIs ==
  ASSUME NEW seq \in 1 .. MaxSeq, lastFlushedSeqID \in 0 .. MaxSeq
  PROVE  /\ Distance(seq) \in 0 .. 2 ^ Width - 1
         /\ Distance(seq) = IF seq > lastFlushedSeqID THEN seq - (1 + lastFlushedSeqID)
                            ELSE seq - (1 + lastFlushedSeqID) + 2 ^ Width
  <1> DEFINE M == 2 ^ Width
             x == seq - (1 + lastFlushedSeqID)
  <1>1. M \in Nat \ {0} /\ x \in Int /\ -M <= x /\ x < M
    BY EventStoreAssumption
  <1> HIDE DEF M
  <1>2. x % M = IF x >= 0 THEN x ELSE x + M
    BY <1>1, ModWindow
  <1>3. Distance(seq) = x % M
    BY DEF Distance, M
  <1>4. Distance(seq) \in 0 .. M - 1
    BY <1>1, <1>2, <1>3
  <1>5. QED
    BY <1>2, <1>3, <1>4 DEF M

\* Sequence IDs with the same key are in the same group: the ones that wrap around
\* are too far from those that do not.
LEMMA KeySame ==
  ASSUME NEW s \in 1 .. MaxSeq, NEW t \in 1 .. MaxSeq, lastFlushedSeqID \in 0 .. MaxSeq, Key(s) = Key(t)
  PROVE  /\ Distance(s) \div SeqIDModulus = Distance(t) \div SeqIDModulus
         /\ s - t < SeqIDModulus
  <1> DEFINE M == 2 ^ Width
             a == Distance(s)
             b == Distance(t)
             m == SeqIDModulus
  <1>1. M \in Nat \ {0} /\ m \in Nat \ {0} /\ MaxSeq \in Nat /\ MaxSeq + m <= M
    BY EventStoreAssumption
  <1>2. /\ a \in 0 .. M - 1 /\ b \in 0 .. M - 1
        /\ a = IF s > lastFlushedSeqID THEN s - (1 + lastFlushedSeqID) ELSE s - (1 + lastFlushedSeqID) + M
        /\ b = IF t > lastFlushedSeqID THEN t - (1 + lastFlushedSeqID) ELSE t - (1 + lastFlushedSeqID) + M
    BY DistanceIs
  <1>3. ((a \div m) + 1) % M = ((b \div m) + 1) % M
    BY DEF Key, Distance
  <1> HIDE DEF M, a, b, m
  <1>4. a \div m \in 0 .. M - 1 /\ b \div m \in 0 .. M - 1
    BY <1>1, <1>2, DivBound
  <1>5. a \div m = b \div m
    BY <1>1, <1>3, <1>4, WrapSame
  <1>6. a - b < m /\ b - a < m
    <2>1. a \in Nat /\ b \in Nat /\ m \in Nat \ {0}
      BY <1>1, <1>2
    <2>2. QED
      BY <1>5, <2>1, DivSame
  <1>7. s - t < m
    BY <1>1, <1>2, <1>6
  <1>8. QED
    BY <1>5, <1>7 DEF a, b, m

\* There are not more fragments of a run with the same key than an event takes.
LEMMA GroupFull ==
  ASSUME lastFlushedSeqID \in 0 .. MaxSeq, NEW f \in Fragment, NEW S, S \subseteq Fragment,
         Cardinality(S) = FragmentsPerEvent,
         \A g \in S : g.run = f.run /\ Key(g.seq) = Key(f.seq)
  PROVE  f \in S
  <1> DEFINE T == S \cup {f}
             n == SeqIDModulus * FragmentIDs
             h == [g \in T |-> (Distance(g.seq) % SeqIDModulus) * FragmentIDs + g.id]
  <1>1. /\ SeqIDModulus \in Nat \ {0} /\ FragmentIDs \in Nat \ {0} /\ FragmentsPerEvent \in Nat \ {0}
        /\ n \in Nat /\ n <= FragmentsPerEvent
    BY EventStoreAssumption, GroupsFit
  <1>2. ASSUME NEW g \in T
        PROVE  /\ g \in Fragment /\ g.run = f.run /\ Key(g.seq) = Key(f.seq)
               /\ g.seq \in 1 .. MaxSeq /\ g.id \in 1 .. FragmentIDs
               /\ Distance(g.seq) \in Nat /\ Distance(g.seq) % SeqIDModulus \in 0 .. SeqIDModulus - 1
    <2>1. g \in Fragment /\ g.run = f.run /\ Key(g.seq) = Key(f.seq)
      OBVIOUS
    <2>2. g.seq \in 1 .. MaxSeq /\ g.id \in 1 .. FragmentIDs
      BY <2>1 DEF Fragment
    <2>3. Distance(g.seq) \in Nat
      BY <2>2, DistanceIs, EventStoreAssumption
    <2>4. QED
      BY <1>1, <2>1, <2>2, <2>3
  <1>3. h \in [T -> 1 .. n]
    BY <1>1, <1>2, PairBound
  <1>4. ASSUME NEW g1 \in T, NEW g2 \in T, h[g1] = h[g2]
        PROVE  g1 = g2
    <2>1. /\ Distance(g1.seq) % SeqIDModulus = Distance(g2.seq) % SeqIDModulus
          /\ g1.id = g2.id
      <3> DEFINE r == Distance(g1.seq) % SeqIDModulus
                 s == Distance(g2.seq) % SeqIDModulus
      <3>1. r * FragmentIDs + g1.id = s * FragmentIDs + g2.id
        <4>1. h[g1] = r * FragmentIDs + g1.id /\ h[g2] = s * FragmentIDs + g2.id
          OBVIOUS
        <4>2. QED
          BY <1>4, <4>1
      <3>2. /\ r \in Nat /\ s \in Nat /\ FragmentIDs \in Nat
            /\ g1.id \in 1 .. FragmentIDs /\ g2.id \in 1 .. FragmentIDs
        <4> HIDE DEF T
        <4>1. r \in 0 .. SeqIDModulus - 1 /\ g1.id \in 1 .. FragmentIDs
          BY <1>2
        <4>2. s \in 0 .. SeqIDModulus - 1 /\ g2.id \in 1 .. FragmentIDs
          BY <1>2
        <4>3. QED
          BY <1>1, <4>1, <4>2
      <3>3. r = s /\ g1.id = g2.id
        <4> DEFINE a == g1.id
                   b == g2.id
        <4>1. a \in 1 .. FragmentIDs /\ b \in 1 .. FragmentIDs /\ r * FragmentIDs + a = s * FragmentIDs + b
          BY <3>1, <3>2
        <4>2. r \in Nat /\ s \in Nat /\ FragmentIDs \in Nat
          BY <3>2
        <4> HIDE DEF T, h, n, r, s, a, b
        <4>3. r = s /\ a = b
          BY <4>1, <4>2, PairInjective
        <4>4. QED
          BY <4>3 DEF a, b
      <3>4. QED
        BY <3>3 DEF r, s
    <2>2. Key(g1.seq) = Key(g2.seq) /\ g1.seq \in 1 .. MaxSeq /\ g2.seq \in 1 .. MaxSeq
      BY <1>2
    <2>3. Distance(g1.seq) \div SeqIDModulus = Distance(g2.seq) \div SeqIDModulus
      BY <2>2, KeySame
    <2>4. Distance(g1.seq) = Distance(g2.seq)
      BY <1>1, <1>2, <2>1, <2>3, DivMod
    <2>5. g1.seq = g2.seq
      BY <2>2, <2>4, DistanceIs, EventStoreAssumption
    <2>6. QED
      BY <1>2, <2>1, <2>5 DEF Fragment
  <1>5. h \in Injection(T, 1 .. n)
    BY <1>3, <1>4 DEF Injection, IsInjective
  <1>6. IsFiniteSet(1 .. n) /\ Cardinality(1 .. n) <= n
    <2> HIDE DEF n
    <2>1. IsFiniteSet(1 .. n) /\ Cardinality(1 .. n) = IF 1 > n THEN 0 ELSE n - 1 + 1
      BY <1>1, FS_Interval
    <2>2. QED
      BY <1>1, <2>1
  <1>7. IsFiniteSet(T) /\ Cardinality(T) <= n
    BY <1>1, <1>5, <1>6, FS_Injection, FS_CardinalityType
  <1>8. IsFiniteSet(S)
    BY <1>7, FS_Subset
  <1>9. f \notin S => Cardinality(T) = FragmentsPerEvent + 1
    BY <1>8, FS_AddElement
  <1>10. QED
    BY <1>1, <1>7, <1>9, FS_CardinalityType
-----------------------------------------------------------------------------
(* Which fragments come together: the inductive invariant goes on.         *)

\* Runs and subruns are numbered in the order in which they are taken.
NumberInv ==
  /\ runs > 0 => run_id = runs
  /\ client \in {"running", "flushing", "flushed", "ended"} => runs > 0
  /\ \A ev \in RawEvents : ev.run \in 1 .. runs /\ (ev.run = run_id => ev.subrun <= subrun_id)

\* The map only holds events of the current subrun, with the fragments of their key.
OpenInv ==
  ~flushFailed =>
    /\ client \notin {"running", "flushing"} => DOMAIN events = {}
    /\ \A k \in DOMAIN events :
         /\ events[k].run = run_id /\ events[k].subrun = subrun_id
         /\ \A f \in events[k].frags : f.run = run_id /\ Key(f.seq) = k

\* An event that leaves the map before the flush is complete: no further fragment has
\* its key.
WholeInv ==
  ~flushFailed /\ client = "running" =>
    \A i \in EnqueuedEvents :
      Enqueued[i].run = run_id /\ Enqueued[i].subrun = subrun_id =>
        /\ Cardinality(Enqueued[i].frags) = FragmentsPerEvent
        /\ \A f, g \in Enqueued[i].frags : f.run = run_id /\ Key(f.seq) = Key(g.seq)

TogetherInv == NumberInv /\ OpenInv /\ WholeInv /\ GroupedBySequence /\ NotSplit

LEMMA TogetherStart == Init => TogetherInv
  <1> SUFFICES ASSUME Init PROVE TogetherInv
    OBVIOUS
  <1>1. DOMAIN events = {} /\ EnqueuedEvents = {}
    BY DEF Init, StoreInit, EnqueuedEvents, Enqueued
  <1>2. \A ev : ev \notin RawEvents
    BY <1>1, RawEventsAre
  <1>3. runs = 0 /\ client = "idle"
    BY DEF Init
  <1>4. NumberInv /\ OpenInv /\ WholeInv
    BY <1>1, <1>2, <1>3 DEF NumberInv, OpenInv, WholeInv
  <1>5. GroupedBySequence /\ NotSplit
    BY <1>2 DEF GroupedBySequence, NotSplit
  <1>6. QED
    BY <1>4, <1>5 DEF TogetherInv

\* A step that makes no event and starts nothing: the caller only goes on.
LEMMA TogetherMove ==
  ASSUME TogetherInv,
         UNCHANGED <<run_id, subrun_id, runs, RawEvents>>,
         flushFailed => flushFailed',
         client' \in {"running", "flushing", "flushed", "ended"} =>
           client \in {"running", "flushing", "flushed", "ended"},
         ~flushFailed' /\ client' \notin {"running", "flushing"} => DOMAIN events' = {},
         lastFlushedSeqID' = lastFlushedSeqID \/ client' \notin {"running", "flushing"},
         DOMAIN events' \subseteq DOMAIN events,
         \A k \in DOMAIN events' : events'[k] = events[k],
         client' = "running" =>
           /\ client = "running"
           /\ EnqueuedEvents' = EnqueuedEvents
           /\ \A i \in EnqueuedEvents : Enqueued'[i] = Enqueued[i]
  PROVE  TogetherInv'
  <1> USE DEF TogetherInv
  <1>1. NumberInv'
    BY DEF NumberInv
  <1>2. ASSUME lastFlushedSeqID' = lastFlushedSeqID
        PROVE  \A s : Key(s)' = Key(s)
    BY <1>2 DEF Key
  <1>3. OpenInv'
    <2>1. CASE client' \notin {"running", "flushing"}
      BY <2>1 DEF OpenInv
    <2>2. CASE client' \in {"running", "flushing"}
      BY <1>2, <2>2 DEF OpenInv
    <2>3. QED
      BY <2>1, <2>2
  <1>4. WholeInv'
    BY <1>2 DEF WholeInv
  <1>5. GroupedBySequence' /\ NotSplit'
    BY DEF GroupedBySequence, NotSplit
  <1>6. QED
    BY <1>1, <1>3, <1>4, <1>5

\* The next run, or the next subrun, has no events yet.
LEMMA TogetherBegin ==
  ASSUME LossInv, TogetherInv, UNCHANGED <<events, queue, popped, flushFailed>>,
         client \in {"idle", "ended"}, client' = "running",
         \/ client = "idle" /\ runs' = runs + 1 /\ run_id' = runs + 1
         \/ client = "ended" /\ runs' = runs /\ run_id' = run_id /\ subrun_id' = subrun_id + 1
  PROVE  TogetherInv'
  <1> USE DEF TogetherInv
  <1>1. runs \in Nat /\ run_id \in Nat /\ subrun_id \in Nat
    BY EventStoreAssumption DEF LossInv, StoreTypeOK
  <1>2. RawEvents' = RawEvents /\ EnqueuedEvents' = EnqueuedEvents /\ Enqueued' = Enqueued
    BY UnchangedHeld
  <1>3. ASSUME NEW ev \in RawEvents
        PROVE  /\ ev.run \in 1 .. runs' /\ ev.subrun \in Nat
               /\ ~(ev.run = run_id' /\ ev.subrun = subrun_id')
               /\ ev.run = run_id' => ev.subrun <= subrun_id'
    <2>1. ev.run \in 1 .. runs /\ (ev.run = run_id => ev.subrun <= subrun_id)
      BY DEF NumberInv
    <2>2. ev \in Item
      BY EnqueuedType, RawEventsAre DEF LossInv, StoreTypeOK, EnqueuedEvents
    <2>3. ev.subrun \in Nat
      BY <2>2 DEF Item
    <2>4. QED
      BY <1>1, <2>1, <2>3
  <1>4. NumberInv'
    BY <1>1, <1>2, <1>3 DEF NumberInv
  <1>5. OpenInv'
    BY DEF OpenInv
  <1>6. WholeInv'
    <2>1. \A i \in EnqueuedEvents : Enqueued[i] \in RawEvents
      BY RawEventsAre
    <2>2. QED
      BY <1>2, <1>3, <2>1 DEF WholeInv
  <1>7. GroupedBySequence' /\ NotSplit'
    BY <1>2 DEF GroupedBySequence, NotSplit
  <1>8. QED
    BY <1>4, <1>5, <1>6, <1>7

\* What the store holds after a fragment was inserted.
LEMMA InsertRaw ==
  ASSUME StoreTypeOK, MapInv, NEW f \in Fragment, InsertAccepted(f)
  PROVE  /\ \A ev \in RawEvents' : \/ ev = EventWith(f)
                                   \/ \E i \in EnqueuedEvents : ev = Enqueued[i]
                                   \/ \E j \in DOMAIN events \ {Key(f.seq)} : ev = events[j]
         /\ \A i \in EnqueuedEvents' : \/ i \in EnqueuedEvents /\ Enqueued'[i] = Enqueued[i]
                                       \/ Completes(f) /\ Enqueued'[i] = EventWith(f)
         /\ \A j \in DOMAIN events' : \/ j = Key(f.seq) /\ events'[j] = EventWith(f)
                                      \/ j \in DOMAIN events \ {Key(f.seq)} /\ events'[j] = events[j]
  <1> DEFINE k == Key(f.seq)
             e == EventWith(f)
  <1>1. e \in Item /\ e.kind = "event"
    BY EventWithIs
  <1>2. popped' = popped
    BY InsertIs
  <1>3. CASE /\ Completes(f)
             /\ DOMAIN events' = DOMAIN events \ {k}
             /\ \A j \in DOMAIN events' : events'[j] = events[j]
             /\ queue' = Append(queue, e)
    <2>1. \A i \in EnqueuedEvents' : \/ i \in EnqueuedEvents /\ Enqueued'[i] = Enqueued[i]
                                     \/ Completes(f) /\ Enqueued'[i] = e
      BY <1>1, <1>2, <1>3, EnqueuedEventsAppend
    <2>2. \A ev \in RawEvents' : \/ \E i \in EnqueuedEvents' : ev = Enqueued'[i]
                                 \/ \E j \in DOMAIN events' : ev = events'[j]
      BY DEF RawEvents, Range
    <2>3. QED
      BY <1>3, <2>1, <2>2
  <1>4. CASE /\ DOMAIN events' = DOMAIN events \cup {k}
             /\ events'[k] = e
             /\ \A j \in DOMAIN events' \ {k} : events'[j] = events[j]
             /\ queue' = queue
    <2>1. Enqueued' = Enqueued /\ EnqueuedEvents' = EnqueuedEvents
      BY <1>2, <1>4 DEF Enqueued, EnqueuedEvents
    <2>2. \A ev \in RawEvents' : \/ \E i \in EnqueuedEvents' : ev = Enqueued'[i]
                                 \/ \E j \in DOMAIN events' : ev = events'[j]
      BY DEF RawEvents, Range
    <2>3. QED
      BY <1>4, <2>1, <2>2
  <1>5. QED
    BY <1>3, <1>4, InsertIs

LEMMA TogetherInsert ==
  ASSUME LossInv, TogetherInv, NEW f \in Fragment, InsertFragment(f)
  PROVE  TogetherInv'
  <1> DEFINE k == Key(f.seq)
             e == EventWith(f)
  <1>1. /\ client = "running" /\ f.run = run_id /\ InsertAccepted(f) /\ f \notin Held
        /\ client' = client /\ runs' = runs /\ flushFailed' = flushFailed
    BY DEF InsertFragment, LossInv
  <1>2. run_id' = run_id /\ subrun_id' = subrun_id /\ lastFlushedSeqID' = lastFlushedSeqID
    BY <1>1, InsertIs
  <1>3. \A s : Key(s)' = Key(s)
    BY <1>2 DEF Key
  <1>4. /\ lastFlushedSeqID \in 0 .. MaxSeq /\ f.seq \in 1 .. MaxSeq
        /\ runs \in Nat /\ run_id \in Nat /\ subrun_id \in Nat /\ accepted \subseteq Fragment
    BY EventStoreAssumption DEF LossInv, StoreTypeOK, Fragment
  <1>5. StoreTypeOK /\ MapInv
    BY DEF LossInv
  <1>6. /\ e \in Item /\ f \in e.frags
        /\ \A g \in e.frags \ {f} : k \in DOMAIN events /\ g \in events[k].frags
        /\ k \in DOMAIN events => e.run = events[k].run /\ e.subrun = events[k].subrun
        /\ k \notin DOMAIN events => e.run = run_id /\ e.subrun = subrun_id
    BY <1>5, EventWithIs
  <1>7. /\ \A ev \in RawEvents' : \/ ev = e
                                  \/ \E i \in EnqueuedEvents : ev = Enqueued[i]
                                  \/ \E j \in DOMAIN events \ {k} : ev = events[j]
        /\ \A i \in EnqueuedEvents' : \/ i \in EnqueuedEvents /\ Enqueued'[i] = Enqueued[i]
                                      \/ Completes(f) /\ Enqueued'[i] = e
        /\ \A j \in DOMAIN events' : \/ j = k /\ events'[j] = e
                                     \/ j \in DOMAIN events \ {k} /\ events'[j] = events[j]
    BY <1>1, <1>5, InsertRaw
  <1>8. /\ \A i \in EnqueuedEvents : Enqueued[i] \in RawEvents
        /\ \A j \in DOMAIN events : events[j] \in RawEvents
    BY RawEventsAre
  <1>9. NumberInv'
    <2>1. runs > 0 /\ run_id = runs
      BY <1>1 DEF TogetherInv, NumberInv
    <2>2. \A ev \in RawEvents : ev.run \in 1 .. runs /\ (ev.run = run_id => ev.subrun <= subrun_id)
      BY DEF TogetherInv, NumberInv
    <2>3. e.run \in 1 .. runs /\ (e.run = run_id => e.subrun <= subrun_id)
      BY <1>4, <1>6, <1>8, <2>1, <2>2
    <2>4. \A ev \in RawEvents' : ev.run \in 1 .. runs /\ (ev.run = run_id => ev.subrun <= subrun_id)
      BY <1>7, <1>8, <2>2, <2>3
    <2>5. QED
      BY <1>1, <1>2, <2>1, <2>4 DEF NumberInv
  <1>10. CASE flushFailed
    BY <1>1, <1>9, <1>10 DEF TogetherInv, OpenInv, WholeInv, GroupedBySequence, NotSplit
  <1>11. CASE ~flushFailed
    <2>1. /\ e.run = run_id /\ e.subrun = subrun_id
          /\ \A g \in e.frags : g.run = run_id /\ Key(g.seq) = k
      BY <1>1, <1>6, <1>11 DEF TogetherInv, OpenInv
    <2>2. OpenInv'
      BY <1>1, <1>2, <1>3, <1>7, <1>11, <2>1 DEF TogetherInv, OpenInv
    <2>3. WholeInv'
      <3>1. Completes(f) => Cardinality(e.frags) = FragmentsPerEvent
        BY DEF Completes
      <3>2. QED
        BY <1>1, <1>2, <1>3, <1>7, <1>11, <2>1, <3>1 DEF TogetherInv, WholeInv
    <2>4. GroupedBySequence'
      <3>1. SameRun(e)
        BY <2>1 DEF SameRun
      <3>2. SameGroup(e)
        <4>1. e.frags \subseteq Fragment
          BY <1>6 DEF Item
        <4>2. \A g \in e.frags : g.seq \in 1 .. MaxSeq
          BY <4>1 DEF Fragment
        <4>3. QED
          BY <1>4, <2>1, <4>2, KeySame DEF SameGroup
      <3>3. \A ev \in RawEvents : SameRun(ev) /\ SameGroup(ev)
        BY <1>11 DEF TogetherInv, GroupedBySequence
      <3>4. \A ev \in RawEvents' : SameRun(ev) /\ SameGroup(ev)
        BY <1>7, <1>8, <3>1, <3>2, <3>3
      <3>5. QED
        BY <3>4 DEF GroupedBySequence, SameRun, SameGroup
    <2>5. ASSUME NEW ev \in RawEvents', ev # e, ev.run = run_id, ev.subrun = subrun_id,
                 NEW g \in ev.frags
          PROVE  Key(g.seq) # k
      <3>1. CASE \E j \in DOMAIN events \ {k} : ev = events[j]
        BY <1>11, <2>5, <3>1 DEF TogetherInv, OpenInv
      <3>2. ASSUME NEW i \in EnqueuedEvents, ev = Enqueued[i], Key(g.seq) = k
            PROVE  FALSE
        <4>1. /\ Cardinality(ev.frags) = FragmentsPerEvent
              /\ \A h \in ev.frags : h.run = run_id /\ Key(h.seq) = Key(g.seq)
          BY <1>1, <1>11, <2>5, <3>2 DEF TogetherInv, WholeInv
        <4>2. ev \in Item
          BY <1>5, <3>2, EnqueuedType DEF EnqueuedEvents
        <4>3. ev.frags \subseteq Fragment
          BY <4>2 DEF Item
        <4>4. f \in ev.frags
          BY <1>1, <1>4, <3>2, <4>1, <4>3, GroupFull
        <4>5. ev \in RawEvents
          BY <1>8, <3>2
        <4>6. QED
          BY <1>1, <4>4, <4>5 DEF Held
      <3>3. QED
        BY <1>7, <2>5, <3>1, <3>2
    <2>6. NotSplit'
      <3>1. ASSUME NEW e1 \in RawEvents', NEW e2 \in RawEvents', e1 # e2,
                   e1.run = e2.run, e1.subrun = e2.subrun,
                   NEW g1 \in e1.frags, NEW g2 \in e2.frags, g1.seq = g2.seq
            PROVE  FALSE
        <4>1. CASE e1 = e
          BY <2>1, <2>5, <3>1, <4>1
        <4>2. CASE e2 = e
          BY <2>1, <2>5, <3>1, <4>2
        <4>3. CASE e1 # e /\ e2 # e
          <5>1. e1 \in RawEvents /\ e2 \in RawEvents
            BY <1>7, <1>8, <3>1, <4>3
          <5>2. QED
            BY <1>11, <3>1, <5>1 DEF TogetherInv, NotSplit
        <4>4. QED
          BY <4>1, <4>2, <4>3
      <3>2. QED
        BY <3>1 DEF NotSplit
    <2>7. QED
      BY <1>9, <2>2, <2>3, <2>4, <2>6 DEF TogetherInv
  <1>12. QED
    BY <1>10, <1>11
UseInv == LossInv /\ TogetherInv

\* The caller goes on, the store does not; it starts nothing.
LEMMA UseMove ==
  ASSUME UseInv, UNCHANGED <<storeVars, accepted, runs>>, client' \in Clients,
         flushFailed' \in BOOLEAN, flushFailed => flushFailed',
         client' # client => client' \notin {"running", "flushing"},
         client' \in {"flushed", "ended"} => client \in {"running", "flushing", "flushed", "ended"},
         ~flushFailed' /\ client' \notin {"running", "flushing"} =>
           DOMAIN events = {} \/ client \notin {"running", "flushing"}
  PROVE  UseInv'
  <1>1. UNCHANGED <<run_id, subrun_id, events, lastFlushedSeqID, highestSeqIDSeen, queue, popped>>
    BY DEF storeVars
  <1>2. LossInv'
    BY LossMove DEF UseInv, LossInv
  <1>3. RawEvents' = RawEvents /\ EnqueuedEvents' = EnqueuedEvents /\ Enqueued' = Enqueued
    BY <1>1, UnchangedHeld
  <1>4. ~flushFailed' /\ client' \notin {"running", "flushing"} => DOMAIN events' = {}
    BY <1>1 DEF UseInv, LossInv, TogetherInv, OpenInv
  <1>5. TogetherInv'
    BY <1>1, <1>3, <1>4, TogetherMove DEF UseInv
  <1>6. QED
    BY <1>2, <1>5 DEF UseInv

LEMMA UseEnqueue ==
  ASSUME UseInv, NEW kind \in {"endSubrun", "endRun", "endOfData", "init"}, Enqueue(kind),
         UNCHANGED <<accepted, runs, flushFailed>>, client' \in Clients,
         client' # client => client' \notin {"running", "flushing"},
         client' \in {"flushed", "ended"} => client \in {"running", "flushing", "flushed", "ended"},
         client' \notin {"running", "flushing"} => client \notin {"running", "flushing"}
  PROVE  UseInv'
  <1>1. UNCHANGED <<run_id, subrun_id, events, lastFlushedSeqID, highestSeqIDSeen, popped>>
    BY DEF Enqueue
  <1>2. LossInv'
    BY LossEnqueue DEF UseInv, LossInv
  <1>3. /\ RawEvents' = RawEvents /\ EnqueuedEvents' = EnqueuedEvents
        /\ \A i \in EnqueuedEvents : Enqueued'[i] = Enqueued[i]
    BY EnqueueHeld DEF UseInv, LossInv
  <1>4. ~flushFailed' /\ client' \notin {"running", "flushing"} => DOMAIN events' = {}
    BY <1>1 DEF UseInv, TogetherInv, OpenInv
  <1>5. TogetherInv'
    BY <1>1, <1>3, <1>4, TogetherMove DEF UseInv
  <1>6. QED
    BY <1>2, <1>5 DEF UseInv

LEMMA UseDequeue ==
  ASSUME UseInv, Dequeue, UNCHANGED useVars
  PROVE  UseInv'
  <1>1. UNCHANGED <<run_id, subrun_id, events, lastFlushedSeqID, client, runs, flushFailed>>
    BY DEF Dequeue, useVars
  <1>2. LossInv'
    BY LossDequeue DEF UseInv
  <1>3. RawEvents' = RawEvents /\ EnqueuedEvents' = EnqueuedEvents /\ Enqueued' = Enqueued
    BY DequeueHeld DEF UseInv, LossInv
  <1>4. ~flushFailed' /\ client' \notin {"running", "flushing"} => DOMAIN events' = {}
    BY <1>1 DEF UseInv, TogetherInv, OpenInv
  <1>5. TogetherInv'
    BY <1>1, <1>3, <1>4, TogetherMove DEF UseInv
  <1>6. QED
    BY <1>2, <1>5 DEF UseInv

LEMMA UseInsert ==
  ASSUME UseInv, NEW f \in Fragment, InsertFragment(f)
  PROVE  UseInv'
  BY LossInsert, TogetherInsert DEF UseInv

LEMMA UseFlush ==
  ASSUME UseInv, FlushOne \/ EndFlush
  PROVE  UseInv'
  <1>1. CASE FlushOne
    <2>1. client = "flushing" /\ FlushEvent /\ UNCHANGED <<client, runs, flushFailed>>
      BY <1>1 DEF FlushOne, useVars
    <2>2. LossInv'
      BY <1>1, LossFlush DEF UseInv
    <2>3. RawEvents' = RawEvents
      BY <2>1, FlushEventHeld DEF UseInv, LossInv
    <2>4. /\ UNCHANGED <<run_id, subrun_id, lastFlushedSeqID>> /\ DOMAIN events' \subseteq DOMAIN events
          /\ \A j \in DOMAIN events' : events'[j] = events[j]
      BY <2>1, FlushEventIs
    <2>5. TogetherInv'
      BY <2>1, <2>3, <2>4, TogetherMove DEF UseInv
    <2>6. QED
      BY <2>2, <2>5 DEF UseInv
  <1>2. CASE EndFlush
    <2>1. /\ client = "flushing" /\ client' = "flushed" /\ runs' = runs
          /\ flushFailed' = (flushFailed \/ DOMAIN events # {}) /\ accepted' = accepted
          /\ UNCHANGED <<run_id, subrun_id, events, highestSeqIDSeen, queue, popped>>
          /\ lastFlushedSeqID' = highestSeqIDSeen
      BY <1>2 DEF EndFlush, FlushReturn, Goto
    <2>2. LossInv'
      BY <2>1, LossRenumber DEF UseInv, LossInv, StoreTypeOK, Clients
    <2>3. RawEvents' = RawEvents
      BY <2>1, UnchangedHeld
    <2>4. TogetherInv'
      BY <2>1, <2>3, TogetherMove DEF UseInv
    <2>5. QED
      BY <2>2, <2>4 DEF UseInv
  <1>3. QED
    BY <1>1, <1>2

LEMMA UseBegin ==
  ASSUME UseInv, StartRun \/ StartSubrun
  PROVE  UseInv'
  <1>1. LossInv /\ TogetherInv
    BY DEF UseInv
  <1>2. CASE StartRun
    <2>1. /\ client = "idle" /\ client' = "running" /\ runs < MaxRun /\ runs' = runs + 1
          /\ run_id' = runs + 1 /\ subrun_id' = 1 /\ lastFlushedSeqID' = 0 /\ highestSeqIDSeen' = 0
          /\ UNCHANGED <<events, queue, popped, accepted, flushFailed>>
      BY <1>2 DEF StartRun, startRun, Goto
    <2>2. runs \in Nat /\ runs + 1 \in 1 .. MaxRun
      BY <1>1, <2>1, EventStoreAssumption DEF LossInv
    <2>3. LossInv'
      BY <1>1, <2>1, <2>2, LossRenumber, EventStoreAssumption DEF LossInv, Clients
    <2>4. TogetherInv'
      BY <1>1, <2>1, TogetherBegin
    <2>5. QED
      BY <2>3, <2>4 DEF UseInv
  <1>3. CASE StartSubrun
    <2>1. /\ client = "ended" /\ client' = "running" /\ subrun_id' = subrun_id + 1
          /\ UNCHANGED <<run_id, lastFlushedSeqID, highestSeqIDSeen>>
          /\ UNCHANGED <<events, queue, popped, accepted, flushFailed, runs>>
      BY <1>3 DEF StartSubrun, startSubrun, Goto
    <2>2. LossInv'
      BY <1>1, <2>1, LossRenumber DEF LossInv, StoreTypeOK, Clients
    <2>3. TogetherInv'
      BY <1>1, <2>1, TogetherBegin
    <2>4. QED
      BY <2>2, <2>3 DEF UseInv
  <1>4. QED
    BY <1>2, <1>3

LEMMA UseStart == Init => UseInv
  BY LossStart, TogetherStart DEF UseInv

LEMMA UseStep == UseInv /\ [Next]_vars => UseInv'
  <1> SUFFICES ASSUME UseInv, [Next]_vars PROVE UseInv'
    OBVIOUS
  <1>0. client \in Clients /\ flushFailed \in BOOLEAN
    BY DEF UseInv, LossInv
  <1>1. CASE StartRun \/ StartSubrun
    BY <1>1, UseBegin
  <1>2. CASE BeginFlush
    <2>1. /\ client = "running" /\ client' = "flushing"
          /\ UNCHANGED <<storeVars, runs, accepted, flushFailed>>
      BY <1>2 DEF BeginFlush, Goto
    <2>2. LossInv'
      BY <1>0, <2>1, LossMove DEF UseInv, LossInv, Clients
    <2>3. UNCHANGED <<run_id, subrun_id, events, lastFlushedSeqID, queue, popped>>
      BY <2>1 DEF storeVars
    <2>4. RawEvents' = RawEvents
      BY <2>3, UnchangedHeld
    <2>5. TogetherInv'
      BY <2>1, <2>3, <2>4, TogetherMove DEF UseInv
    <2>6. QED
      BY <2>2, <2>5 DEF UseInv
  <1>3. CASE FlushOne \/ EndFlush
    BY <1>3, UseFlush
  <1>4. CASE EndSubrun \/ EndRun
    <2>1. /\ UNCHANGED <<accepted, runs, flushFailed>>
          /\ \/ client = "flushed" /\ client' = "ended"
             \/ client = "ended" /\ client' = "idle"
      BY <1>4 DEF EndSubrun, EndRun, Goto
    <2>2. Enqueue("endSubrun") \/ Enqueue("endRun") \/ UNCHANGED storeVars
      BY <1>4 DEF EndSubrun, EndRun, EnqueueOrGiveUp
    <2>3. client' \in Clients
      BY <2>1 DEF Clients
    <2>4. CASE UNCHANGED storeVars
      BY <1>0, <2>1, <2>3, <2>4, UseMove
    <2>5. ASSUME NEW kind \in {"endSubrun", "endRun"}, Enqueue(kind)
          PROVE  UseInv'
      BY <2>1, <2>3, <2>5, UseEnqueue
    <2>6. QED
      BY <2>2, <2>4, <2>5
  <1>5. CASE EndOfData
    <2>1. /\ UNCHANGED <<accepted, runs, flushFailed>> /\ Enqueue("endOfData")
          /\ client = "idle" /\ client' = "joining"
      BY <1>5 DEF EndOfData, Goto
    <2>2. QED
      BY <2>1, UseEnqueue DEF Clients
  <1>6. CASE JoinReader
    <2>1. /\ UNCHANGED <<storeVars, runs, accepted, flushFailed>>
          /\ client = "joining" /\ client' = "shutdown"
      BY <1>6 DEF JoinReader, Goto
    <2>2. QED
      BY <1>0, <2>1, UseMove DEF Clients
  <1>7. ASSUME NEW f \in Fragment, InsertFragment(f) PROVE UseInv'
    BY <1>7, UseInsert
  <1>8. CASE Reader
    BY <1>8, UseDequeue DEF Reader
  <1>9. CASE UNCHANGED vars
    BY <1>0, <1>9, UseMove DEF vars, useVars
  <1>10. QED
    BY <1>1, <1>2, <1>3, <1>4, <1>5, <1>6, <1>7, <1>8, <1>9 DEF Next, Caller, Terminated

\* As long as every flush has succeeded, an event has the fragments of one run and of one
\* group of sequence IDs, also when fragments arrive after the flush of their subrun.
THEOREM StoreGroups == Spec => []GroupedBySequence
  <1>1. UseInv => GroupedBySequence
    BY DEF UseInv, TogetherInv
  <1>2. QED
    BY <1>1, UseStart, UseStep, PTL DEF Spec

\* ... and two events of one subrun have no sequence ID in common.
THEOREM StoreSplitsNothing == Spec => []NotSplit
  <1>1. UseInv => NotSplit
    BY DEF UseInv, TogetherInv
  <1>2. QED
    BY <1>1, UseStart, UseStep, PTL DEF Spec
-----------------------------------------------------------------------------
(* What is put on the queue and taken off it, by place: for the art jobs.  *)

Before(s, t) == s[1] < t[1] \/ (s[1] = t[1] /\ s[2] < t[2])
LastPopped == popped[Len(popped)]

LEMMA SameLength ==
  ASSUME NEW a \in Nat, NEW b \in Nat, 1 .. a = 1 .. b
  PROVE  a = b
  <1>1. a <= b
    <2>1. CASE a = 0
      BY <2>1
    <2>2. CASE a >= 1
      <3>1. a \in 1 .. b
        BY <2>2
      <3>2. QED
        BY <3>1
    <2>3. QED
      BY <2>1, <2>2
  <1>2. b <= a
    <2>1. CASE b = 0
      BY <2>1
    <2>2. CASE b >= 1
      <3>1. b \in 1 .. a
        BY <2>2
      <3>2. QED
        BY <3>1
    <2>3. QED
      BY <2>1, <2>2
  <1>3. QED
    BY <1>1, <1>2

\* The place of an item that is put on the queue.
LEMMA NewPlace ==
  ASSUME StoreTypeOK, NEW e \in Item, queue' = Append(queue, e), popped' = popped
  PROVE  LET n == Len(Enqueued) + 1 IN
         /\ n \in Nat /\ Enqueued'[n] = e /\ Len(Enqueued') = n /\ Enqueued' # <<>>
         /\ DOMAIN Enqueued' = DOMAIN Enqueued \cup {n}
         /\ \A i \in DOMAIN Enqueued : i \in Nat /\ i < n /\ Enqueued'[i] = Enqueued[i]
         /\ EnqueuedEvents' = EnqueuedEvents \cup (IF e.kind = "event" THEN {n} ELSE {})
  <1> DEFINE n == Len(Enqueued) + 1
  <1>1. DOMAIN Enqueued = 1 .. Len(Enqueued) /\ Len(Enqueued) \in Nat
    BY EnqueuedType
  <1>2. /\ DOMAIN Enqueued' = DOMAIN Enqueued \cup {n} /\ n \notin DOMAIN Enqueued
        /\ \A i \in DOMAIN Enqueued : Enqueued'[i] = Enqueued[i]
        /\ Enqueued'[n] = e
    BY EnqueuedAppend
  <1>3. n \in Nat /\ \A i \in DOMAIN Enqueued : i \in Nat /\ i < n
    BY <1>1
  <1>4. Enqueued' \in Seq(Item)
    <2>1. popped \in Seq(Item) /\ queue \in Seq(Item)
      BY DEF StoreTypeOK
    <2>2. Append(queue, e) \in Seq(Item)
      BY <2>1, AppendProperties
    <2>3. QED
      BY <2>1, <2>2, ConcatProperties DEF Enqueued
  <1>5. Len(Enqueued') = n /\ Enqueued' # <<>>
    <2>1. Len(Enqueued') \in Nat /\ DOMAIN Enqueued' = 1 .. Len(Enqueued')
      BY <1>4, LenProperties
    <2>2. 1 .. Len(Enqueued') = 1 .. n
      BY <1>1, <1>2, <2>1
    <2>3. Len(Enqueued') = n
      BY <1>3, <2>1, <2>2, SameLength
    <2>4. QED
      BY <1>1, <2>3
  <1>6. EnqueuedEvents' = EnqueuedEvents \cup (IF e.kind = "event" THEN {n} ELSE {})
    BY <1>2 DEF EnqueuedEvents
  <1>7. QED
    BY <1>2, <1>3, <1>5, <1>6

LEMMA PoppedType ==
  ASSUME StoreTypeOK
  PROVE  /\ popped \in Seq(Item) /\ Len(popped) \in Nat /\ DOMAIN popped = 1 .. Len(popped)
         /\ \A i \in DOMAIN popped : popped[i] \in Item /\ i \in DOMAIN Enqueued /\ Enqueued[i] = popped[i]
  <1>1. popped \in Seq(Item) /\ queue \in Seq(Item)
    BY DEF StoreTypeOK
  <1>2. Len(popped) \in Nat /\ Len(queue) \in Nat /\ DOMAIN popped = 1 .. Len(popped)
        /\ \A i \in DOMAIN popped : popped[i] \in Item
    BY <1>1, LenProperties, ElementOfSeq
  <1>3. /\ Len(Enqueued) = Len(popped) + Len(queue)
        /\ \A i \in 1 .. Len(popped) + Len(queue) :
             Enqueued[i] = IF i <= Len(popped) THEN popped[i] ELSE queue[i - Len(popped)]
    BY <1>1, ConcatProperties DEF Enqueued
  <1>4. DOMAIN Enqueued = 1 .. Len(Enqueued)
    BY EnqueuedType
  <1>5. ASSUME NEW i \in DOMAIN popped
        PROVE  i \in DOMAIN Enqueued /\ Enqueued[i] = popped[i]
    BY <1>2, <1>3, <1>4, <1>5
  <1>6. QED
    BY <1>1, <1>2, <1>5

\* The reader takes the next item.
LEMMA DequeueIs ==
  ASSUME StoreTypeOK, Dequeue
  PROVE  LET n == Len(popped) + 1 IN
         /\ Head(queue) \in Item
         /\ n \in DOMAIN Enqueued /\ Enqueued[n] = Head(queue)
         /\ popped' \in Seq(Item) /\ popped' # <<>> /\ Len(popped') = n
         /\ DOMAIN popped' = DOMAIN popped \cup {n} /\ n \notin DOMAIN popped /\ n \in Nat
         /\ \A i \in DOMAIN popped : i < n /\ popped'[i] = popped[i]
         /\ popped'[n] = Head(queue)
         /\ LastPopped' = Head(queue)
  <1> DEFINE n == Len(popped) + 1
  <1>1. popped \in Seq(Item) /\ queue \in Seq(Item) /\ queue # <<>> /\ popped' = Append(popped, Head(queue))
    BY DEF StoreTypeOK, Dequeue
  <1>2. Head(queue) \in Item /\ Head(queue) = queue[1] /\ Len(queue) \in Nat \ {0}
    BY <1>1, HeadTailProperties, EmptySeq
  <1>3. Len(popped) \in Nat /\ DOMAIN popped = 1 .. Len(popped)
    BY <1>1, LenProperties
  <1>4. /\ popped' \in Seq(Item) /\ popped' # <<>> /\ Len(popped') = n
        /\ \A i \in 1 .. Len(popped) : popped'[i] = popped[i]
        /\ popped'[n] = Head(queue)
    BY <1>1, <1>2, AppendProperties
  <1>5. DOMAIN popped' = 1 .. n
    BY <1>4, LenProperties
  <1>6. n \in Nat /\ DOMAIN popped' = DOMAIN popped \cup {n} /\ n \notin DOMAIN popped
        /\ \A i \in DOMAIN popped : i < n
    BY <1>3, <1>5
  <1>7. n \in DOMAIN Enqueued /\ Enqueued[n] = Head(queue)
    <2>1. /\ Len(Enqueued) = Len(popped) + Len(queue)
          /\ \A i \in 1 .. Len(popped) + Len(queue) :
               Enqueued[i] = IF i <= Len(popped) THEN popped[i] ELSE queue[i - Len(popped)]
      BY <1>1, ConcatProperties DEF Enqueued
    <2>2. DOMAIN Enqueued = 1 .. Len(Enqueued)
      BY EnqueuedType
    <2>3. n \in 1 .. Len(popped) + Len(queue) /\ ~(n <= Len(popped)) /\ n - Len(popped) = 1
      BY <1>2, <1>3
    <2>4. QED
      BY <1>2, <2>1, <2>2, <2>3
  <1>8. LastPopped' = Head(queue)
    BY <1>4 DEF LastPopped
  <1>9. QED
    BY <1>2, <1>3, <1>4, <1>6, <1>7, <1>8
=============================================================================
