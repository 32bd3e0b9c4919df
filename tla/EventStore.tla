----------------------------- MODULE EventStore -----------------------------
(***************************************************************************)
(* artdaq/DAQrate/EventStore: fragments are collected into RawEvents by a  *)
(* key computed from their sequence ID; complete events, flushed events    *)
(* and run markers are put on the bounded global queue, from which the art *)
(* reader thread takes them.  One operator per method; the modules that    *)
(* extend this one say who calls them and when.                            *)
(*                                                                         *)
(* enqTimedWait either finds room within its timeout or fails with the     *)
(* queue still full: the two outcomes are "room" and "Full".               *)
(***************************************************************************)
EXTENDS Integers, Sequences, FiniteSets, Functions

CONSTANTS
  FragmentsPerEvent,  \* num_fragments_per_event_
  QueueSize,          \* max_queue_size_
  SeqIDModulus,       \* seqIDModulus_
  FragmentIDs,        \* number of fragment IDs
  Width,              \* width of sequence_id_t in bits (64 in the code)
  MaxRun, MaxSeq      \* bounds: runs, and sequence IDs per run

ASSUME EventStoreAssumption ==
  /\ FragmentsPerEvent \in Nat \ {0}
  /\ QueueSize \in Nat \ {0}
  /\ SeqIDModulus \in Nat \ {0}
  /\ FragmentIDs \in Nat \ {0}
  /\ Width \in Nat \ {0}
  /\ 2 ^ Width \in Nat  \* said here, since the provers know nothing of powers
  /\ MaxRun \in Nat \ {0}
  /\ MaxSeq \in Nat \ {0}
  \* The sequence IDs and the modulus are far from filling the 64 bits.
  /\ MaxSeq + SeqIDModulus <= 2 ^ Width

VARIABLES
  run_id, subrun_id,
  events,            \* key -> RawEvent under construction
  lastFlushedSeqID,
  highestSeqIDSeen,
  queue,             \* the global RawEventQueue
  popped             \* what the reader took off the queue, in order (history)

storeVars == <<run_id, subrun_id, events, lastFlushedSeqID, highestSeqIDSeen, queue, popped>>

\* A fragment: the run it was taken in (history: the header does not carry it),
\* its sequence ID and its fragment ID.
Fragment == [run : 1 .. MaxRun, seq : 1 .. MaxSeq, id : 1 .. FragmentIDs]

\* A RawEvent; one of the markers that endSubrun, endRun and endOfData enqueue; or the
\* Init message that an aggregator enqueues.
Item == [kind : {"event", "endSubrun", "endRun", "endOfData", "init"},
         run : Nat, subrun : Nat, seq : Nat, frags : SUBSET Fragment]

StoreTypeOK ==
  /\ run_id \in 1 .. MaxRun
  /\ subrun_id \in Nat
  /\ DOMAIN events \subseteq 0 .. 2 ^ Width - 1
  /\ \A k \in DOMAIN events : events[k] \in Item
  /\ lastFlushedSeqID \in 0 .. MaxSeq
  /\ highestSeqIDSeen \in 0 .. MaxSeq
  /\ queue \in Seq(Item)
  /\ Len(queue) <= QueueSize
  /\ popped \in Seq(Item)

\* Constructed with run number 1.
StoreInit ==
  /\ run_id = 1
  /\ subrun_id = 0
  /\ events = [k \in {} |-> 0]
  /\ lastFlushedSeqID = 0
  /\ highestSeqIDSeen = 0
  /\ queue = <<>>
  /\ popped = <<>>

Full == Len(queue) >= QueueSize

-----------------------------------------------------------------------------

\* Mutant: the key relative to the highest sequence ID so far.
KeyFromHighest(seq) ==
  (((seq - (1 + highestSeqIDSeen)) % 2 ^ Width) \div SeqIDModulus + 1) % 2 ^ Width

\* The key of a sequence ID in events_, in unsigned arithmetic: the sequence ID of
\* a fragment that arrives after its event was flushed wraps around.
Key(seq) ==
  (((seq - (1 + lastFlushedSeqID)) % 2 ^ Width) \div SeqIDModulus + 1) % 2 ^ Width

RawEvent(seq) ==
  [kind |-> "event", run |-> run_id, subrun |-> subrun_id, seq |-> seq, frags |-> {}]

Marker(kind) ==
  [kind |-> kind, run |-> run_id, subrun |-> subrun_id, seq |-> 0, frags |-> {}]

\* The event of fragment f, f inserted.
EventWith(f) ==
  LET found == IF Key(f.seq) \in DOMAIN events THEN events[Key(f.seq)] ELSE RawEvent(f.seq)
  IN  [found EXCEPT !.frags = @ \cup {f}]

Completes(f) == Cardinality(EventWith(f).frags) = FragmentsPerEvent

\* insert(pfrag): a complete event leaves the map, and is lost if the queue stays full.
Insert(f) ==
  LET k == Key(f.seq)
  IN  /\ highestSeqIDSeen' = IF f.seq > highestSeqIDSeen THEN f.seq ELSE highestSeqIDSeen
      /\ IF Completes(f)
         THEN /\ events' = Restrict(events, DOMAIN events \ {k})
              /\ queue' = IF Full THEN queue ELSE Append(queue, EventWith(f))
         ELSE /\ events' = [j \in DOMAIN events \cup {k} |->
                              IF j = k THEN EventWith(f) ELSE events[j]]
              /\ UNCHANGED queue
      /\ UNCHANGED <<run_id, subrun_id, lastFlushedSeqID, popped>>

\* Mutant: the room in the queue is not tested.
InsertUntested(f) == Insert(f)

\* insert(pfrag, rejected): true.  False (queue full throughout) changes nothing.
InsertAccepted(f) == ~Full /\ Insert(f)

\* flushData: one event after the other in the order of the keys, ...
FlushEvent ==
  /\ ~Full
  /\ \E k \in DOMAIN events :
       /\ \A j \in DOMAIN events : k <= j
       /\ queue' = Append(queue, events[k])
       /\ events' = Restrict(events, DOMAIN events \ {k})
  /\ UNCHANGED <<run_id, subrun_id, lastFlushedSeqID, highestSeqIDSeen, popped>>

\* ... until none is left or one cannot be enqueued.
FlushReturn ==
  /\ DOMAIN events = {} \/ Full
  /\ lastFlushedSeqID' = highestSeqIDSeen
  /\ UNCHANGED <<run_id, subrun_id, events, highestSeqIDSeen, queue, popped>>

startRun(run) ==
  /\ run_id' = run
  /\ subrun_id' = 1
  /\ lastFlushedSeqID' = 0
  /\ highestSeqIDSeen' = 0
  /\ UNCHANGED <<events, queue, popped>>

\* Mutant: the next subrun keeps the number of the last.
startSubrunSame ==
  /\ run_id' = run_id
  /\ UNCHANGED <<subrun_id, events, lastFlushedSeqID, highestSeqIDSeen, queue, popped>>

startSubrun ==
  /\ subrun_id' = subrun_id + 1
  /\ UNCHANGED <<run_id, events, lastFlushedSeqID, highestSeqIDSeen, queue, popped>>

\* endSubrun, endRun and the first half of endOfData, when the marker is enqueued.
\* Against a full queue they return false and change nothing.
Enqueue(kind) ==
  /\ ~Full
  /\ queue' = Append(queue, Marker(kind))
  /\ UNCHANGED <<run_id, subrun_id, events, lastFlushedSeqID, highestSeqIDSeen, popped>>

\* The reader thread, which returns when it has taken the end-of-data marker.
ReaderDone == popped # <<>> /\ popped[Len(popped)].kind = "endOfData"
Dequeue ==
  /\ queue # <<>>
  /\ ~ReaderDone
  /\ queue' = Tail(queue)
  /\ popped' = Append(popped, Head(queue))
  /\ UNCHANGED <<run_id, subrun_id, events, lastFlushedSeqID, highestSeqIDSeen>>

-----------------------------------------------------------------------------
\* Views of the store that the properties share.

\* Everything that was put on the queue, in order.
Enqueued == popped \o queue
EnqueuedEvents == {i \in DOMAIN Enqueued : Enqueued[i].kind = "event"}

\* All RawEvents, wherever they are.
RawEvents == {Enqueued[i] : i \in EnqueuedEvents} \cup Range(events)

SameRun(ev) == \A f, g \in ev.frags : f.run = g.run
SameGroup(ev) == \A f, g \in ev.frags : f.seq - g.seq < SeqIDModulus

\* No event is enqueued after the marker that ends its subrun.
MarkersCloseSubruns ==
  \A i, j \in DOMAIN Enqueued :
    /\ Enqueued[i].kind = "endSubrun" /\ Enqueued[j].kind = "event"
    /\ <<Enqueued[i].run, Enqueued[i].subrun>> = <<Enqueued[j].run, Enqueued[j].subrun>>
    => j < i
=============================================================================
