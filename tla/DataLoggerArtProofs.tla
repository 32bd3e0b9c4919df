------------------------ MODULE DataLoggerArtProofs -------------------------
(***************************************************************************)
(* Proofs about the art job of the data logger: the event store as         *)
(* AggregatorCore uses it, read by NetMonTransportService and NetMonInput. *)
(***************************************************************************)
EXTENDS DataLoggerArt, EventStoreProofs

-----------------------------------------------------------------------------
(* The store, with its caller and its reader.                              *)

LEMMA ArtStepStore ==
  ASSUME ArtStep
  PROVE  (Dequeue \/ UNCHANGED storeVars) /\ UNCHANGED useVars
  BY DEF ArtStep, Construct, ConstructFails, ReadNextEvent, ReadNextEndSubRun, ReadNextClose, ReadNextEnd,
         ReceiveFragment, ReceiveItem, ReceiveNull

LEMMA AllUseStep == UseInv /\ [AllNext]_allVars => UseInv'
  <1> SUFFICES ASSUME UseInv, [AllNext]_allVars PROVE UseInv'
    OBVIOUS
  <1>0. client \in Clients /\ flushFailed \in BOOLEAN
    BY DEF UseInv, LossInv
  <1>1. CASE ReceiveInit
    <2>1. Enqueue("init") /\ UNCHANGED <<client, accepted, runs, flushFailed>>
      BY <1>1 DEF ReceiveInit, useVars
    <2>2. QED
      BY <1>0, <2>1, UseEnqueue
  <1>2. ASSUME NEW f \in Fragment, ReceiveEvent(f) PROVE UseInv'
    BY <1>2, UseInsert DEF ReceiveEvent
  <1>3. CASE FlushStore
    BY <1>3, UseStep DEF FlushStore, Next, Caller
  <1>4. CASE EndSession
    BY <1>4, UseStep DEF EndSession, Next, Caller
  <1>5. CASE Cut
    <2>1. /\ UNCHANGED <<storeVars, accepted, runs>>
          /\ client = "running" /\ client' = "ended"
          /\ flushFailed' = (flushFailed \/ DOMAIN events # {})
      BY <1>5 DEF Cut, Goto
    <2>2. QED
      BY <1>0, <2>1, UseMove DEF Clients
  <1>6. CASE StopRun
    <2>1. /\ UNCHANGED <<storeVars, runs, accepted, flushFailed>>
          /\ client = "ended" /\ client' = "idle"
      BY <1>6 DEF StopRun, Goto
    <2>2. QED
      BY <1>0, <2>1, UseMove DEF Clients
  <1>7. CASE Command
    BY <1>7, UseStep DEF Command, Next, Caller
  <1>8. CASE JoinArt
    <2>1. /\ UNCHANGED <<storeVars, runs, accepted, flushFailed>>
          /\ client = "joining" /\ client' = "shutdown"
      BY <1>8 DEF JoinArt, Goto
    <2>2. QED
      BY <1>0, <2>1, UseMove DEF Clients
  <1>9. CASE ArtStep
    <2>1. CASE Dequeue /\ UNCHANGED useVars
      BY <2>1, UseDequeue
    <2>2. CASE UNCHANGED storeVars /\ UNCHANGED useVars
      BY <2>2, UseStep DEF vars
    <2>3. QED
      BY <1>9, <2>1, <2>2, ArtStepStore
  <1>10. CASE UNCHANGED allVars
    BY <1>10, UseStep DEF allVars
  <1>11. QED
    BY <1>1, <1>2, <1>3, <1>4, <1>5, <1>6, <1>7, <1>8, <1>9, <1>10 DEF AllNext, CallerStep, AllTerminated

LEMMA AllUseStart == AllInit => UseInv
  BY UseStart DEF AllInit

\* The invariant of the store's caller, whatever art takes off the queue.
THEOREM LoggerStore == AllSpec => []UseInv
  BY AllUseStart, AllUseStep, PTL DEF AllSpec

\* As long as every flush has succeeded and no session was cut, a RawEvent of the data
\* logger has the messages of one run and of one group of sequence IDs.
THEOREM LoggerGroups == AllSpec => []GroupedBySequence
  <1>1. UseInv => GroupedBySequence
    BY DEF UseInv, TogetherInv
  <1>2. QED
    BY <1>1, LoggerStore, PTL

\* The data logger's store loses no message that it has accepted.
THEOREM LoggerLosesNothing == AllSpec => []NothingLost
  <1>1. UseInv => NothingLost
    BY DEF UseInv, LossInv, NothingLost, HeldOnce, Held
  <1>2. QED
    BY <1>1, LoggerStore, PTL
-----------------------------------------------------------------------------
(* What is on the queue.                                                   *)

SubrunOf(item) == <<item.run, item.subrun>>
Now == <<run_id, subrun_id>>

\* The items that belong to a subrun, by their place.
OfSubrun == {i \in DOMAIN Enqueued : Enqueued[i].kind \in {"event", "endSubrun"}}
InSubrun == {"running", "flushing", "flushed"}

ItemInv ==
  /\ \A i \in DOMAIN Enqueued : Enqueued[i].kind # "endRun"
  /\ \A i \in OfSubrun : Enqueued[i].run \in 1 .. runs /\ Enqueued[i].subrun >= 1
  /\ \A i \in DOMAIN Enqueued : Enqueued[i].frags # {} <=> Enqueued[i].kind = "event"
  /\ \A k \in DOMAIN events :
       events[k].run \in 1 .. runs /\ events[k].subrun >= 1 /\ events[k].frags # {}
  /\ client \in InSubrun \cup {"ended"} => run_id = runs /\ subrun_id >= 1
  /\ runs = 0 => run_id = 1

\* The first item is the Init, without which nothing comes but the end of data.
InitInv ==
  /\ art_initialized_ \in BOOLEAN
  /\ art_initialized_ => Enqueued # <<>> /\ Enqueued[1].kind = "init"
  /\ \A i \in DOMAIN Enqueued : Enqueued[i].kind = "init" => i = 1
  /\ ~art_initialized_ =>
       /\ \A i \in DOMAIN Enqueued : Enqueued[i].kind = "endOfData"
       /\ DOMAIN events = {}
       /\ client \notin {"flushing", "flushed"}

\* The last item is the end of data.
EndInv ==
  /\ \A i \in DOMAIN Enqueued : Enqueued[i].kind = "endOfData" =>
       i = Len(Enqueued) /\ client \in {"joining", "shutdown"}
  /\ client \in {"joining", "shutdown"} =>
       Enqueued # <<>> /\ Enqueued[Len(Enqueued)].kind = "endOfData"

\* The subruns are on the queue in order, and nothing of them after their end.
OrderInv ==
  ~flushFailed =>
    /\ \A i, j \in OfSubrun : i < j =>
         \/ Before(SubrunOf(Enqueued[i]), SubrunOf(Enqueued[j]))
         \/ SubrunOf(Enqueued[i]) = SubrunOf(Enqueued[j]) /\ Enqueued[i].kind # "endSubrun"
    /\ \A i \in OfSubrun :
         Before(SubrunOf(Enqueued[i]), Now) \/ SubrunOf(Enqueued[i]) = Now
    /\ client \in InSubrun =>
         \A i \in OfSubrun : Enqueued[i].kind = "endSubrun" => Before(SubrunOf(Enqueued[i]), Now)

\* A run is over, or one of its subruns has yet to end, after each of its events; unless
\* the message that ends the last one is missing.
ClosedInv ==
  /\ unended \subseteq Nat
  /\ ~flushFailed =>
       \A i \in EnqueuedEvents :
         \/ Enqueued[i].run \in unended
         \/ Enqueued[i].run = run_id /\ client \in InSubrun
         \/ \E k \in OfSubrun :
              i < k /\ Enqueued[k].kind = "endSubrun" /\ Enqueued[k].run = Enqueued[i].run

\* A fragment is in an event of its own subrun.
PlacedInv ==
  /\ DOMAIN subrunOf = accepted
  /\ ~flushFailed => \A ev \in RawEvents : \A f \in ev.frags : subrunOf[f] = SubrunOf(ev)

QueueInv == ItemInv /\ InitInv /\ EndInv /\ OrderInv /\ ClosedInv /\ PlacedInv

-----------------------------------------------------------------------------
(* What art has made of it.                                                *)

\* After the item that was taken last, art is at its subrun, or at the flush subrun.
AfterItem(item) ==
  \/ item.kind = "init" /\ inSR = NoSubrun /\ open = NoSubrun
  \/ item.kind = "event" /\ inSR = SubrunOf(item) /\ open = SubrunOf(item)
  \/ item.kind = "endSubrun" /\ inSR = FlushSubrun /\ open = NoSubrun

PlaceInv ==
  /\ inSR[1] = inR
  /\ constructed \in BOOLEAN /\ shutdownMsgReceived_ \in BOOLEAN /\ outputFileCloseNeeded_ \in BOOLEAN
  /\ ~constructed =>
       /\ popped = <<>> /\ recvd_fragments_ = {}
       /\ inSR = NoSubrun /\ open = NoSubrun
       /\ ~outputFileCloseNeeded_ /\ ~shutdownMsgReceived_
  /\ constructed => popped # <<>>
  /\ constructed /\ ~shutdownMsgReceived_ => AfterItem(LastPopped)
  /\ recvd_fragments_ # {} => LastPopped.kind = "event" /\ recvd_fragments_ \subseteq LastPopped.frags
  /\ outputFileCloseNeeded_ => LastPopped.kind = "endSubrun"
  /\ shutdownMsgReceived_ <=> ReaderDone
  /\ shutdownMsgReceived_ => open = NoSubrun

PoppedEvents == {i \in DOMAIN popped : popped[i].kind = "event"}
Taken == UNION {popped[i].frags : i \in PoppedEvents}
Seen == {SubrunOf(popped[i]) : i \in PoppedEvents}

Call ==
  [call : {"write"}, subrun : Int \X Int, event : Fragment]
    \cup [call : {"writeSubRun"}, subrun : Int \X Int]

\* All that art has taken has been written, but for the rest of the last RawEvent.
RecordInv ==
  /\ written \in Seq(Call)
  /\ {written[i].event : i \in Written("write")} = Taken \ recvd_fragments_
  /\ EndedSubruns \cup ({open} \ {NoSubrun}) = Seen

\* Why art may have complained.
Excused ==
  \/ ~art_initialized_ /\ client \in {"joining", "shutdown"}
  \/ flushFailed
  \/ \E run \in unended : run < run_id

DoneInv == client = "shutdown" => shutdownMsgReceived_ \/ complained

LoggerInv ==
  /\ UseInv /\ QueueInv /\ DoneInv
  /\ complained \in BOOLEAN
  /\ complained => Excused
  /\ ~flushFailed /\ ~complained => PlaceInv /\ RecordInv
-----------------------------------------------------------------------------
(* The caller keeps the queue in order.                                    *)

LEMMA SameItems ==
  ASSUME Enqueued' = Enqueued
  PROVE  OfSubrun' = OfSubrun /\ EnqueuedEvents' = EnqueuedEvents
  BY DEF OfSubrun, EnqueuedEvents

LEMMA NewItem ==
  ASSUME StoreTypeOK, NEW e \in Item, queue' = Append(queue, e), popped' = popped
  PROVE  LET n == Len(Enqueued) + 1 IN
         /\ n \in Nat /\ Enqueued'[n] = e /\ Len(Enqueued') = n /\ Enqueued' # <<>>
         /\ DOMAIN Enqueued' = DOMAIN Enqueued \cup {n}
         /\ \A i \in DOMAIN Enqueued : i \in Nat /\ i < n /\ Enqueued'[i] = Enqueued[i]
         /\ OfSubrun \subseteq DOMAIN Enqueued /\ EnqueuedEvents \subseteq OfSubrun
         /\ OfSubrun' = OfSubrun \cup (IF e.kind \in {"event", "endSubrun"} THEN {n} ELSE {})
         /\ EnqueuedEvents' = EnqueuedEvents \cup (IF e.kind = "event" THEN {n} ELSE {})
  <1> DEFINE n == Len(Enqueued) + 1
  <1>1. /\ n \in Nat /\ Enqueued'[n] = e /\ Len(Enqueued') = n /\ Enqueued' # <<>>
        /\ DOMAIN Enqueued' = DOMAIN Enqueued \cup {n}
        /\ \A i \in DOMAIN Enqueued : i \in Nat /\ i < n /\ Enqueued'[i] = Enqueued[i]
        /\ EnqueuedEvents' = EnqueuedEvents \cup (IF e.kind = "event" THEN {n} ELSE {})
    BY NewPlace
  <1>2. OfSubrun' = OfSubrun \cup (IF e.kind \in {"event", "endSubrun"} THEN {n} ELSE {})
    BY <1>1 DEF OfSubrun
  <1>3. OfSubrun \subseteq DOMAIN Enqueued /\ EnqueuedEvents \subseteq OfSubrun
    BY DEF OfSubrun, EnqueuedEvents
  <1>4. QED
    BY <1>1, <1>2, <1>3

\* The numbers of the items are numbers.
LEMMA Numbers ==
  ASSUME UseInv
  PROVE  /\ runs \in Nat /\ run_id \in Nat /\ subrun_id \in Nat
         /\ \A i \in DOMAIN Enqueued :
              /\ i \in Nat /\ Enqueued[i] \in Item
              /\ Enqueued[i].run \in Nat /\ Enqueued[i].subrun \in Nat
  <1>1. StoreTypeOK /\ runs \in Nat
    BY DEF UseInv, LossInv
  <1>2. QED
    BY <1>1, EnqueuedType DEF StoreTypeOK, Item

\* What a step puts on the queue, at most one item at its end, ...
LEMMA ItemAppend ==
  ASSUME StoreTypeOK, ItemInv, NEW e \in Item, queue' = Append(queue, e), popped' = popped,
         e.kind # "endRun",
         e.kind \in {"event", "endSubrun"} => e.run \in 1 .. runs /\ e.subrun >= 1,
         e.frags # {} <=> e.kind = "event",
         UNCHANGED <<runs, run_id, subrun_id>>,
         client' \in InSubrun \cup {"ended"} => client \in InSubrun \cup {"ended"},
         \A k \in DOMAIN events' :
           events'[k].run \in 1 .. runs /\ events'[k].subrun >= 1 /\ events'[k].frags # {}
  PROVE  ItemInv'
  <1> DEFINE n == Len(Enqueued) + 1
  <1>1. /\ Enqueued'[n] = e
        /\ DOMAIN Enqueued' = DOMAIN Enqueued \cup {n}
        /\ \A i \in DOMAIN Enqueued : i \in Nat /\ i < n /\ Enqueued'[i] = Enqueued[i]
        /\ OfSubrun \subseteq DOMAIN Enqueued /\ EnqueuedEvents \subseteq OfSubrun
        /\ OfSubrun' = OfSubrun \cup (IF e.kind \in {"event", "endSubrun"} THEN {n} ELSE {})
        /\ EnqueuedEvents' = EnqueuedEvents \cup (IF e.kind = "event" THEN {n} ELSE {})
    BY NewItem
  <1> HIDE DEF n
  <1>2. \A i \in DOMAIN Enqueued' : Enqueued'[i].kind # "endRun"
    BY <1>1 DEF ItemInv
  <1>3. \A i \in OfSubrun' : Enqueued'[i].run \in 1 .. runs' /\ Enqueued'[i].subrun >= 1
    BY <1>1 DEF ItemInv
  <1>4. \A i \in DOMAIN Enqueued' : Enqueued'[i].frags # {} <=> Enqueued'[i].kind = "event"
    BY <1>1 DEF ItemInv
  <1>5. QED
    BY <1>2, <1>3, <1>4 DEF ItemInv

LEMMA InitAppend ==
  ASSUME StoreTypeOK, InitInv, EndInv, NEW e \in Item, queue' = Append(queue, e), popped' = popped,
         \/ /\ e.kind # "init" /\ art_initialized_' = art_initialized_
            /\ art_initialized_ \/ (e.kind = "endOfData" /\ DOMAIN events' = {} /\ client' = "joining")
         \/ e.kind = "init" /\ art_initialized_' = TRUE /\ ~art_initialized_ /\ client = "running"
  PROVE  InitInv'
  <1> DEFINE n == Len(Enqueued) + 1
  <1>1. /\ n \in Nat /\ Enqueued'[n] = e /\ Enqueued' # <<>>
        /\ DOMAIN Enqueued' = DOMAIN Enqueued \cup {n}
        /\ \A i \in DOMAIN Enqueued : i \in Nat /\ i < n /\ Enqueued'[i] = Enqueued[i]
    BY NewItem
  <1>2. Len(Enqueued) \in Nat /\ DOMAIN Enqueued = 1 .. Len(Enqueued) /\ (Enqueued # <<>> => Len(Enqueued) # 0)
    BY EnqueuedType, EmptySeq
  <1>3. CASE e.kind # "init" /\ art_initialized_' = art_initialized_
             /\ (art_initialized_ \/ (e.kind = "endOfData" /\ DOMAIN events' = {} /\ client' = "joining"))
    <2>1. art_initialized_ => Enqueued'[1].kind = "init"
      <3>1. art_initialized_ => 1 \in DOMAIN Enqueued
        BY <1>2 DEF InitInv
      <3>2. QED
        BY <1>1, <3>1 DEF InitInv
    <2>2. \A i \in DOMAIN Enqueued' : Enqueued'[i].kind = "init" => i = 1
      BY <1>1, <1>3 DEF InitInv
    <2>3. ~art_initialized_ => \A i \in DOMAIN Enqueued' : Enqueued'[i].kind = "endOfData"
      BY <1>1, <1>3 DEF InitInv
    <2>4. QED
      BY <1>1, <1>3, <2>1, <2>2, <2>3 DEF InitInv
  <1>4. CASE e.kind = "init" /\ art_initialized_' = TRUE /\ ~art_initialized_ /\ client = "running"
    <2>1. DOMAIN Enqueued = {}
      BY <1>4 DEF InitInv, EndInv
    <2>2. n = 1
      BY <1>2, <2>1
    <2>3. QED
      BY <1>1, <1>4, <2>1, <2>2 DEF InitInv
  <1>5. QED
    BY <1>3, <1>4

LEMMA EndAppend ==
  ASSUME StoreTypeOK, EndInv, NEW e \in Item, queue' = Append(queue, e), popped' = popped,
         client \notin {"joining", "shutdown"},
         client' \in {"joining", "shutdown"} <=> e.kind = "endOfData"
  PROVE  EndInv'
  BY NewItem DEF EndInv

\* ... of the current subrun.
LEMMA OrderAppend ==
  ASSUME UseInv, OrderInv, NEW e \in Item, queue' = Append(queue, e), popped' = popped,
         flushFailed' = flushFailed,
         UNCHANGED <<run_id, subrun_id>>,
         e.kind \in {"event", "endSubrun"} /\ ~flushFailed =>
           SubrunOf(e) = Now /\ client \in InSubrun,
         e.kind = "endSubrun" => client' \notin InSubrun,
         client' \in InSubrun => client \in InSubrun
  PROVE  OrderInv'
  <1> SUFFICES ASSUME ~flushFailed'
               PROVE  OrderInv'
    BY DEF OrderInv
  <1> DEFINE n == Len(Enqueued) + 1
  <1>1. /\ n \in Nat /\ Enqueued'[n] = e
        /\ \A i \in DOMAIN Enqueued : i \in Nat /\ i < n /\ Enqueued'[i] = Enqueued[i]
        /\ OfSubrun \subseteq DOMAIN Enqueued
        /\ OfSubrun' = OfSubrun \cup (IF e.kind \in {"event", "endSubrun"} THEN {n} ELSE {})
    BY NewItem DEF UseInv, LossInv
  <1> HIDE DEF n
  <1>2. ~flushFailed /\ Now' = Now
    BY DEF Now
  <1>3. ASSUME NEW i \in OfSubrun', NEW j \in OfSubrun', i < j
        PROVE  \/ Before(SubrunOf(Enqueued'[i]), SubrunOf(Enqueued'[j]))
               \/ SubrunOf(Enqueued'[i]) = SubrunOf(Enqueued'[j]) /\ Enqueued'[i].kind # "endSubrun"
    <2>1. i \in OfSubrun /\ Enqueued'[i] = Enqueued[i]
      <3>1. j <= n
        BY <1>1
      <3>2. QED
        BY <1>1, <1>3, <3>1
    <2>2. CASE j \in OfSubrun
      BY <1>1, <1>2, <1>3, <2>1, <2>2 DEF OrderInv
    <2>3. CASE j = n /\ e.kind \in {"event", "endSubrun"}
      <3>1. Enqueued'[j] = e /\ SubrunOf(e) = Now /\ client \in InSubrun
        BY <1>1, <1>2, <2>3
      <3>2. /\ Before(SubrunOf(Enqueued[i]), Now) \/ SubrunOf(Enqueued[i]) = Now
            /\ Enqueued[i].kind = "endSubrun" => Before(SubrunOf(Enqueued[i]), Now)
        BY <1>2, <2>1, <3>1 DEF OrderInv
      <3>3. QED
        BY <2>1, <3>1, <3>2
    <2>4. QED
      BY <1>1, <2>2, <2>3
  <1>4. ASSUME NEW i \in OfSubrun'
        PROVE  Before(SubrunOf(Enqueued'[i]), Now) \/ SubrunOf(Enqueued'[i]) = Now
    <2>1. CASE i \in OfSubrun
      BY <1>1, <1>2, <2>1 DEF OrderInv
    <2>2. CASE i = n /\ e.kind \in {"event", "endSubrun"}
      BY <1>1, <1>2, <2>2
    <2>3. QED
      BY <1>1, <2>1, <2>2
  <1>5. ASSUME client' \in InSubrun, NEW i \in OfSubrun', Enqueued'[i].kind = "endSubrun"
        PROVE  Before(SubrunOf(Enqueued'[i]), Now)
    BY <1>1, <1>2, <1>5 DEF OrderInv
  <1>6. QED
    BY <1>2, <1>3, <1>4, <1>5 DEF OrderInv

LEMMA ClosedAppend ==
  ASSUME StoreTypeOK, ClosedInv, NEW e \in Item, queue' = Append(queue, e), popped' = popped,
         flushFailed' = flushFailed, run_id' = run_id,
         e.kind = "event" /\ ~flushFailed => e.run = run_id /\ client' \in InSubrun,
         \/ unended' = unended /\ (client \in InSubrun => client' \in InSubrun)
         \/ e.kind = "endSubrun" /\ e.run = run_id /\ unended' = unended \ {run_id}
  PROVE  ClosedInv'
  <1> DEFINE n == Len(Enqueued) + 1
  <1>1. /\ n \in Nat /\ Enqueued'[n] = e
        /\ \A i \in DOMAIN Enqueued : i \in Nat /\ i < n /\ Enqueued'[i] = Enqueued[i]
        /\ OfSubrun \subseteq DOMAIN Enqueued /\ EnqueuedEvents \subseteq OfSubrun
        /\ OfSubrun' = OfSubrun \cup (IF e.kind \in {"event", "endSubrun"} THEN {n} ELSE {})
        /\ EnqueuedEvents' = EnqueuedEvents \cup (IF e.kind = "event" THEN {n} ELSE {})
    BY NewItem
  <1> HIDE DEF n
  <1>2. unended' \subseteq Nat
    BY DEF ClosedInv
  <1>3. ASSUME ~flushFailed, NEW i \in EnqueuedEvents'
        PROVE  \/ Enqueued'[i].run \in unended'
               \/ Enqueued'[i].run = run_id' /\ client' \in InSubrun'
               \/ \E k \in OfSubrun' :
                    i < k /\ Enqueued'[k].kind = "endSubrun" /\ Enqueued'[k].run = Enqueued'[i].run
    <2>0. InSubrun' = InSubrun
      BY DEF InSubrun
    <2>1. CASE i = n /\ e.kind = "event"
      BY <1>1, <1>3, <2>0, <2>1
    <2>2. CASE i \in EnqueuedEvents
      <3>1. /\ Enqueued'[i] = Enqueued[i] /\ i < n
            /\ \/ Enqueued[i].run \in unended
               \/ Enqueued[i].run = run_id /\ client \in InSubrun
               \/ \E k \in OfSubrun :
                    i < k /\ Enqueued[k].kind = "endSubrun" /\ Enqueued[k].run = Enqueued[i].run
        BY <1>1, <1>3, <2>2 DEF ClosedInv
      <3>2. CASE \E k \in OfSubrun :
                   i < k /\ Enqueued[k].kind = "endSubrun" /\ Enqueued[k].run = Enqueued[i].run
        BY <1>1, <3>1, <3>2
      <3>3. CASE e.kind = "endSubrun" /\ e.run = run_id /\ Enqueued[i].run = run_id
        <4>1. n \in OfSubrun' /\ Enqueued'[n].kind = "endSubrun" /\ Enqueued'[n].run = Enqueued'[i].run
          BY <1>1, <3>1, <3>3
        <4>2. QED
          BY <3>1, <4>1
      <3>4. QED
        BY <2>0, <3>1, <3>2, <3>3
    <2>3. QED
      BY <1>1, <2>1, <2>2
  <1>4. QED
    BY <1>2, <1>3 DEF ClosedInv

\* The queue stays as it is.
LEMMA KeepQueue ==
  ASSUME UseInv, QueueInv, UNCHANGED <<queue, popped, run_id, subrun_id, runs, art_initialized_>>,
         \A k \in DOMAIN events' :
           events'[k].run \in 1 .. runs /\ events'[k].subrun >= 1 /\ events'[k].frags # {},
         flushFailed => flushFailed',
         client' \in InSubrun \cup {"ended"} => client \in InSubrun \cup {"ended"},
         client' \in InSubrun => client \in InSubrun,
         client' \in {"joining", "shutdown"} <=> client \in {"joining", "shutdown"},
         ~art_initialized_ => DOMAIN events' = {} /\ client' \notin {"flushing", "flushed"},
         \/ unended' = unended /\ (client \in InSubrun => client' \in InSubrun)
         \/ unended' = unended \cup {run_id},
         PlacedInv'
  PROVE  QueueInv'
  <1>1. Enqueued' = Enqueued
    BY DEF Enqueued
  <1>2. OfSubrun' = OfSubrun /\ EnqueuedEvents' = EnqueuedEvents /\ InSubrun' = InSubrun
    BY <1>1, SameItems DEF InSubrun
  <1>3. ItemInv'
    BY <1>1, <1>2 DEF QueueInv, ItemInv
  <1>4. InitInv'
    BY <1>1 DEF QueueInv, InitInv
  <1>5. EndInv'
    BY <1>1 DEF QueueInv, EndInv
  <1>6. flushFailed \in BOOLEAN
    BY DEF UseInv, LossInv
  <1>7. OrderInv'
    BY <1>1, <1>2, <1>6 DEF QueueInv, OrderInv, Now
  <1>8. ClosedInv'
    <2>1. unended' \subseteq Nat
      BY Numbers DEF QueueInv, ClosedInv
    <2>2. QED
      BY <1>1, <1>2, <1>6, <2>1 DEF QueueInv, ClosedInv
  <1>9. QED
    BY <1>3, <1>4, <1>5, <1>7, <1>8 DEF QueueInv

\* No fragment gets into another event.
LEMMA PlacedMove ==
  ASSUME PlacedInv, UNCHANGED <<subrunOf, accepted, RawEvents>>, flushFailed => flushFailed',
         flushFailed \in BOOLEAN
  PROVE  PlacedInv'
  BY DEF PlacedInv

LEMMA PlacedInsert ==
  ASSUME UseInv, PlacedInv, NEW f \in Fragment, ReceiveEvent(f)
  PROVE  PlacedInv'
  <1> DEFINE e == EventWith(f)
             k == Key(f.seq)
  <1>1. /\ InsertAccepted(f) /\ f \notin accepted /\ accepted' = accepted \cup {f}
        /\ flushFailed' = flushFailed
        /\ subrunOf' = [g \in accepted' |-> IF g = f THEN Now ELSE subrunOf[g]]
    BY DEF ReceiveEvent, InsertFragment, Now
  <1>2. /\ StoreTypeOK /\ MapInv /\ accepted = Held /\ OpenInv
    BY DEF UseInv, LossInv, TogetherInv
  <1>3. DOMAIN subrunOf' = accepted'
    BY <1>1
  <1>4. ASSUME ~flushFailed, NEW ev \in RawEvents', NEW g \in ev.frags
        PROVE  subrunOf'[g] = SubrunOf(ev)
    <2>1. \A d \in RawEvents : \A h \in d.frags : h \in accepted /\ h # f /\ subrunOf'[h] = SubrunOf(d)
      <3>1. \A d \in RawEvents : \A h \in d.frags : h \in accepted
        BY <1>2 DEF Held
      <3>2. QED
        BY <1>1, <1>4, <3>1 DEF PlacedInv
    <2>2. CASE ev = e
      <3>1. e.run = run_id /\ e.subrun = subrun_id /\ SubrunOf(e) = Now
        BY <1>2, <1>4, EventWithIs DEF OpenInv, SubrunOf, Now
      <3>2. CASE g = f
        BY <1>1, <2>2, <3>1, <3>2
      <3>3. CASE g # f
        <4>1. k \in DOMAIN events /\ g \in events[k].frags
          BY <1>2, <1>4, <2>2, <3>3, EventWithIs
        <4>2. SubrunOf(events[k]) = SubrunOf(e)
          BY <1>2, <4>1, EventWithIs DEF SubrunOf
        <4>3. events[k] \in RawEvents
          BY <4>1, RawEventsAre
        <4>4. QED
          BY <2>1, <2>2, <4>1, <4>2, <4>3
      <3>4. QED
        BY <3>2, <3>3
    <2>3. CASE ev # e
      <3>1. ev \in RawEvents
        BY <1>1, <1>2, <2>3, InsertRaw, RawEventsAre
      <3>2. QED
        BY <1>4, <2>1, <3>1
    <2>4. QED
      BY <2>2, <2>3
  <1>5. QED
    BY <1>1, <1>3, <1>4 DEF PlacedInv

\* A new run or subrun is later than all that is on the queue.
LEMMA BeginQueue ==
  ASSUME UseInv, QueueInv, StartRun \/ StartSubrun, UNCHANGED loggerVars
  PROVE  QueueInv'
  <1>1. runs \in Nat /\ run_id \in Nat /\ subrun_id \in Nat /\ flushFailed \in BOOLEAN
    BY Numbers DEF UseInv, LossInv
  <1>2. /\ UNCHANGED <<events, queue, popped, flushFailed, accepted>> /\ client' = "running"
        /\ client \in {"idle", "ended"}
        /\ \/ run_id' = runs + 1 /\ runs' = runs + 1 /\ subrun_id' = 1
           \/ run_id' = run_id /\ runs' = runs /\ subrun_id' = subrun_id + 1 /\ client = "ended"
        /\ UNCHANGED <<art_initialized_, subrunOf, unended>>
    BY DEF StartRun, StartSubrun, startRun, startSubrun, Goto, loggerVars
  <1>3. Enqueued' = Enqueued /\ RawEvents' = RawEvents
    BY <1>2, UnchangedHeld
  <1>4. OfSubrun' = OfSubrun /\ EnqueuedEvents' = EnqueuedEvents /\ InSubrun' = InSubrun
    BY <1>3, SameItems DEF InSubrun
  <1>5. OfSubrun \subseteq DOMAIN Enqueued
    BY DEF OfSubrun
  <1>6. \A i \in DOMAIN Enqueued : Enqueued[i].run \in Nat /\ Enqueued[i].subrun \in Nat
    BY Numbers
  <1>7. ItemInv'
    <2>1. 1 .. runs \subseteq 1 .. runs'
      BY <1>1, <1>2
    <2>2. run_id' = runs' /\ subrun_id' >= 1
      BY <1>1, <1>2 DEF QueueInv, ItemInv
    <2>3. runs' = 0 => run_id' = 1
      BY <1>1, <1>2 DEF QueueInv, ItemInv
    <2>4. QED
      BY <1>2, <1>3, <1>4, <2>1, <2>2, <2>3 DEF QueueInv, ItemInv
  <1>8. InitInv' /\ EndInv'
    BY <1>2, <1>3 DEF QueueInv, InitInv, EndInv
  <1>9. OrderInv'
    <2> SUFFICES ASSUME ~flushFailed'
                 PROVE  OrderInv'
      BY DEF OrderInv
    <2>1. ~flushFailed
      BY <1>2
    <2>2. \A i \in OfSubrun : Before(SubrunOf(Enqueued[i]), <<run_id', subrun_id'>>)
      <3>1. CASE run_id' = runs + 1
        BY <1>1, <1>5, <1>6, <3>1 DEF Before, SubrunOf, QueueInv, ItemInv
      <3>2. CASE run_id' = run_id /\ subrun_id' = subrun_id + 1
        <4>1. \A i \in OfSubrun : \/ Before(SubrunOf(Enqueued[i]), <<run_id, subrun_id>>)
                                  \/ SubrunOf(Enqueued[i]) = <<run_id, subrun_id>>
          BY <2>1 DEF QueueInv, OrderInv, Now
        <4>2. QED
          BY <1>1, <1>5, <1>6, <3>2, <4>1 DEF Before, SubrunOf
      <3>3. QED
        BY <1>2, <3>1, <3>2
    <2>3. QED
      BY <1>3, <1>4, <2>1, <2>2 DEF QueueInv, OrderInv, Now
  <1>10. ClosedInv'
    BY <1>2, <1>3, <1>4 DEF QueueInv, ClosedInv, InSubrun
  <1>11. PlacedInv'
    BY <1>1, <1>2, <1>3, PlacedMove DEF QueueInv
  <1>12. QED
    BY <1>7, <1>8, <1>9, <1>10, <1>11 DEF QueueInv

\* The events of the store, by the numbers of their subruns.
LEMMA EventsAre ==
  ASSUME UseInv, ItemInv
  PROVE  /\ \A k \in DOMAIN events :
              /\ events[k] \in Item /\ events[k].kind = "event"
              /\ events[k].run \in 1 .. runs /\ events[k].subrun >= 1 /\ events[k].frags # {}
              /\ ~flushFailed => SubrunOf(events[k]) = Now /\ events[k].run = run_id
         /\ client = "running" =>
              \A f \in Fragment :
                /\ EventWith(f) \in Item /\ EventWith(f).kind = "event"
                /\ EventWith(f).run \in 1 .. runs /\ EventWith(f).subrun >= 1
                /\ EventWith(f).frags # {}
                /\ ~flushFailed => SubrunOf(EventWith(f)) = Now /\ EventWith(f).run = run_id
  <1>1. StoreTypeOK /\ MapInv /\ OpenInv /\ NumberInv
    BY DEF UseInv, LossInv, TogetherInv
  <1>2. ASSUME NEW k \in DOMAIN events
        PROVE  /\ events[k] \in Item /\ events[k].kind = "event"
               /\ events[k].run \in 1 .. runs /\ events[k].subrun >= 1 /\ events[k].frags # {}
               /\ ~flushFailed => SubrunOf(events[k]) = Now /\ events[k].run = run_id
    BY <1>1 DEF StoreTypeOK, MapInv, OpenInv, ItemInv, SubrunOf, Now
  <1>3. ASSUME client = "running", NEW f \in Fragment
        PROVE  /\ EventWith(f) \in Item /\ EventWith(f).kind = "event"
               /\ EventWith(f).run \in 1 .. runs /\ EventWith(f).subrun >= 1
               /\ EventWith(f).frags # {}
               /\ ~flushFailed => SubrunOf(EventWith(f)) = Now /\ EventWith(f).run = run_id
    <2>1. run_id = runs /\ run_id \in 1 .. runs /\ subrun_id >= 1
      BY <1>1, <1>3, Numbers DEF ItemInv, NumberInv, InSubrun
    <2>2. CASE Key(f.seq) \in DOMAIN events
      <3>1. /\ EventWith(f) \in Item /\ EventWith(f).kind = "event" /\ EventWith(f).frags # {}
            /\ EventWith(f).run = events[Key(f.seq)].run
            /\ EventWith(f).subrun = events[Key(f.seq)].subrun
        BY <1>1, <2>2, EventWithIs
      <3>2. QED
        BY <1>2, <2>2, <3>1 DEF SubrunOf
    <2>3. CASE Key(f.seq) \notin DOMAIN events
      <3>1. /\ EventWith(f) \in Item /\ EventWith(f).kind = "event" /\ EventWith(f).frags # {}
            /\ EventWith(f).run = run_id /\ EventWith(f).subrun = subrun_id
        BY <1>1, <2>3, EventWithIs
      <3>2. QED
        BY <2>1, <3>1 DEF SubrunOf, Now
    <2>4. QED
      BY <2>2, <2>3
  <1>4. QED
    BY <1>2, <1>3

\* An event leaves the store for the queue.
LEMMA EventQueue ==
  ASSUME UseInv, QueueInv, NEW e \in Item, queue' = Append(queue, e), e.kind = "event",
         e.run \in 1 .. runs, e.subrun >= 1, e.frags # {},
         ~flushFailed => SubrunOf(e) = Now /\ e.run = run_id,
         client \in InSubrun, art_initialized_,
         UNCHANGED <<popped, run_id, subrun_id, client, runs, flushFailed, art_initialized_, unended>>,
         \A k \in DOMAIN events' : k \in DOMAIN events /\ events'[k] = events[k],
         PlacedInv'
  PROVE  QueueInv'
  <1>1. StoreTypeOK /\ ItemInv /\ client \notin {"joining", "shutdown"}
    BY DEF UseInv, LossInv, QueueInv, InSubrun
  <1>2. \A k \in DOMAIN events' :
          events'[k].run \in 1 .. runs /\ events'[k].subrun >= 1 /\ events'[k].frags # {}
    BY <1>1 DEF ItemInv
  <1>3. ItemInv'
    BY <1>1, <1>2, ItemAppend
  <1>4. InitInv'
    BY <1>1, InitAppend DEF QueueInv
  <1>5. EndInv'
    BY <1>1, EndAppend DEF QueueInv
  <1>6. OrderInv'
    BY OrderAppend DEF QueueInv
  <1>7. ClosedInv'
    BY <1>1, ClosedAppend DEF QueueInv
  <1>8. QED
    BY <1>3, <1>4, <1>5, <1>6, <1>7 DEF QueueInv

LEMMA InsertQueue ==
  ASSUME UseInv, QueueInv, NEW f \in Fragment, ReceiveEvent(f)
  PROVE  QueueInv'
  <1>1. /\ client = "running" /\ art_initialized_ /\ InsertAccepted(f)
        /\ UNCHANGED <<client, runs, flushFailed, art_initialized_, unended>>
    BY DEF ReceiveEvent, InsertFragment
  <1>2. UNCHANGED <<run_id, subrun_id, popped>>
    BY <1>1, InsertIs
  <1>3. PlacedInv' /\ ItemInv
    BY PlacedInsert DEF QueueInv
  <1> DEFINE e == EventWith(f)
             k == Key(f.seq)
  <1>4. /\ e \in Item /\ e.kind = "event"
        /\ e.run \in 1 .. runs /\ e.subrun >= 1 /\ e.frags # {}
        /\ ~flushFailed => SubrunOf(e) = Now /\ e.run = run_id
    BY <1>1, <1>3, EventsAre
  <1>5. CASE /\ DOMAIN events' = DOMAIN events \ {k}
             /\ \A j \in DOMAIN events' : events'[j] = events[j]
             /\ queue' = Append(queue, e)
    <2> HIDE DEF e, k
    <2>1. QED
      BY <1>1, <1>2, <1>3, <1>4, <1>5, EventQueue DEF InSubrun
  <1>6. CASE /\ DOMAIN events' = DOMAIN events \cup {k}
             /\ events'[k] = e /\ \A j \in DOMAIN events' \ {k} : events'[j] = events[j]
             /\ queue' = queue
    <2> HIDE DEF e, k
    <2>1. \A j \in DOMAIN events' :
            events'[j].run \in 1 .. runs /\ events'[j].subrun >= 1 /\ events'[j].frags # {}
      BY <1>3, <1>4, <1>6 DEF ItemInv
    <2>2. QED
      BY <1>1, <1>2, <1>3, <1>6, <2>1, KeepQueue
  <1>7. QED
    BY <1>1, <1>5, <1>6, InsertIs

LEMMA FlushQueue ==
  ASSUME UseInv, QueueInv, FlushStore
  PROVE  QueueInv'
  <1>0. /\ art_initialized_ /\ UNCHANGED <<art_initialized_, subrunOf, unended>>
        /\ flushFailed \in BOOLEAN /\ StoreTypeOK /\ MapInv /\ HeldOnce /\ ItemInv /\ PlacedInv
    BY DEF FlushStore, loggerVars, UseInv, LossInv, QueueInv
  <1>1. CASE FlushOne
    <2>1. client = "flushing" /\ FlushEvent /\ UNCHANGED <<client, runs, accepted, flushFailed>>
      BY <1>1 DEF FlushOne, useVars
    <2>2. PICK k \in DOMAIN events :
            /\ DOMAIN events' = DOMAIN events \ {k}
            /\ \A j \in DOMAIN events' : events'[j] = events[j]
            /\ queue' = Append(queue, events[k])
            /\ UNCHANGED <<run_id, subrun_id, popped>>
      BY <2>1, FlushEventIs
    <2>3. RawEvents' = RawEvents
      BY <1>0, <2>1, FlushEventHeld
    <2>4. PlacedInv'
      BY <1>0, <2>1, <2>3, PlacedMove
    <2> DEFINE e == events[k]
    <2>5. /\ e \in Item /\ e.kind = "event" /\ e.run \in 1 .. runs /\ e.subrun >= 1 /\ e.frags # {}
          /\ ~flushFailed => SubrunOf(e) = Now /\ e.run = run_id
      BY <1>0, EventsAre
    <2>6. queue' = Append(queue, e)
      BY <2>2
    <2> HIDE DEF e
    <2>7. QED
      BY <1>0, <2>1, <2>2, <2>4, <2>5, <2>6, EventQueue DEF InSubrun
  <1>2. CASE BeginFlush \/ EndFlush
    <2>1. /\ UNCHANGED <<queue, popped, run_id, subrun_id, runs, events, accepted>>
          /\ flushFailed => flushFailed'
          /\ \/ client = "running" /\ client' = "flushing"
             \/ client = "flushing" /\ client' = "flushed"
      <3>1. CASE BeginFlush
        BY <3>1 DEF BeginFlush, Goto, storeVars
      <3>2. CASE EndFlush
        BY <1>0, <3>2 DEF EndFlush, FlushReturn, Goto
      <3>3. QED
        BY <1>2, <3>1, <3>2
    <2>2. RawEvents' = RawEvents
      BY <2>1, UnchangedHeld
    <2>3. PlacedInv'
      BY <1>0, <2>1, <2>2, PlacedMove
    <2>4. QED
      BY <1>0, <2>1, <2>3, KeepQueue DEF InSubrun, ItemInv
  <1>3. QED
    BY <1>1, <1>2 DEF FlushStore

\* The Init, the end of a subrun and the end of data are put on the queue.
LEMMA MarkerQueue ==
  ASSUME UseInv, QueueInv, NEW kind \in {"init", "endSubrun", "endOfData"}, Enqueue(kind),
         UNCHANGED <<runs, accepted, flushFailed, subrunOf>>,
         \/ /\ kind = "init" /\ client = "running" /\ ~art_initialized_
            /\ art_initialized_' = TRUE /\ UNCHANGED <<client, unended>>
         \/ /\ kind = "endSubrun" /\ client = "flushed" /\ client' = "ended"
            /\ art_initialized_' = art_initialized_ /\ unended' = unended \ {run_id}
         \/ /\ kind = "endOfData" /\ client = "idle" /\ client' = "joining"
            /\ UNCHANGED <<art_initialized_, unended>>
  PROVE  QueueInv'
  <1>1. /\ StoreTypeOK /\ MapInv /\ HeldOnce /\ flushFailed \in BOOLEAN
        /\ ItemInv /\ InitInv /\ EndInv /\ OrderInv /\ ClosedInv /\ PlacedInv
    BY DEF UseInv, LossInv, QueueInv
  <1>2. queue' = Append(queue, Marker(kind)) /\ UNCHANGED <<run_id, subrun_id, events, popped>>
    BY DEF Enqueue
  <1>3. /\ Marker(kind) \in Item /\ Marker(kind).kind = kind /\ Marker(kind).frags = {}
        /\ Marker(kind).run = run_id /\ Marker(kind).subrun = subrun_id
    BY <1>1, MarkerType DEF Marker
  <1> DEFINE e == Marker(kind)
  <1> HIDE DEF e
  <1>4. queue' = Append(queue, e) /\ e \in Item /\ e.kind = kind /\ e.frags = {} /\ SubrunOf(e) = Now
        /\ e.run = run_id /\ e.subrun = subrun_id
    BY <1>2, <1>3 DEF e, SubrunOf, Now
  <1>5. kind = "endSubrun" => run_id \in 1 .. runs /\ subrun_id >= 1 /\ art_initialized_
    <2>1. kind = "endSubrun" => run_id = runs /\ subrun_id >= 1 /\ runs > 0 /\ art_initialized_
      BY <1>1 DEF ItemInv, InitInv, InSubrun, UseInv, TogetherInv, NumberInv
    <2>2. QED
      BY <2>1, Numbers
  <1>6. ItemInv'
    <2>1. \A k \in DOMAIN events' :
            events'[k].run \in 1 .. runs /\ events'[k].subrun >= 1 /\ events'[k].frags # {}
      BY <1>1, <1>2 DEF ItemInv
    <2>2. QED
      BY <1>1, <1>2, <1>4, <1>5, <2>1, ItemAppend DEF InSubrun
  <1>7. InitInv'
    <2>1. ~art_initialized_ => DOMAIN events' = {}
      BY <1>1, <1>2 DEF InitInv
    <2>2. QED
      BY <1>1, <1>2, <1>4, <1>5, <2>1, InitAppend DEF InitInv
  <1>8. EndInv'
    BY <1>1, <1>2, <1>4, EndAppend
  <1>9. OrderInv'
    BY <1>1, <1>2, <1>4, OrderAppend DEF InSubrun
  <1>10. ClosedInv'
    BY <1>1, <1>2, <1>4, ClosedAppend DEF InSubrun
  <1>11. RawEvents' = RawEvents
    BY <1>1, EnqueueHeld
  <1>12. PlacedInv'
    BY <1>1, <1>11, PlacedMove
  <1>13. QED
    BY <1>6, <1>7, <1>8, <1>9, <1>10, <1>12 DEF QueueInv

LEMMA CallerQueue ==
  ASSUME UseInv, QueueInv, CallerStep
  PROVE  QueueInv'
  <1>0. /\ flushFailed \in BOOLEAN /\ StoreTypeOK /\ ItemInv /\ InitInv /\ PlacedInv
        /\ \A k \in DOMAIN events :
             events[k].run \in 1 .. runs /\ events[k].subrun >= 1 /\ events[k].frags # {}
    BY DEF UseInv, LossInv, QueueInv, ItemInv
  <1>1. CASE ReceiveInit
    <2>1. /\ Enqueue("init") /\ client = "running" /\ ~art_initialized_ /\ art_initialized_' = TRUE
          /\ UNCHANGED <<client, runs, accepted, flushFailed, subrunOf, unended>>
      BY <1>1 DEF ReceiveInit, useVars
    <2>2. QED
      BY <2>1, MarkerQueue
  <1>2. ASSUME NEW f \in Fragment, ReceiveEvent(f)
        PROVE  QueueInv'
    BY <1>2, InsertQueue
  <1>3. CASE FlushStore
    BY <1>3, FlushQueue
  <1>4. CASE Command
    <2>1. UNCHANGED <<art_initialized_, subrunOf, unended>>
      BY <1>4 DEF Command, loggerVars
    <2>2. CASE StartRun \/ StartSubrun
      BY <1>4, <2>2, BeginQueue DEF Command
    <2>3. CASE EndOfData
      <3>1. /\ Enqueue("endOfData") /\ client = "idle" /\ client' = "joining"
            /\ UNCHANGED <<runs, accepted, flushFailed>>
        BY <2>3 DEF EndOfData, Goto
      <3>2. QED
        BY <2>1, <3>1, MarkerQueue
    <2>4. QED
      BY <1>4, <2>2, <2>3 DEF Command
  <1>5. CASE EndSession
    <2>1. /\ client = "flushed" /\ client' = "ended" /\ UNCHANGED <<runs, accepted, flushFailed>>
          /\ UNCHANGED <<art_initialized_, subrunOf>>
          /\ unended' = IF Full THEN unended \cup {run_id} ELSE unended \ {run_id}
          /\ Enqueue("endSubrun") \/ (Full /\ UNCHANGED storeVars)
      BY <1>5 DEF EndSession, EndSubrun, EnqueueOrGiveUp, Goto
    <2>2. CASE Enqueue("endSubrun")
      <3>1. unended' = unended \ {run_id}
        BY <2>1, <2>2 DEF Enqueue
      <3>2. QED
        BY <2>1, <2>2, <3>1, MarkerQueue
    <2>3. CASE Full /\ UNCHANGED storeVars
      <3>1. UNCHANGED <<queue, popped, run_id, subrun_id, events>> /\ unended' = unended \cup {run_id}
        BY <2>1, <2>3 DEF storeVars
      <3>2. RawEvents' = RawEvents
        BY <3>1, UnchangedHeld
      <3>3. PlacedInv'
        BY <1>0, <2>1, <3>2, PlacedMove
      <3>4. QED
        BY <1>0, <2>1, <3>1, <3>3, KeepQueue DEF InSubrun, InitInv
    <2>4. QED
      BY <2>1, <2>2, <2>3
  <1>6. CASE Cut \/ StopRun \/ JoinArt
    <2>1. /\ UNCHANGED <<storeVars, runs, accepted, art_initialized_, subrunOf>>
          /\ flushFailed => flushFailed'
          /\ \/ client = "running" /\ client' = "ended" /\ unended' = unended \cup {run_id}
             \/ client = "ended" /\ client' = "idle" /\ unended' = unended
             \/ client = "joining" /\ client' = "shutdown" /\ unended' = unended
      <3>1. CASE Cut
        BY <1>0, <3>1 DEF Cut, Goto
      <3>2. CASE StopRun
        BY <3>2 DEF StopRun, Goto, loggerVars
      <3>3. CASE JoinArt
        BY <3>3 DEF JoinArt, Goto, loggerVars
      <3>4. QED
        BY <1>6, <3>1, <3>2, <3>3
    <2>2. UNCHANGED <<queue, popped, run_id, subrun_id, events>>
      BY <2>1 DEF storeVars
    <2>3. RawEvents' = RawEvents
      BY <2>2, UnchangedHeld
    <2>4. PlacedInv'
      BY <1>0, <2>1, <2>3, PlacedMove
    <2>5. QED
      BY <1>0, <2>1, <2>2, <2>4, KeepQueue DEF InSubrun, InitInv
  <1>7. QED
    BY <1>1, <1>2, <1>3, <1>4, <1>5, <1>6 DEF CallerStep

\* The caller takes nothing from the queue.
LEMMA CallerPops ==
  ASSUME CallerStep
  PROVE  UNCHANGED popped
  <1>1. CASE \E f \in Fragment : ReceiveEvent(f)
    BY <1>1 DEF ReceiveEvent, InsertFragment, InsertAccepted, Insert
  <1>2. CASE Command
    BY <1>2 DEF Command, StartRun, StartSubrun, startRun, startSubrun, EndOfData, Enqueue
  <1>3. CASE ReceiveInit \/ EndSession
    BY <1>3 DEF ReceiveInit, EndSession, EndSubrun, EnqueueOrGiveUp, Enqueue, storeVars
  <1>4. CASE FlushStore
    BY <1>4 DEF FlushStore, BeginFlush, FlushOne, FlushEvent, EndFlush, FlushReturn, storeVars
  <1>5. CASE Cut \/ StopRun \/ JoinArt
    BY <1>5 DEF Cut, StopRun, JoinArt, storeVars
  <1>6. QED
    BY <1>1, <1>2, <1>3, <1>4, <1>5 DEF CallerStep

\* Art takes from the queue.
LEMMA ArtQueue ==
  ASSUME UseInv, QueueInv, ArtStep
  PROVE  QueueInv'
  <1>1. UNCHANGED <<client, runs, accepted, flushFailed, art_initialized_, subrunOf, unended>>
    BY DEF ArtStep, useVars, loggerVars
  <1>2. UNCHANGED <<events, run_id, subrun_id>> /\ Enqueued' = Enqueued /\ RawEvents' = RawEvents
    <2>1. CASE Dequeue
      <3>1. Enqueued' = Enqueued /\ RawEvents' = RawEvents
        BY <2>1, DequeueHeld DEF UseInv, LossInv
      <3>2. QED
        BY <2>1, <3>1 DEF Dequeue
    <2>2. CASE UNCHANGED storeVars
      BY <2>2, UnchangedHeld DEF storeVars
    <2>3. QED
      BY <2>1, <2>2, ArtStepStore
  <1>3. OfSubrun' = OfSubrun /\ EnqueuedEvents' = EnqueuedEvents
    BY <1>2, SameItems
  <1>4. ItemInv' /\ InitInv' /\ EndInv'
    BY <1>1, <1>2, <1>3 DEF QueueInv, ItemInv, InitInv, EndInv
  <1>5. OrderInv' /\ ClosedInv'
    BY <1>1, <1>2, <1>3 DEF QueueInv, OrderInv, ClosedInv, Now
  <1>6. PlacedInv'
    BY <1>1, <1>2 DEF QueueInv, PlacedInv
  <1>7. QED
    BY <1>4, <1>5, <1>6 DEF QueueInv


-----------------------------------------------------------------------------
(* What art makes of the next message.                                     *)

\* An item on the queue.
LEMMA ItemAt ==
  ASSUME UseInv, QueueInv, NEW i \in DOMAIN Enqueued
  PROVE  LET item == Enqueued[i] IN
         /\ item \in Item /\ item.kind # "endRun" /\ item.frags \subseteq Fragment
         /\ item.kind \in {"event", "endSubrun"} =>
              i \in OfSubrun /\ item.run >= 1 /\ item.subrun >= 1
         /\ item.frags # {} <=> item.kind = "event"
         /\ ~flushFailed /\ item.kind = "event" => \A f \in item.frags : subrunOf[f] = SubrunOf(item)
  <1> DEFINE item == Enqueued[i]
  <1>1. item \in Item /\ item.frags \subseteq Fragment
    BY EnqueuedType DEF UseInv, LossInv, Item
  <1>2. item.kind \in {"event", "endSubrun"} => i \in OfSubrun /\ item.run >= 1 /\ item.subrun >= 1
    BY DEF OfSubrun, QueueInv, ItemInv
  <1>3. item.kind # "endRun" /\ (item.frags # {} <=> item.kind = "event")
    BY DEF QueueInv, ItemInv
  <1>4. item.kind = "event" => item \in RawEvents
    BY DEF RawEvents, EnqueuedEvents
  <1>5. QED
    BY <1>1, <1>2, <1>3, <1>4 DEF QueueInv, PlacedInv

\* The last item taken.
LEMMA LastItem ==
  ASSUME UseInv, QueueInv, popped # <<>>
  PROVE  LET n == Len(popped) IN
         /\ n \in DOMAIN popped /\ n \in DOMAIN Enqueued /\ n \in Nat
         /\ popped[n] = LastPopped /\ Enqueued[n] = LastPopped
         /\ \A i \in DOMAIN popped : i \in Nat /\ i <= n
  <1>1. /\ Len(popped) \in Nat /\ DOMAIN popped = 1 .. Len(popped) /\ popped \in Seq(Item)
        /\ \A i \in DOMAIN popped : i \in DOMAIN Enqueued /\ Enqueued[i] = popped[i]
    BY PoppedType DEF UseInv, LossInv
  <1>2. Len(popped) # 0
    BY <1>1, EmptySeq
  <1>3. QED
    BY <1>1, <1>2 DEF LastPopped

\* The fragment that comes next is one of the event that was taken last.
LEMMA NextFragment ==
  ASSUME UseInv, QueueInv, PlaceInv, constructed, ~shutdownMsgReceived_,
         NEW f \in AtHand, ReceiveFragment(f)
  PROVE  LET item == LastPopped' IN
         /\ item \in Item /\ item.kind = "event" /\ item.run >= 1 /\ item.subrun >= 1
         /\ f \in item.frags /\ f \in Fragment /\ item.frags \subseteq Fragment
         /\ ~flushFailed => subrunOf[f] = SubrunOf(item)
         /\ popped' # <<>> /\ ~ReaderDone' /\ recvd_fragments_' \subseteq item.frags
         /\ \/ /\ f \in recvd_fragments_ /\ recvd_fragments_' = recvd_fragments_ \ {f}
               /\ UNCHANGED storeVars /\ item = LastPopped
            \/ /\ recvd_fragments_ = {} /\ recvd_fragments_' = item.frags \ {f}
               /\ Dequeue /\ item = Head(queue)
  <1>1. popped # <<>>
    BY DEF PlaceInv
  <1>2. CASE recvd_fragments_ # {}
    <2>1. /\ f \in recvd_fragments_ /\ recvd_fragments_' = recvd_fragments_ \ {f} /\ UNCHANGED storeVars
      BY <1>2 DEF ReceiveFragment, AtHand, Rest
    <2>2. popped' = popped /\ LastPopped' = LastPopped
      BY <2>1 DEF storeVars, LastPopped
    <2>3. LastPopped.kind = "event" /\ recvd_fragments_ \subseteq LastPopped.frags
      BY <1>2 DEF PlaceInv
    <2>4. Len(popped) \in DOMAIN Enqueued /\ Enqueued[Len(popped)] = LastPopped
      BY <1>1, LastItem
    <2>5. /\ LastPopped \in Item /\ LastPopped.frags \subseteq Fragment
          /\ LastPopped.run >= 1 /\ LastPopped.subrun >= 1
          /\ ~flushFailed => \A g \in LastPopped.frags : subrunOf[g] = SubrunOf(LastPopped)
      BY <2>3, <2>4, ItemAt
    <2>6. ~ReaderDone'
      BY <2>2, <2>3 DEF ReaderDone, LastPopped
    <2>7. QED
      BY <1>1, <2>1, <2>2, <2>3, <2>5, <2>6
  <1>3. CASE recvd_fragments_ = {}
    <2>1. /\ Dequeue /\ f \in Head(queue).frags /\ recvd_fragments_' = Head(queue).frags \ {f}
      BY <1>3 DEF ReceiveFragment, AtHand, Rest, Dequeue
    <2>2. /\ Len(popped) + 1 \in DOMAIN Enqueued /\ Enqueued[Len(popped) + 1] = Head(queue)
          /\ popped' # <<>> /\ LastPopped' = Head(queue)
      BY <2>1, DequeueIs DEF UseInv, LossInv
    <2>3. /\ Head(queue) \in Item /\ Head(queue).kind = "event" /\ Head(queue).frags \subseteq Fragment
          /\ Head(queue).run >= 1 /\ Head(queue).subrun >= 1
          /\ ~flushFailed => \A g \in Head(queue).frags : subrunOf[g] = SubrunOf(Head(queue))
      BY <2>1, <2>2, ItemAt
    <2>4. ~ReaderDone'
      BY <2>2, <2>3 DEF ReaderDone, LastPopped
    <2>5. QED
      BY <1>3, <2>1, <2>2, <2>3, <2>4
  <1>4. QED
    BY <1>2, <1>3

Pair == Int \X Int

LEMMA SamePair ==
  ASSUME NEW s \in Pair, NEW t \in Pair
  PROVE  s = t <=> s[1] = t[1] /\ s[2] = t[2]
  BY DEF Pair

LEMMA SubrunIs ==
  ASSUME NEW item \in Item, item.run >= 1, item.subrun >= 1
  PROVE  /\ SubrunOf(item) \in Pair
         /\ SubrunOf(item)[1] = item.run /\ SubrunOf(item)[2] = item.subrun
         /\ SubrunOf(item) # NoSubrun /\ ~IsFlush(SubrunOf(item)) /\ item.run # None
  <1>1. item.run \in Nat /\ item.subrun \in Nat
    BY DEF Item
  <1>2. SubrunOf(item) \in Pair /\ SubrunOf(item)[1] = item.run /\ SubrunOf(item)[2] = item.subrun
    BY <1>1 DEF SubrunOf, Pair
  <1>3. item.subrun # 0 /\ item.run # -1
    BY <1>1
  <1>4. SubrunOf(item)[1] # NoSubrun[1] /\ ~IsFlush(SubrunOf(item)) /\ item.run # -1
    BY <1>2, <1>3 DEF NoSubrun, None, IsFlush, Flush
  <1>5. QED
    BY <1>2, <1>4 DEF None

\* Where art is, while it reads.
LEMMA WhereArtIs ==
  ASSUME UseInv, QueueInv, PlaceInv, ~shutdownMsgReceived_
  PROVE  /\ inSR \in Pair /\ open \in Pair /\ inSR[1] = inR
         /\ open = NoSubrun \/ open = inSR
         /\ inSR = FlushSubrun => open = NoSubrun
  <1>1. NoSubrun \in Pair /\ FlushSubrun \in Pair /\ FlushSubrun[2] = Flush
    BY DEF NoSubrun, FlushSubrun, None, Flush, Pair
  <1>2. CASE ~constructed
    BY <1>1, <1>2 DEF PlaceInv
  <1>3. CASE constructed
    <2>1. popped # <<>> /\ AfterItem(LastPopped)
      BY <1>3 DEF PlaceInv
    <2>2. Len(popped) \in DOMAIN Enqueued /\ Enqueued[Len(popped)] = LastPopped
      BY <2>1, LastItem
    <2>3. LastPopped.kind = "event" =>
            SubrunOf(LastPopped) \in Pair /\ ~IsFlush(SubrunOf(LastPopped))
      BY <2>2, ItemAt, SubrunIs
    <2>4. QED
      BY <1>1, <2>1, <2>3 DEF PlaceInv, AfterItem, IsFlush
  <1>4. QED
    BY <1>2, <1>3 DEF PlaceInv

\* An event goes to the subrun that art is at, or begins its own, or looks like one of the
\* subrun that art is at, though it is of another run.
Writing(f) == write([subrun |-> subrunOf[f], event |-> f])
Stays == inR' = inR /\ inSR' = inSR /\ open' = open
Going(S) == inSR = S /\ Stays /\ ~complained'
Beginning(S) == inSR # S /\ inR' = S[1] /\ inSR' = S /\ open' = S /\ ~complained'
Complaining(S) ==
  inSR # NoSubrun /\ inSR[1] # S[1] /\ inSR[2] = S[2] /\ Stays /\ complained'

LEMMA ReadEvent ==
  ASSUME NEW f, NEW S \in Pair, subrunOf[f] = S, S # NoSubrun, ~IsFlush(S), S[1] # None,
         inSR \in Pair, inSR[1] = inR, Read(readAndConstructPrincipal(f))
  PROVE  \/ Going(S) /\ written' = written \o <<Writing(f)>>
         \/ Beginning(S) /\ written' = written \o (EndOpen \o <<Writing(f)>>)
         \/ Complaining(S) /\ written' = written \o <<>>
  <1> DEFINE made == readAndConstructPrincipal(f)
             e == [subrun |-> S, event |-> f]
  <1>1. TakeOver(made) /\ written' = written \o Calls(made)
    BY DEF Read
  <1>2. /\ made.es = <<e>>
        /\ made.r = (IF inR # S[1] THEN S[1] ELSE None)
        /\ made.subrun = (IF inSR = NoSubrun \/ inSR[2] # S[2] THEN S ELSE NoSubrun)
    BY DEF readAndConstructPrincipal, Made, NewRun, NewSubrun
  <1>3. inSR = S <=> inSR[1] = S[1] /\ inSR[2] = S[2]
    BY SamePair
  <1> HIDE DEF made
  <1>4. [i \in DOMAIN made.es |-> write(made.es[i])] = <<Writing(f)>>
    BY <1>2 DEF Writing
  <1>5. (\E i \in DOMAIN made.es : made.es[i].subrun # At(made)) <=> S # At(made)
    BY <1>2
  <1>6. CASE inSR = NoSubrun \/ inSR[2] # S[2]
    <2>1. made.subrun = S /\ At(made) = S /\ inSR # S
      BY <1>2, <1>6 DEF At
    <2>2. ~Rejected(made)
      BY <1>5, <2>1 DEF Rejected
    <2>3. Calls(made) = EndOpen \o <<Writing(f)>>
      BY <1>4, <2>1, <2>2 DEF Calls
    <2>4. Beginning(S)
      BY <1>1, <1>2, <2>1, <2>2 DEF TakeOver, Beginning
    <2>5. QED
      BY <1>1, <2>3, <2>4
  <1>7. CASE ~(inSR = NoSubrun \/ inSR[2] # S[2])
    <2>1. made.subrun = NoSubrun /\ At(made) = inSR
      BY <1>2, <1>7 DEF At
    <2>2. Rejected(made) <=> inSR # S
      BY <1>5, <2>1 DEF Rejected
    <2>3. CASE inSR = S
      <3>1. Calls(made) = <<>> \o <<Writing(f)>>
        BY <1>4, <2>1, <2>2, <2>3 DEF Calls
      <3>2. made.r = None
        BY <1>2, <2>3
      <3>3. Going(S)
        <4>1. /\ complained' = FALSE /\ inR' = inR /\ inSR' = inSR
              /\ open' = CASE made.subrun = NoSubrun -> open
                           [] IsFlush(made.subrun) -> NoSubrun
                           [] OTHER -> made.subrun
          BY <1>1, <2>1, <2>2, <2>3, <3>2 DEF TakeOver
        <4>2. ~IsFlush(NoSubrun)
          BY DEF IsFlush, NoSubrun, Flush, None
        <4>3. open' = open
          BY <2>1, <4>1, <4>2
        <4>4. QED
          BY <2>3, <4>1, <4>3 DEF Going, Stays
      <3>4. <<>> \o <<Writing(f)>> = <<Writing(f)>>
        OBVIOUS
      <3>5. QED
        BY <1>1, <3>1, <3>3, <3>4
    <2>4. CASE inSR # S
      <3>1. Calls(made) = <<>>
        BY <2>2, <2>4 DEF Calls
      <3>2. Complaining(S)
        BY <1>1, <1>3, <1>7, <2>2, <2>4 DEF TakeOver, Complaining, Stays
      <3>3. QED
        BY <1>1, <3>1, <3>2
    <2>5. QED
      BY <2>3, <2>4
  <1>8. QED
    BY <1>6, <1>7

\* The end of a subrun brings art to the flush subrun, if it is not there.
LEMMA EndRead ==
  ASSUME Read(ReadEndSubRun), inSR[1] = inR, inSR = FlushSubrun => open = NoSubrun
  PROVE  /\ inR' = Flush /\ inSR' = FlushSubrun /\ open' = NoSubrun /\ ~complained'
         /\ written' = written \o EndOpen
  <1>1. FlushSubrun # NoSubrun /\ FlushSubrun[1] = Flush /\ FlushSubrun[2] = Flush /\ Flush # None
    BY DEF FlushSubrun, NoSubrun, Flush, None
  <1> DEFINE made == ReadEndSubRun
  <1>2. TakeOver(made) /\ written' = written \o Calls(made)
    BY DEF Read
  <1>3. CASE inSR = FlushSubrun
    <2>1. made.r = None /\ made.subrun = NoSubrun /\ made.es = <<>>
      BY <1>1, <1>3 DEF ReadEndSubRun, Made
    <2> HIDE DEF made
    <2>2. At(made) = inSR /\ ~Rejected(made) /\ [i \in DOMAIN made.es |-> write(made.es[i])] = <<>>
      BY <2>1 DEF At, Rejected
    <2>3. Calls(made) = <<>> \o <<>>
      BY <2>1, <2>2 DEF Calls
    <2>4. /\ complained' = FALSE /\ inR' = inR /\ inSR' = inSR
          /\ open' = CASE made.subrun = NoSubrun -> open
                       [] IsFlush(made.subrun) -> NoSubrun
                       [] OTHER -> made.subrun
      BY <1>2, <2>1, <2>2 DEF TakeOver
    <2>5. ~IsFlush(NoSubrun)
      BY DEF IsFlush, NoSubrun, Flush, None
    <2>6. open' = NoSubrun
      BY <1>3, <2>1, <2>4, <2>5
    <2>7. EndOpen = <<>> /\ <<>> \o <<>> = <<>>
      BY <1>3 DEF EndOpen
    <2>8. QED
      BY <1>1, <1>2, <1>3, <2>3, <2>4, <2>6, <2>7
  <1>4. CASE inSR # FlushSubrun
    <2>1. made.r = Flush /\ made.subrun = FlushSubrun /\ made.es = <<>>
      BY <1>1, <1>4 DEF ReadEndSubRun, Made
    <2> HIDE DEF made
    <2>2. At(made) = FlushSubrun /\ ~Rejected(made) /\ [i \in DOMAIN made.es |-> write(made.es[i])] = <<>>
      BY <1>1, <1>4, <2>1 DEF At, Rejected
    <2>3. Calls(made) = EndOpen \o <<>>
      BY <1>1, <2>1, <2>2 DEF Calls
    <2>4. EndOpen \o <<>> = EndOpen
      BY DEF EndOpen
    <2>5. QED
      BY <1>1, <1>2, <2>1, <2>2, <2>3, <2>4 DEF TakeOver, IsFlush
  <1>5. QED
    BY <1>3, <1>4

\* Whoever is before the one, and the one before the other, is before the other.
LEMMA BeforeIs ==
  ASSUME NEW s \in Pair, NEW t \in Pair, NEW u \in Pair
  PROVE  /\ (Before(s, t) \/ s = t) /\ Before(t, u) => Before(s, u)
         /\ Before(s, t) \/ s = t => s[1] <= t[1]
         /\ Before(s, t) => s # t
  <1>1. /\ s[1] \in Int /\ s[2] \in Int /\ t[1] \in Int /\ t[2] \in Int /\ u[1] \in Int /\ u[2] \in Int
    BY DEF Pair
  <1>2. Before(s, t) /\ Before(t, u) => Before(s, u)
    BY <1>1 DEF Before
  <1>3. (Before(s, t) => s[1] <= t[1]) /\ ~Before(s, s)
    BY <1>1 DEF Before
  <1>4. s = t => s[1] <= t[1]
    BY <1>1
  <1>5. QED
    BY <1>2, <1>3, <1>4

\* What is known of the subruns of two items.
LEMMA SubrunsAt ==
  ASSUME UseInv, QueueInv, ~flushFailed, NEW i \in OfSubrun, NEW j \in OfSubrun
  PROVE  /\ SubrunOf(Enqueued[i]) \in Pair /\ SubrunOf(Enqueued[j]) \in Pair /\ Now \in Pair
         /\ i \in Nat /\ j \in Nat
         /\ i < j => \/ Before(SubrunOf(Enqueued[i]), SubrunOf(Enqueued[j]))
                     \/ /\ SubrunOf(Enqueued[i]) = SubrunOf(Enqueued[j])
                        /\ Enqueued[i].kind # "endSubrun"
         /\ Before(SubrunOf(Enqueued[i]), Now) \/ SubrunOf(Enqueued[i]) = Now
  <1>1. i \in DOMAIN Enqueued /\ j \in DOMAIN Enqueued
    BY DEF OfSubrun
  <1>2. /\ Enqueued[i].run \in Nat /\ Enqueued[i].subrun \in Nat
        /\ Enqueued[j].run \in Nat /\ Enqueued[j].subrun \in Nat
        /\ run_id \in Nat /\ subrun_id \in Nat /\ i \in Nat /\ j \in Nat
    BY <1>1, Numbers
  <1>3. SubrunOf(Enqueued[i]) \in Pair /\ SubrunOf(Enqueued[j]) \in Pair /\ Now \in Pair
    BY <1>2 DEF SubrunOf, Now, Pair
  <1>4. QED
    BY <1>2, <1>3 DEF QueueInv, OrderInv

\* The item that is taken, and the one before it.
LEMMA NextItem ==
  ASSUME UseInv, QueueInv, Dequeue
  PROVE  LET n == Len(popped) + 1 IN
         /\ n \in DOMAIN Enqueued /\ Enqueued[n] = Head(queue) /\ n \in Nat /\ n \notin DOMAIN popped
         /\ popped' # <<>> /\ DOMAIN popped' = DOMAIN popped \cup {n}
         /\ \A i \in DOMAIN popped : i < n /\ popped'[i] = popped[i]
         /\ popped'[n] = Head(queue) /\ LastPopped' = Head(queue)
         /\ \A i \in DOMAIN popped : i \in DOMAIN Enqueued /\ Enqueued[i] = popped[i]
         /\ ReaderDone' <=> Head(queue).kind = "endOfData"
         /\ popped # <<>> =>
              /\ Len(popped) \in DOMAIN Enqueued /\ Enqueued[Len(popped)] = LastPopped
              /\ \A i \in DOMAIN popped : i \in Nat /\ i <= Len(popped)
         /\ popped = <<>> => n = 1
  <1>1. StoreTypeOK
    BY DEF UseInv, LossInv
  <1>2. ReaderDone' <=> Head(queue).kind = "endOfData"
    BY <1>1, DequeueIs DEF ReaderDone, LastPopped
  <1>3. popped = <<>> => Len(popped) + 1 = 1
    OBVIOUS
  <1>4. QED
    BY <1>1, <1>2, <1>3, DequeueIs, PoppedType, LastItem

\* An event that art takes for one of the subrun that it is at: that run was not ended.
LEMMA WrongSubrun ==
  ASSUME UseInv, QueueInv, PlaceInv, ~flushFailed, constructed, ~shutdownMsgReceived_,
         Dequeue, Head(queue).kind = "event", Complaining(SubrunOf(Head(queue)))
  PROVE  \E run \in unended : run < run_id
  <1> DEFINE n == Len(popped) + 1
             m == Len(popped)
             item == Head(queue)
             last == LastPopped
  <1>1. popped # <<>> /\ AfterItem(last)
    BY DEF PlaceInv
  <1>2. /\ n \in DOMAIN Enqueued /\ Enqueued[n] = item /\ n \in Nat
        /\ m \in DOMAIN Enqueued /\ Enqueued[m] = last
    BY <1>1, NextItem
  <1>3. m \in Nat /\ n = m + 1
    BY <1>2, Numbers
  <1>4. n \in OfSubrun /\ item \in Item /\ item.run >= 1 /\ item.subrun >= 1
    BY <1>2, ItemAt
  <1>5. inSR # NoSubrun /\ inSR[1] # SubrunOf(item)[1] /\ inSR[2] = SubrunOf(item)[2]
    BY DEF Complaining
  <1> HIDE DEF n, m, item, last
  <1>6. inSR[2] # Flush /\ FlushSubrun[2] = Flush
    BY <1>4, <1>5, SubrunIs DEF IsFlush, FlushSubrun, Flush
  <1>7. last.kind = "event" /\ inSR = SubrunOf(last)
    BY <1>1, <1>5, <1>6 DEF AfterItem
  <1>8. m \in EnqueuedEvents /\ m \in OfSubrun
    BY <1>2, <1>7 DEF EnqueuedEvents, OfSubrun
  <1> DEFINE s == SubrunOf(last)
             t == SubrunOf(item)
  <1>9. /\ s \in Pair /\ t \in Pair /\ Now \in Pair
        /\ Before(s, t) \/ s = t
        /\ Before(t, Now) \/ t = Now
    <2>1. m < n
      BY <1>3
    <2>2. QED
      BY <1>2, <1>4, <1>8, <2>1, SubrunsAt
  <1>10. s[1] = last.run /\ t[1] = item.run /\ Now[1] = run_id
    BY DEF SubrunOf, Now
  <1>11. s[1] # t[1]
    BY <1>5, <1>7
  <1>12. last.run < item.run /\ item.run <= run_id /\ last.run \in Nat /\ item.run \in Nat /\ run_id \in Nat
    <2>1. last.run \in Nat /\ item.run \in Nat /\ run_id \in Nat
      BY <1>2, Numbers
    <2>2. s[1] <= t[1] /\ t[1] <= Now[1]
      BY <1>9, BeforeIs
    <2>3. QED
      BY <1>10, <1>11, <2>1, <2>2
  <1>13. \A k \in OfSubrun :
           m < k /\ Enqueued[k].kind = "endSubrun" => Enqueued[k].run # last.run
    <2> SUFFICES ASSUME NEW k \in OfSubrun, m < k, Enqueued[k].kind = "endSubrun",
                        Enqueued[k].run = last.run
                 PROVE  FALSE
      OBVIOUS
    <2>1. k # n
      BY <1>2 DEF item
    <2>2. k \in Nat /\ n < k
      <3>1. k \in Nat
        BY <1>4, SubrunsAt
      <3>2. QED
        BY <1>3, <2>1, <3>1
    <2>3. /\ SubrunOf(Enqueued[k]) \in Pair
          /\ Before(t, SubrunOf(Enqueued[k])) \/ t = SubrunOf(Enqueued[k])
      BY <1>2, <1>4, <2>2, SubrunsAt
    <2>4. t[1] <= SubrunOf(Enqueued[k])[1]
      BY <1>9, <2>3, BeforeIs
    <2>5. item.run <= Enqueued[k].run
      BY <1>10, <2>4 DEF SubrunOf
    <2>6. QED
      BY <1>12, <2>5
  <1>14. \/ last.run \in unended
         \/ last.run = run_id
         \/ \E k \in OfSubrun :
              m < k /\ Enqueued[k].kind = "endSubrun" /\ Enqueued[k].run = last.run
    BY <1>2, <1>8 DEF QueueInv, ClosedInv
  <1>15. last.run \in unended /\ last.run < run_id
    BY <1>12, <1>13, <1>14
  <1>16. QED
    BY <1>15

\* art finds no Init if the first item is the end of data.
LEMMA NoInit ==
  ASSUME UseInv, QueueInv, PlaceInv, ~constructed, Dequeue, Head(queue).kind = "endOfData"
  PROVE  ~art_initialized_ /\ client \in {"joining", "shutdown"}
  <1>1. popped = <<>>
    BY DEF PlaceInv
  <1>2. 1 \in DOMAIN Enqueued /\ Enqueued[1].kind = "endOfData"
    BY <1>1, NextItem
  <1>3. QED
    BY <1>2 DEF QueueInv, InitInv, EndInv

-----------------------------------------------------------------------------
(* What has been taken.                                                    *)

LEMMA TakenGrows ==
  ASSUME UseInv, QueueInv, Dequeue
  PROVE  LET item == Head(queue) IN
         /\ item.kind = "event" =>
              /\ Taken' = Taken \cup item.frags /\ Taken \cap item.frags = {}
              /\ Seen' = Seen \cup {SubrunOf(item)}
         /\ item.kind # "event" => Taken' = Taken /\ Seen' = Seen
  <1> DEFINE n == Len(popped) + 1
             item == Head(queue)
  <1>1. /\ n \in DOMAIN Enqueued /\ Enqueued[n] = item /\ n \notin DOMAIN popped
        /\ DOMAIN popped' = DOMAIN popped \cup {n}
        /\ \A i \in DOMAIN popped : popped'[i] = popped[i]
        /\ popped'[n] = item
        /\ \A i \in DOMAIN popped : i \in DOMAIN Enqueued /\ Enqueued[i] = popped[i]
    BY NextItem
  <1> HIDE DEF n, item
  <1>2. /\ PoppedEvents' = PoppedEvents \cup {i \in {n} : item.kind = "event"}
        /\ \A i \in PoppedEvents : popped'[i] = popped[i]
    BY <1>1 DEF PoppedEvents
  <1>3. ASSUME item.kind = "event"
        PROVE  /\ Taken' = Taken \cup item.frags /\ Taken \cap item.frags = {}
               /\ Seen' = Seen \cup {SubrunOf(item)}
    <2>1. PoppedEvents' = PoppedEvents \cup {n}
      BY <1>2, <1>3
    <2>2. Taken' = Taken \cup item.frags
      <3>1. Taken' = UNION {popped'[i].frags : i \in PoppedEvents \cup {n}}
        BY <2>1 DEF Taken
      <3>2. QED
        BY <1>1, <1>2, <3>1 DEF Taken
    <2>3. Seen' = Seen \cup {SubrunOf(item)}
      BY <1>1, <1>2, <2>1 DEF Seen
    <2>4. ASSUME NEW i \in PoppedEvents
          PROVE  popped[i].frags \cap item.frags = {}
      <3>1. i \in EnqueuedEvents /\ n \in EnqueuedEvents /\ i # n
        BY <1>1, <1>3 DEF PoppedEvents, EnqueuedEvents
      <3>2. Enqueued[i].frags \cap Enqueued[n].frags = {}
        BY <3>1 DEF UseInv, LossInv, HeldOnce
      <3>3. QED
        BY <1>1, <3>2 DEF PoppedEvents
    <2>5. Taken \cap item.frags = {}
      BY <2>4 DEF Taken
    <2>6. QED
      BY <2>2, <2>3, <2>5
  <1>4. ASSUME item.kind # "event"
        PROVE  Taken' = Taken /\ Seen' = Seen
    <2>1. PoppedEvents' = PoppedEvents
      BY <1>2, <1>4
    <2>2. QED
      BY <1>2, <2>1 DEF Taken, Seen
  <1>5. QED
    BY <1>3, <1>4 DEF item

LEMMA TakenKept ==
  ASSUME popped' = popped
  PROVE  Taken' = Taken /\ Seen' = Seen
  BY DEF Taken, Seen, PoppedEvents

\* An event of another subrun is of a later one.
LEMMA NextSubrun ==
  ASSUME UseInv, QueueInv, PlaceInv, ~flushFailed, constructed, ~shutdownMsgReceived_,
         Dequeue, Head(queue).kind = "event", inSR # SubrunOf(Head(queue))
  PROVE  \A s \in Seen : Before(s, SubrunOf(Head(queue)))
  <1> DEFINE n == Len(popped) + 1
             m == Len(popped)
             item == Head(queue)
             last == LastPopped
             t == SubrunOf(item)
  <1>1. popped # <<>> /\ AfterItem(last)
    BY DEF PlaceInv
  <1>2. /\ n \in DOMAIN Enqueued /\ Enqueued[n] = item /\ n \in Nat
        /\ m \in DOMAIN Enqueued /\ Enqueued[m] = last
        /\ \A i \in DOMAIN popped : i \in DOMAIN Enqueued /\ Enqueued[i] = popped[i] /\ i \in Nat /\ i <= m
    BY <1>1, NextItem
  <1>3. m \in Nat /\ n = m + 1
    BY <1>2, Numbers
  <1>4. n \in OfSubrun
    BY <1>2, ItemAt
  <1> HIDE DEF n, m, item, last
  <1> SUFFICES ASSUME NEW i \in PoppedEvents
               PROVE  Before(SubrunOf(popped[i]), SubrunOf(item))
    BY DEF Seen, item
  <1>5. /\ i \in DOMAIN popped /\ popped[i].kind = "event" /\ Enqueued[i] = popped[i]
        /\ i \in OfSubrun /\ i \in Nat /\ i <= m
    BY <1>2 DEF PoppedEvents, OfSubrun
  <1>6. last.kind # "init"
    <2>1. SUFFICES ASSUME Enqueued[m].kind = "init" PROVE FALSE
      BY <1>2
    <2>2. m = 1
      BY <1>2, <2>1 DEF QueueInv, InitInv
    <2>3. i = 1
      BY <1>2, <1>5, <2>2, EnqueuedType
    <2>4. QED
      BY <1>2, <1>5, <2>1, <2>2, <2>3
  <1>7. m \in OfSubrun /\ last.kind \in {"event", "endSubrun"}
    BY <1>1, <1>2, <1>6 DEF AfterItem, OfSubrun
  <1>8. /\ SubrunOf(last) \in Pair /\ SubrunOf(item) \in Pair
        /\ Before(SubrunOf(last), SubrunOf(item))
    <2>1. m < n
      BY <1>3
    <2>2. /\ SubrunOf(last) \in Pair /\ SubrunOf(item) \in Pair
          /\ \/ Before(SubrunOf(last), SubrunOf(item))
             \/ SubrunOf(last) = SubrunOf(item) /\ last.kind # "endSubrun"
      BY <1>2, <1>4, <1>7, <2>1, SubrunsAt
    <2>3. last.kind = "event" => SubrunOf(last) # SubrunOf(item)
      BY <1>1 DEF AfterItem, item
    <2>4. QED
      BY <1>7, <2>2, <2>3
  <1>9. CASE i = m
    BY <1>2, <1>5, <1>8, <1>9
  <1>10. CASE i < m
    <2>1. /\ SubrunOf(popped[i]) \in Pair
          /\ Before(SubrunOf(popped[i]), SubrunOf(last)) \/ SubrunOf(popped[i]) = SubrunOf(last)
      BY <1>2, <1>5, <1>7, <1>10, SubrunsAt
    <2>2. QED
      BY <1>8, <2>1, BeforeIs
  <1>11. QED
    BY <1>3, <1>5, <1>9, <1>10

-----------------------------------------------------------------------------
(* Art knows where it is.                                                  *)

\* The message that art reads next, and what it makes of it.
LEMMA FragmentRead ==
  ASSUME UseInv, QueueInv, PlaceInv, ~flushFailed, constructed, ~shutdownMsgReceived_,
         NEW f \in AtHand, ReceiveFragment(f), Read(readAndConstructPrincipal(f))
  PROVE  LET S == SubrunOf(LastPopped') IN
         /\ S \in Pair /\ S # NoSubrun /\ ~IsFlush(S) /\ subrunOf[f] = S
         /\ inSR = S => open = S
         /\ \/ Going(S) /\ written' = written \o <<Writing(f)>>
            \/ /\ Dequeue /\ S = SubrunOf(Head(queue))
               /\ Beginning(S) /\ written' = written \o (EndOpen \o <<Writing(f)>>)
            \/ /\ Dequeue /\ S = SubrunOf(Head(queue))
               /\ Complaining(S) /\ written' = written \o <<>>
  <1> DEFINE item == LastPopped'
             S == SubrunOf(item)
  <1>1. /\ item \in Item /\ item.kind = "event" /\ item.run >= 1 /\ item.subrun >= 1
        /\ subrunOf[f] = S
        /\ (UNCHANGED storeVars /\ recvd_fragments_ # {} /\ item = LastPopped)
           \/ (Dequeue /\ item = Head(queue))
    BY NextFragment
  <1> HIDE DEF item
  <1>2. S \in Pair /\ S[1] = item.run /\ S # NoSubrun /\ ~IsFlush(S) /\ item.run # None
    BY <1>1, SubrunIs
  <1>3. popped # <<>> /\ AfterItem(LastPopped)
    BY DEF PlaceInv
  <1>4. inSR = S => open = S
    BY <1>2, <1>3 DEF AfterItem, FlushSubrun, IsFlush, Flush
  <1>5. recvd_fragments_ # {} /\ item = LastPopped => inSR = S
    BY <1>3 DEF PlaceInv, AfterItem
  <1>6. \/ Going(S) /\ written' = written \o <<Writing(f)>>
        \/ Beginning(S) /\ written' = written \o (EndOpen \o <<Writing(f)>>)
        \/ Complaining(S) /\ written' = written \o <<>>
    BY <1>1, <1>2, WhereArtIs, ReadEvent
  <1>7. Beginning(S) \/ Complaining(S) => inSR # S
    BY DEF Beginning, Complaining
  <1>8. Beginning(S) \/ Complaining(S) => Dequeue /\ S = SubrunOf(Head(queue))
    BY <1>1, <1>5, <1>7
  <1>9. QED
    BY <1>1, <1>2, <1>4, <1>6, <1>8 DEF item

LEMMA PlaceEvent ==
  ASSUME UseInv, QueueInv, PlaceInv, ~flushFailed, constructed, ~shutdownMsgReceived_, ~outputFileCloseNeeded_,
         NEW f \in AtHand, ReceiveFragment(f), Read(readAndConstructPrincipal(f)),
         UNCHANGED outputFileCloseNeeded_, ~complained'
  PROVE  PlaceInv'
  <1> DEFINE item == LastPopped'
             S == SubrunOf(item)
  <1>1. /\ item.kind = "event" /\ popped' # <<>> /\ ~ReaderDone'
        /\ recvd_fragments_' \subseteq item.frags
    BY NextFragment
  <1>2. (inSR = S => open = S) /\ (Going(S) \/ Beginning(S) \/ Complaining(S))
    BY FragmentRead
  <1>3. inSR' = S /\ open' = S /\ inSR'[1] = inR'
    BY <1>2 DEF Going, Beginning, Complaining, Stays, PlaceInv
  <1>4. constructed' /\ shutdownMsgReceived_' = FALSE /\ outputFileCloseNeeded_' = FALSE
    BY DEF Read, PlaceInv
  <1>5. AfterItem(LastPopped)'
    BY <1>1, <1>3 DEF AfterItem, SubrunOf
  <1>6. QED
    BY <1>1, <1>3, <1>4, <1>5 DEF PlaceInv

LEMMA PlaceEndSubRun ==
  ASSUME UseInv, QueueInv, PlaceInv, constructed, ~shutdownMsgReceived_, ReadNextEndSubRun
  PROVE  /\ PlaceInv' /\ ~complained' /\ open' = NoSubrun /\ written' = written \o EndOpen
         /\ Dequeue /\ Head(queue).kind = "endSubrun" /\ UNCHANGED recvd_fragments_
  <1>1. /\ Dequeue /\ Head(queue).kind = "endSubrun" /\ recvd_fragments_ = {} /\ UNCHANGED recvd_fragments_
        /\ Read(ReadEndSubRun) /\ outputFileCloseNeeded_' = TRUE
        /\ UNCHANGED <<constructed, shutdownMsgReceived_>>
    BY DEF ReadNextEndSubRun, ReceiveItem, Read
  <1>2. /\ inR' = Flush /\ inSR' = FlushSubrun /\ open' = NoSubrun /\ ~complained'
        /\ written' = written \o EndOpen
    BY <1>1, WhereArtIs, EndRead
  <1>3. popped' # <<>> /\ LastPopped' = Head(queue) /\ ~ReaderDone'
    BY <1>1, NextItem
  <1>4. AfterItem(LastPopped)'
    BY <1>1, <1>2, <1>3 DEF AfterItem, NoSubrun, None, FlushSubrun, Flush
  <1>5. inSR'[1] = inR'
    BY <1>2 DEF FlushSubrun
  <1>6. PlaceInv'
    BY <1>1, <1>2, <1>3, <1>4, <1>5 DEF PlaceInv
  <1>7. QED
    BY <1>1, <1>2, <1>6

LEMMA PlaceClose ==
  ASSUME UseInv, QueueInv, PlaceInv, constructed, ~shutdownMsgReceived_, ~complained, ReadNextClose
  PROVE  /\ PlaceInv' /\ ~complained' /\ open' = NoSubrun /\ written' = written \o EndOpen
         /\ UNCHANGED <<storeVars, recvd_fragments_>>
  <1>1. /\ outputFileCloseNeeded_ /\ outputFileCloseNeeded_' = FALSE
        /\ open' = NoSubrun /\ UNCHANGED <<inR, inSR, complained>> /\ written' = written \o EndOpen
        /\ UNCHANGED <<storeVars, recvd_fragments_, constructed, shutdownMsgReceived_>>
    BY DEF ReadNextClose, Close, CloseFile
  <1>2. /\ popped' = popped /\ LastPopped' = LastPopped /\ (ReaderDone' <=> ReaderDone)
    BY <1>1 DEF storeVars, LastPopped, ReaderDone
  <1>3. LastPopped.kind = "endSubrun" /\ AfterItem(LastPopped)
    BY <1>1 DEF PlaceInv
  <1>4. AfterItem(LastPopped)'
    BY <1>1, <1>2, <1>3 DEF AfterItem
  <1>5. PlaceInv'
    BY <1>1, <1>2, <1>4 DEF PlaceInv
  <1>6. QED
    BY <1>1, <1>5

LEMMA PlaceEnd ==
  ASSUME UseInv, QueueInv, PlaceInv, constructed, ~shutdownMsgReceived_, ~complained, ReadNextEnd
  PROVE  /\ PlaceInv' /\ ~complained' /\ open' = NoSubrun /\ written' = written \o EndOpen
         /\ Dequeue /\ Head(queue).kind = "endOfData" /\ UNCHANGED recvd_fragments_
  <1>1. /\ Dequeue /\ Head(queue).kind = "endOfData" /\ recvd_fragments_ = {} /\ UNCHANGED recvd_fragments_
        /\ open' = NoSubrun /\ UNCHANGED <<inR, inSR, complained>> /\ written' = written \o EndOpen
        /\ ~outputFileCloseNeeded_ /\ shutdownMsgReceived_' = TRUE
        /\ UNCHANGED <<constructed, outputFileCloseNeeded_>>
    BY DEF ReadNextEnd, ReceiveNull, ReceiveItem, Close, CloseFile
  <1>2. popped' # <<>> /\ ReaderDone'
    BY <1>1, NextItem
  <1>3. PlaceInv'
    BY <1>1, <1>2 DEF PlaceInv
  <1>4. QED
    BY <1>1, <1>3

LEMMA PlaceConstruct ==
  ASSUME UseInv, QueueInv, PlaceInv, ~shutdownMsgReceived_, ~complained, Construct
  PROVE  /\ PlaceInv' /\ ~complained' /\ UNCHANGED <<open, written, recvd_fragments_>>
         /\ Dequeue /\ Head(queue).kind = "init"
  <1>1. /\ Dequeue /\ Head(queue).kind = "init" /\ recvd_fragments_ = {} /\ UNCHANGED recvd_fragments_
        /\ ~constructed /\ constructed' = TRUE
        /\ UNCHANGED <<inR, inSR, open, complained, shutdownMsgReceived_, outputFileCloseNeeded_, written>>
    BY DEF Construct, ReceiveItem, artVars
  <1>2. popped' # <<>> /\ LastPopped' = Head(queue) /\ ~ReaderDone'
    BY <1>1, NextItem
  <1>3. inSR = NoSubrun /\ open = NoSubrun /\ ~outputFileCloseNeeded_
    BY <1>1 DEF PlaceInv
  <1>4. AfterItem(LastPopped)'
    BY <1>1, <1>2, <1>3 DEF AfterItem
  <1>5. PlaceInv'
    BY <1>1, <1>2, <1>3, <1>4 DEF PlaceInv
  <1>6. QED
    BY <1>1, <1>5

-----------------------------------------------------------------------------
(* What has been written.                                                  *)

EventsOf(w) == {i \in DOMAIN w : w[i].call = "write"}
EndsOf(w) == {w[i].subrun : i \in {j \in DOMAIN w : w[j].call = "writeSubRun"}}

LEMMA WrittenIs ==
  /\ Written("write") = EventsOf(written) /\ EndedSubruns = EndsOf(written)
  /\ Written("write")' = EventsOf(written') /\ EndedSubruns' = EndsOf(written')
  BY DEF Written, EndedSubruns, EventsOf, EndsOf

\* One more call.
Adds(u, w, c) == u = w \o <<c>>

LEMMA CallAppended ==
  ASSUME NEW w \in Seq(Call), NEW c \in Call, NEW u, Adds(u, w, c)
  PROVE  LET n == Len(w) + 1
         IN  /\ u \in Seq(Call)
             /\ n \in Nat /\ n \notin DOMAIN w /\ u[n] = c
             /\ \A i \in DOMAIN w : i < n /\ u[i] = w[i]
             /\ c.call = "write" =>
                  EventsOf(u) = EventsOf(w) \cup {n} /\ EndsOf(u) = EndsOf(w)
             /\ c.call = "writeSubRun" =>
                  EventsOf(u) = EventsOf(w) /\ EndsOf(u) = EndsOf(w) \cup {c.subrun}
  <1> DEFINE n == Len(w) + 1
  <1>1. u = Append(w, c)
    BY DEF Adds
  <1>2. u \in Seq(Call) /\ Len(w) \in Nat /\ DOMAIN w = 1 .. Len(w) /\ Len(u) = n
        /\ u[n] = c /\ \A i \in 1 .. Len(w) : u[i] = w[i]
    BY <1>1, AppendProperties, LenProperties
  <1>3. DOMAIN u = 1 .. n
    BY <1>2, LenProperties
  <1>4. DOMAIN u = DOMAIN w \cup {n} /\ n \notin DOMAIN w /\ n \in Nat /\ \A i \in DOMAIN w : i < n
    BY <1>2, <1>3
  <1> HIDE DEF n
  <1>5. \A i \in DOMAIN w : u[i] = w[i]
    BY <1>2
  <1>6. /\ c.call = "write" => EventsOf(u) = EventsOf(w) \cup {n}
        /\ c.call # "write" => EventsOf(u) = EventsOf(w)
    BY <1>2, <1>4, <1>5 DEF EventsOf
  <1>7. /\ c.call = "writeSubRun" => EndsOf(u) = EndsOf(w) \cup {c.subrun}
        /\ c.call # "writeSubRun" => EndsOf(u) = EndsOf(w)
    BY <1>2, <1>4, <1>5 DEF EndsOf
  <1>8. QED
    BY <1>2, <1>4, <1>5, <1>6, <1>7 DEF n

\* The end of the open subrun, if there is one.
LEMMA EndAppended ==
  ASSUME written \in Seq(Call), open \in Pair
  PROVE  LET u == written \o EndOpen IN
         /\ u \in Seq(Call)
         /\ EventsOf(u) = EventsOf(written)
         /\ \A i \in DOMAIN written : i \in DOMAIN u /\ u[i] = written[i]
         /\ EndsOf(u) = EndsOf(written) \cup ({open} \ {NoSubrun})
  <1>1. CASE open = NoSubrun
    <2>1. EndOpen = <<>>
      BY <1>1 DEF EndOpen
    <2>2. written \o EndOpen = written
      BY <2>1, ConcatEmptySeq
    <2>3. QED
      BY <1>1, <2>2
  <1>2. CASE open # NoSubrun
    <2> DEFINE c == writeSubRun(open)
               u == written \o <<c>>
    <2>1. EndOpen = <<c>>
      BY <1>2 DEF EndOpen
    <2>2. c \in Call /\ c.call = "writeSubRun" /\ c.subrun = open
      BY DEF writeSubRun, Call, Pair
    <2> HIDE DEF c
    <2>6. Adds(u, written, c)
      BY DEF Adds
    <2> HIDE DEF u
    <2>3. /\ u \in Seq(Call) /\ \A i \in DOMAIN written : u[i] = written[i]
          /\ EventsOf(u) = EventsOf(written)
          /\ EndsOf(u) = EndsOf(written) \cup {open}
      BY <2>2, <2>6, CallAppended
    <2>4. \A i \in DOMAIN written : i \in DOMAIN u
      <3>1. Len(u) = Len(written) + 1 /\ Len(written) \in Nat
        <4>1. <<c>> \in Seq(Call) /\ Len(<<c>>) = 1
          BY <2>2
        <4>2. QED
          BY <4>1, ConcatProperties, LenProperties DEF u
      <3>2. DOMAIN u = 1 .. Len(u) /\ DOMAIN written = 1 .. Len(written)
        BY <2>3, LenProperties
      <3>3. QED
        BY <3>1, <3>2
    <2>5. QED
      BY <1>2, <2>1, <2>3, <2>4 DEF u
  <1>3. QED
    BY <1>1, <1>2

\* What a step of art may do to the record.
SubrunStep ==
  \/ open' = open /\ EndedSubruns' = EndedSubruns
  \/ /\ open' # open /\ EndedSubruns' = EndedSubruns \cup ({open} \ {NoSubrun})
     /\ open' # NoSubrun => \A s \in EndedSubruns' : Before(s, open')

EventStep ==
  \/ /\ Written("write")' = Written("write")
     /\ \A i \in Written("write") : written'[i] = written[i]
  \/ \E at : /\ at \notin Written("write") /\ Written("write")' = Written("write") \cup {at}
             /\ written'[at].subrun = open'
             /\ \A i \in Written("write") :
                  i < at /\ written'[i] = written[i] /\ written'[i] # written'[at]

RecordStep == RecordInv' /\ SubrunStep /\ EventStep

\* Art writes nothing.
LEMMA RecordKept ==
  ASSUME RecordInv, UNCHANGED <<written, open, recvd_fragments_>>, Taken' = Taken, Seen' = Seen
  PROVE  RecordStep
  <1>1. Written("write")' = Written("write") /\ EndedSubruns' = EndedSubruns
    BY WrittenIs
  <1>2. {written'[i].event : i \in Written("write")'} = {written[i].event : i \in Written("write")}
    BY <1>1
  <1>3. RecordInv'
    BY <1>1, <1>2 DEF RecordInv, Call
  <1>4. SubrunStep /\ EventStep
    BY <1>1 DEF SubrunStep, EventStep
  <1>5. QED
    BY <1>3, <1>4 DEF RecordStep

\* Art writes the end of the open subrun.
LEMMA RecordEnds ==
  ASSUME RecordInv, open \in Pair, written' = written \o EndOpen, open' = NoSubrun,
         recvd_fragments_' = recvd_fragments_, Taken' = Taken, Seen' = Seen
  PROVE  RecordStep
  <1>1. written \in Seq(Call)
    BY DEF RecordInv
  <1>2. /\ written' \in Seq(Call) /\ EventsOf(written') = EventsOf(written)
        /\ \A i \in DOMAIN written : written'[i] = written[i]
        /\ EndsOf(written') = EndsOf(written) \cup ({open} \ {NoSubrun})
    BY <1>1, EndAppended
  <1>3. /\ Written("write")' = Written("write")
        /\ \A i \in Written("write") : written'[i] = written[i]
        /\ EndedSubruns' = EndedSubruns \cup ({open} \ {NoSubrun})
    BY <1>2, WrittenIs DEF EventsOf
  <1>4. {written'[i].event : i \in Written("write")'} = {written[i].event : i \in Written("write")}
    BY <1>3
  <1>5. EndedSubruns' \cup ({open'} \ {NoSubrun}) = Seen'
    BY <1>3 DEF RecordInv
  <1>6. Call' = Call
    BY DEF Call
  <1>7. RecordInv'
    BY <1>2, <1>4, <1>5, <1>6 DEF RecordInv
  <1>8. SubrunStep
    BY <1>3 DEF SubrunStep
  <1>9. EventStep
    BY <1>3 DEF EventStep
  <1>10. QED
    BY <1>7, <1>8, <1>9 DEF RecordStep

\* Art writes an event, which it has not written before: w is what is written before it.
LEMMA EventAppended ==
  ASSUME RecordInv, NEW f \in Fragment, subrunOf[f] \in Pair, subrunOf[f] = open',
         NEW w \in Seq(Call), EventsOf(w) = EventsOf(written),
         \A i \in DOMAIN written : i \in DOMAIN w /\ w[i] = written[i],
         written' = w \o <<Writing(f)>>, f \notin Taken \ recvd_fragments_
  PROVE  /\ written' \in Seq(Call) /\ EndedSubruns' = EndsOf(w) /\ EventStep
         /\ {written'[i].event : i \in Written("write")'} = (Taken \ recvd_fragments_) \cup {f}
  <1> DEFINE n == Len(w) + 1
             c == Writing(f)
  <1>1. c \in Call /\ c.call = "write" /\ c.event = f /\ c.subrun = open'
    BY DEF Writing, write, Call, Pair
  <1> HIDE DEF c
  <1>2. /\ written' \in Seq(Call) /\ n \notin DOMAIN w /\ written'[n] = c
        /\ \A i \in DOMAIN w : i < n /\ written'[i] = w[i]
        /\ EventsOf(written') = EventsOf(w) \cup {n}
        /\ EndsOf(written') = EndsOf(w)
    <2> DEFINE u == w \o <<c>>
    <2>1. Adds(u, w, c)
      BY DEF Adds
    <2>2. written' = u
      BY DEF c
    <2> HIDE DEF u
    <2>3. /\ u \in Seq(Call) /\ n \notin DOMAIN w /\ u[n] = c
          /\ \A i \in DOMAIN w : i < n /\ u[i] = w[i]
          /\ EventsOf(u) = EventsOf(w) \cup {n}
          /\ EndsOf(u) = EndsOf(w)
      BY <1>1, <2>1, CallAppended
    <2>4. QED
      BY <2>2, <2>3
  <1> HIDE DEF n
  <1>3. /\ Written("write")' = Written("write") \cup {n} /\ n \notin Written("write")
        /\ \A i \in Written("write") : i < n /\ written'[i] = written[i]
    BY <1>2, WrittenIs DEF EventsOf
  <1>4. {written[i].event : i \in Written("write")} = Taken \ recvd_fragments_
    BY DEF RecordInv
  <1>5. \A i \in Written("write") : written'[i] # written'[n]
    <2>1. \A i \in Written("write") : written[i].event # f
      BY <1>4
    <2>2. QED
      BY <1>1, <1>2, <1>3, <2>1
  <1>6. EventStep
    BY <1>1, <1>2, <1>3, <1>5 DEF EventStep
  <1>7. {written'[i].event : i \in Written("write")'} = (Taken \ recvd_fragments_) \cup {f}
    <2>1. {written'[i].event : i \in Written("write")'} = {written[i].event : i \in Written("write")} \cup {f}
      <3>1. \A i \in Written("write") : written'[i].event = written[i].event
        BY <1>3
      <3>2. written'[n].event = f
        BY <1>1, <1>2
      <3>3. {written'[i].event : i \in Written("write")'} =
              {written'[i].event : i \in Written("write") \cup {n}}
        BY <1>3
      <3>4. {written'[i].event : i \in Written("write") \cup {n}} =
              {written'[i].event : i \in Written("write")} \cup {written'[n].event}
        OBVIOUS
      <3>5. {written'[i].event : i \in Written("write")} = {written[i].event : i \in Written("write")}
        BY <3>1
      <3>6. QED
        BY <3>2, <3>3, <3>4, <3>5
    <2>2. QED
      BY <1>4, <2>1
  <1>8. QED
    BY <1>2, <1>6, <1>7, WrittenIs

\* Art writes the next message of the event that was taken last.
LEMMA RecordEvent ==
  ASSUME UseInv, QueueInv, PlaceInv, RecordInv, ~flushFailed, constructed, ~shutdownMsgReceived_,
         NEW f \in AtHand, ReceiveFragment(f), Read(readAndConstructPrincipal(f)), ~complained'
  PROVE  RecordStep
  <1> DEFINE item == LastPopped'
             S == SubrunOf(item)
  <1>1. /\ item.kind = "event" /\ f \in item.frags /\ f \in Fragment
        /\ \/ /\ f \in recvd_fragments_ /\ recvd_fragments_' = recvd_fragments_ \ {f}
              /\ UNCHANGED storeVars /\ item = LastPopped
           \/ /\ recvd_fragments_ = {} /\ recvd_fragments_' = item.frags \ {f}
              /\ Dequeue /\ item = Head(queue)
    BY NextFragment
  <1>2. /\ S \in Pair /\ S # NoSubrun /\ subrunOf[f] = S
        /\ inSR = S => open = S
        /\ \/ Going(S) /\ written' = written \o <<Writing(f)>>
           \/ /\ Dequeue /\ S = SubrunOf(Head(queue))
              /\ Beginning(S) /\ written' = written \o (EndOpen \o <<Writing(f)>>)
    BY FragmentRead DEF Complaining
  <1> HIDE DEF item
  <1>3. /\ written \in Seq(Call) /\ Call' = Call
        /\ {written[i].event : i \in Written("write")} = Taken \ recvd_fragments_
        /\ EndedSubruns \cup ({open} \ {NoSubrun}) = Seen
    BY DEF RecordInv, Call
  <1>4. open \in Pair /\ (open = NoSubrun \/ open = inSR)
    BY WhereArtIs
  <1>5. /\ f \notin Taken \ recvd_fragments_
        /\ (Taken \ recvd_fragments_) \cup {f} = Taken' \ recvd_fragments_'
        /\ Seen' = Seen \/ Seen' = Seen \cup {S}
        /\ Dequeue => Seen' = Seen \cup {S}
    <2>1. CASE f \in recvd_fragments_ /\ recvd_fragments_' = recvd_fragments_ \ {f}
               /\ UNCHANGED storeVars /\ item = LastPopped
      <3>1. Taken' = Taken /\ Seen' = Seen
        BY <2>1, TakenKept DEF storeVars
      <3>2. f \in Taken
        <4>1. popped # <<>>
          BY DEF PlaceInv
        <4>2. Len(popped) \in DOMAIN popped /\ popped[Len(popped)] = item
          BY <2>1, <4>1, LastItem
        <4>3. QED
          BY <1>1, <4>2 DEF Taken, PoppedEvents
      <3>3. ~Dequeue
        BY <2>1 DEF storeVars, PlaceInv, Dequeue, UseInv, LossInv, StoreTypeOK
      <3>4. QED
        BY <2>1, <3>1, <3>2, <3>3
    <2>2. CASE recvd_fragments_ = {} /\ recvd_fragments_' = item.frags \ {f}
               /\ Dequeue /\ item = Head(queue)
      <3>1. /\ Taken' = Taken \cup item.frags /\ Taken \cap item.frags = {}
            /\ Seen' = Seen \cup {S}
        BY <1>1, <2>2, TakenGrows
      <3>2. QED
        BY <1>1, <2>2, <3>1
    <2>3. QED
      BY <1>1, <2>1, <2>2
  <1>6. CASE Going(S) /\ written' = written \o <<Writing(f)>>
    <2>1. open' = S /\ open = S
      BY <1>2, <1>6 DEF Going, Stays
    <2>2. /\ written' \in Seq(Call) /\ EndedSubruns' = EndsOf(written) /\ EventStep
          /\ {written'[i].event : i \in Written("write")'} = (Taken \ recvd_fragments_) \cup {f}
      BY <1>1, <1>2, <1>3, <1>5, <1>6, <2>1, EventAppended
    <2>3. EndedSubruns' = EndedSubruns
      BY <2>2, WrittenIs
    <2>4. Seen' = Seen
      BY <1>2, <1>3, <1>5, <2>1
    <2>5. RecordInv'
      BY <1>3, <1>5, <2>1, <2>2, <2>3, <2>4 DEF RecordInv
    <2>6. QED
      BY <2>1, <2>2, <2>3, <2>5 DEF RecordStep, SubrunStep
  <1>7. CASE Dequeue /\ S = SubrunOf(Head(queue))
             /\ Beginning(S) /\ written' = written \o (EndOpen \o <<Writing(f)>>)
    <2> DEFINE w == written \o EndOpen
    <2>1. open' = S /\ inSR # S /\ open # S
      BY <1>2, <1>4, <1>7 DEF Beginning
    <2>2. /\ w \in Seq(Call) /\ EventsOf(w) = EventsOf(written)
          /\ \A i \in DOMAIN written : i \in DOMAIN w /\ w[i] = written[i]
          /\ EndsOf(w) = EndsOf(written) \cup ({open} \ {NoSubrun})
      BY <1>3, <1>4, EndAppended
    <2>3. written' = w \o <<Writing(f)>>
      <3>1. Writing(f) \in Call /\ writeSubRun(open) \in Call
        BY <1>1, <1>2, <1>4 DEF Writing, write, writeSubRun, Call, Pair
      <3>2. <<Writing(f)>> \in Seq(Call)
        BY <3>1
      <3>3. EndOpen \in Seq(Call)
        BY <3>1 DEF EndOpen
      <3>4. QED
        BY <1>3, <1>7, <3>2, <3>3, ConcatAssociative
    <2> HIDE DEF w
    <2>4. /\ written' \in Seq(Call) /\ EndedSubruns' = EndsOf(w) /\ EventStep
          /\ {written'[i].event : i \in Written("write")'} = (Taken \ recvd_fragments_) \cup {f}
      BY <1>1, <1>2, <1>5, <2>1, <2>2, <2>3, EventAppended
    <2>5. EndedSubruns' = EndedSubruns \cup ({open} \ {NoSubrun})
      BY <2>2, <2>4, WrittenIs
    <2>6. Seen' = Seen \cup {S} /\ \A s \in Seen : Before(s, S)
      <3>1. item.kind = "event" /\ (Dequeue => item = Head(queue))
        <4>1. UNCHANGED storeVars => ~Dequeue
          BY DEF storeVars, Dequeue, UseInv, LossInv, StoreTypeOK
        <4>2. QED
          BY <1>1, <4>1
      <3>2. QED
        BY <1>5, <1>7, <2>1, <3>1, NextSubrun
    <2>7. RecordInv'
      BY <1>2, <1>3, <1>5, <2>1, <2>4, <2>5, <2>6 DEF RecordInv
    <2>8. SubrunStep
      BY <1>3, <2>1, <2>5, <2>6 DEF SubrunStep
    <2>9. QED
      BY <2>4, <2>7, <2>8 DEF RecordStep
  <1>8. QED
    BY <1>2, <1>6, <1>7

\* While the store is flushed, art goes on with its record, or complains with a reason.
LEMMA ArtRecords ==
  ASSUME UseInv, QueueInv, PlaceInv, RecordInv, ~flushFailed, ArtStep
  PROVE  \/ ~complained' /\ PlaceInv' /\ RecordStep
         \/ complained' /\ Excused' /\ UNCHANGED <<open, written>>
  <1>1. /\ ~shutdownMsgReceived_ /\ ~complained
        /\ UNCHANGED <<client, flushFailed, art_initialized_, unended>>
    BY DEF ArtStep, useVars, loggerVars
  <1>2. open \in Pair /\ written \in Seq(Call) /\ written \o <<>> = written
    BY <1>1, WhereArtIs, ConcatEmptySeq DEF RecordInv
  <1>3. CASE Construct
    <2>1. /\ PlaceInv' /\ ~complained' /\ UNCHANGED <<open, written, recvd_fragments_>>
          /\ Dequeue /\ Head(queue).kind = "init"
      BY <1>1, <1>3, PlaceConstruct
    <2>2. Taken' = Taken /\ Seen' = Seen
      BY <2>1, TakenGrows
    <2>3. QED
      BY <2>1, <2>2, RecordKept
  <1>4. CASE ConstructFails
    <2>1. /\ ~constructed /\ Dequeue /\ Head(queue).kind = "endOfData" /\ complained' = TRUE
          /\ UNCHANGED <<open, written>>
      BY <1>4 DEF ConstructFails, ReceiveNull, ReceiveItem
    <2>2. ~art_initialized_ /\ client \in {"joining", "shutdown"}
      BY <2>1, NoInit
    <2>3. QED
      BY <1>1, <2>1, <2>2 DEF Excused
  <1>5. CASE constructed /\ ReadNextEvent
    <2>1. PICK f \in AtHand : ReceiveFragment(f) /\ Read(readAndConstructPrincipal(f))
      BY <1>5 DEF ReadNextEvent
    <2>2. ~outputFileCloseNeeded_ /\ UNCHANGED outputFileCloseNeeded_
      BY <1>5 DEF ReadNextEvent
    <2>3. CASE ~complained'
      BY <1>1, <1>5, <2>1, <2>2, <2>3, PlaceEvent, RecordEvent
    <2>4. CASE complained'
      <3>1. LastPopped'.kind = "event" /\ (Dequeue => LastPopped' = Head(queue))
        <4>1. UNCHANGED storeVars => ~Dequeue
          BY DEF storeVars, Dequeue, UseInv, LossInv, StoreTypeOK
        <4>2. QED
          BY <1>1, <1>5, <2>1, <4>1, NextFragment
      <3>2. /\ Dequeue /\ Complaining(SubrunOf(Head(queue))) /\ written' = written \o <<>>
        <4> DEFINE S == SubrunOf(LastPopped')
        <4>1. \/ Going(S) \/ Beginning(S)
              \/ /\ Dequeue /\ S = SubrunOf(Head(queue))
                 /\ Complaining(S) /\ written' = written \o <<>>
          BY <1>1, <1>5, <2>1, FragmentRead
        <4>2. QED
          BY <2>4, <4>1 DEF Going, Beginning
      <3>3. \E run \in unended : run < run_id
        BY <1>1, <1>5, <3>1, <3>2, WrongSubrun
      <3>4. run_id' = run_id
        BY <3>2 DEF Dequeue
      <3>5. UNCHANGED <<open, written>>
        BY <1>2, <3>2 DEF Complaining, Stays
      <3>6. QED
        BY <1>1, <2>4, <3>3, <3>4, <3>5 DEF Excused
    <2>5. QED
      BY <2>3, <2>4
  <1>6. CASE constructed /\ ReadNextEndSubRun
    <2>1. /\ PlaceInv' /\ ~complained' /\ open' = NoSubrun /\ written' = written \o EndOpen
          /\ Dequeue /\ Head(queue).kind = "endSubrun" /\ UNCHANGED recvd_fragments_
      BY <1>1, <1>6, PlaceEndSubRun
    <2>2. Taken' = Taken /\ Seen' = Seen
      BY <2>1, TakenGrows
    <2>3. QED
      BY <1>2, <2>1, <2>2, RecordEnds
  <1>7. CASE constructed /\ ReadNextClose
    <2>1. /\ PlaceInv' /\ ~complained' /\ open' = NoSubrun /\ written' = written \o EndOpen
          /\ UNCHANGED <<storeVars, recvd_fragments_>>
      BY <1>1, <1>7, PlaceClose
    <2>2. Taken' = Taken /\ Seen' = Seen
      BY <2>1, TakenKept DEF storeVars
    <2>3. QED
      BY <1>2, <2>1, <2>2, RecordEnds
  <1>8. CASE constructed /\ ReadNextEnd
    <2>1. /\ PlaceInv' /\ ~complained' /\ open' = NoSubrun /\ written' = written \o EndOpen
          /\ Dequeue /\ Head(queue).kind = "endOfData" /\ UNCHANGED recvd_fragments_
      BY <1>1, <1>8, PlaceEnd
    <2>2. Taken' = Taken /\ Seen' = Seen
      BY <2>1, TakenGrows
    <2>3. QED
      BY <1>2, <2>1, <2>2, RecordEnds
  <1>9. QED
    BY <1>3, <1>4, <1>5, <1>6, <1>7, <1>8 DEF ArtStep

-----------------------------------------------------------------------------
(* The data logger and art, step by step.                                  *)

\* What the steps of the caller leave to art.
LEMMA CallerKeeps ==
  ASSUME UseInv, QueueInv, CallerStep
  PROVE  /\ flushFailed => flushFailed'
         /\ run_id <= run_id' /\ run_id \in Nat /\ run_id' \in Nat
         /\ \A run \in unended : run # run_id => run \in unended'
         /\ client \in {"joining", "shutdown"} =>
              client' \in {"joining", "shutdown"} /\ art_initialized_' = art_initialized_
         /\ client' = "shutdown" => client = "shutdown" \/ shutdownMsgReceived_ \/ complained
  <1>1. /\ flushFailed \in BOOLEAN /\ run_id \in Nat /\ runs \in Nat /\ run_id >= 1
        /\ runs = 0 => run_id = 1
        /\ runs > 0 => run_id = runs
    BY Numbers DEF UseInv, LossInv, TogetherInv, NumberInv, StoreTypeOK, QueueInv, ItemInv
  <1>2. CASE ReceiveInit
    <2>1. /\ UNCHANGED <<client, flushFailed, run_id, unended>> /\ client = "running"
      BY <1>2 DEF ReceiveInit, useVars, Enqueue
    <2>2. QED
      BY <1>1, <2>1
  <1>3. CASE \E f \in Fragment : ReceiveEvent(f)
    <2>1. /\ UNCHANGED <<client, flushFailed, run_id, unended>> /\ client = "running"
      BY <1>3 DEF ReceiveEvent, InsertFragment, InsertAccepted, Insert
    <2>2. QED
      BY <1>1, <2>1
  <1>4. CASE FlushStore
    <2>1. /\ UNCHANGED <<run_id, unended>> /\ (flushFailed => flushFailed')
          /\ client \in {"running", "flushing"} /\ client' \in {"flushing", "flushed"}
      <3>1. CASE BeginFlush
        BY <1>4, <3>1 DEF FlushStore, BeginFlush, Goto, storeVars, loggerVars
      <3>2. CASE FlushOne
        BY <1>4, <3>2 DEF FlushStore, FlushOne, FlushEvent, useVars, loggerVars
      <3>3. CASE EndFlush
        BY <1>1, <1>4, <3>3 DEF FlushStore, EndFlush, FlushReturn, Goto, loggerVars
      <3>4. QED
        BY <1>4, <3>1, <3>2, <3>3 DEF FlushStore
    <2>2. QED
      BY <1>1, <2>1
  <1>5. CASE EndSession
    <2>1. /\ UNCHANGED <<run_id, flushFailed>> /\ client = "flushed" /\ client' = "ended"
          /\ unended' = IF Full THEN unended \cup {run_id} ELSE unended \ {run_id}
      BY <1>5 DEF EndSession, EndSubrun, EnqueueOrGiveUp, Enqueue, Goto, storeVars
    <2>2. QED
      BY <1>1, <2>1
  <1>6. CASE Cut
    <2>1. /\ run_id' = run_id /\ (flushFailed => flushFailed') /\ client = "running" /\ client' = "ended"
          /\ unended' = unended \cup {run_id}
      BY <1>1, <1>6 DEF Cut, Goto, storeVars
    <2>2. QED
      BY <1>1, <2>1
  <1>7. CASE StopRun
    <2>1. /\ UNCHANGED <<run_id, flushFailed, unended>> /\ client = "ended" /\ client' = "idle"
      BY <1>7 DEF StopRun, Goto, storeVars, loggerVars
    <2>2. QED
      BY <1>1, <2>1
  <1>8. CASE Command
    <2>1. UNCHANGED unended
      BY <1>8 DEF Command, loggerVars
    <2>2. CASE StartRun
      <3>1. /\ run_id' = runs + 1 /\ UNCHANGED flushFailed /\ client = "idle" /\ client' = "running"
        BY <2>2 DEF StartRun, startRun, Goto
      <3>2. QED
        BY <1>1, <2>1, <3>1
    <2>3. CASE StartSubrun
      <3>1. /\ UNCHANGED <<run_id, flushFailed>> /\ client = "ended" /\ client' = "running"
        BY <2>3 DEF StartSubrun, startSubrun, Goto
      <3>2. QED
        BY <1>1, <2>1, <3>1
    <2>4. CASE EndOfData
      <3>1. /\ UNCHANGED <<run_id, flushFailed>> /\ client = "idle" /\ client' = "joining"
        BY <2>4 DEF EndOfData, Enqueue, Goto
      <3>2. QED
        BY <1>1, <2>1, <3>1
    <2>5. QED
      BY <1>8, <2>2, <2>3, <2>4 DEF Command
  <1>9. CASE JoinArt
    <2>1. /\ UNCHANGED <<run_id, flushFailed, unended, art_initialized_>>
          /\ client = "joining" /\ client' = "shutdown"
          /\ shutdownMsgReceived_ \/ complained
      BY <1>9 DEF JoinArt, Goto, storeVars, loggerVars
    <2>2. QED
      BY <1>1, <2>1
  <1>10. QED
    BY <1>2, <1>3, <1>4, <1>5, <1>6, <1>7, <1>8, <1>9 DEF CallerStep

LEMMA ExcusedStays ==
  ASSUME UseInv, QueueInv, CallerStep, Excused
  PROVE  Excused'
  <1>1. CASE ~art_initialized_ /\ client \in {"joining", "shutdown"}
    BY <1>1, CallerKeeps DEF Excused
  <1>2. CASE flushFailed
    BY <1>2, CallerKeeps DEF Excused
  <1>3. CASE \E run \in unended : run < run_id
    <2>1. PICK run \in unended : run < run_id
      BY <1>3
    <2>2. run \in Nat
      BY DEF QueueInv, ClosedInv
    <2>3. run \in unended' /\ run < run_id'
      BY <2>1, <2>2, CallerKeeps
    <2>4. QED
      BY <2>3 DEF Excused
  <1>4. QED
    BY <1>1, <1>2, <1>3 DEF Excused

\* Art is where it was, and has written what it had.
LEMMA PlaceKept ==
  ASSUME PlaceInv, UNCHANGED <<artVars, inputVars, popped>>
  PROVE  PlaceInv'
  <1>1. /\ UNCHANGED <<inR, inSR, open, constructed, shutdownMsgReceived_, outputFileCloseNeeded_>>
        /\ UNCHANGED <<recvd_fragments_, popped>>
    BY DEF artVars, inputVars
  <1>2. LastPopped' = LastPopped /\ (ReaderDone' <=> ReaderDone)
    BY <1>1 DEF LastPopped, ReaderDone
  <1>3. AfterItem(LastPopped)' <=> AfterItem(LastPopped)
    BY <1>1, <1>2 DEF AfterItem
  <1>4. QED
    BY <1>1, <1>2, <1>3 DEF PlaceInv

\* art complains or does not.
LEMMA ArtComplains ==
  ASSUME ArtStep, complained \in BOOLEAN
  PROVE  complained' \in BOOLEAN
  <1>1. ASSUME NEW made, TakeOver(made)
        PROVE  complained' \in BOOLEAN
    BY <1>1 DEF TakeOver, Rejected
  <1>2. QED
    BY <1>1 DEF ArtStep, ConstructFails, Construct, ReadNextEvent, ReadNextEndSubRun, ReadNextClose,
                ReadNextEnd, Read, Close, CloseFile, artVars

LEMMA LoggerStart == AllInit => LoggerInv
  <1> SUFFICES ASSUME AllInit PROVE LoggerInv
    OBVIOUS
  <1>1. /\ queue = <<>> /\ popped = <<>> /\ client = "idle" /\ runs = 0 /\ run_id = 1 /\ accepted = {}
        /\ DOMAIN events = {} /\ flushFailed = FALSE
        /\ art_initialized_ = FALSE /\ unended = {} /\ DOMAIN subrunOf = {}
        /\ recvd_fragments_ = {} /\ constructed = FALSE /\ shutdownMsgReceived_ = FALSE
        /\ outputFileCloseNeeded_ = FALSE /\ written = <<>>
        /\ inSR = NoSubrun /\ inR = None /\ open = NoSubrun /\ complained = FALSE
    BY DEF AllInit, Init, StoreInit, ArtInit
  <1>2. Enqueued = <<>> /\ DOMAIN Enqueued = {} /\ OfSubrun = {} /\ EnqueuedEvents = {}
    BY <1>1 DEF Enqueued, OfSubrun, EnqueuedEvents
  <1>3. UseInv
    BY AllUseStart
  <1>4. \A ev : ev \notin RawEvents
    BY <1>1, <1>2, RawEventsAre
  <1>5. ItemInv
    BY <1>1, <1>2 DEF ItemInv, InSubrun
  <1>6. InitInv /\ EndInv
    BY <1>1, <1>2 DEF InitInv, EndInv
  <1>7. OrderInv /\ ClosedInv /\ PlacedInv
    BY <1>1, <1>2, <1>4 DEF OrderInv, ClosedInv, PlacedInv
  <1>8. PlaceInv
    <2>1. ~ReaderDone
      BY <1>1 DEF ReaderDone
    <2>2. NoSubrun[1] = None
      BY DEF NoSubrun
    <2>3. QED
      BY <1>1, <2>1, <2>2 DEF PlaceInv
  <1>9. RecordInv
    <2>1. DOMAIN popped = {} /\ DOMAIN written = {} /\ written \in Seq(Call)
      BY <1>1
    <2>2. PoppedEvents = {} /\ \A call : Written(call) = {}
      BY <2>1 DEF PoppedEvents, Written
    <2>3. Taken = {} /\ Seen = {} /\ EndedSubruns = {}
      BY <2>2 DEF Taken, Seen, EndedSubruns
    <2>4. QED
      BY <1>1, <2>1, <2>2, <2>3 DEF RecordInv
  <1>10. QED
    BY <1>1, <1>3, <1>5, <1>6, <1>7, <1>8, <1>9 DEF LoggerInv, QueueInv, DoneInv

LEMMA OthersKeep ==
  ASSUME CallerStep \/ UNCHANGED allVars
  PROVE  UNCHANGED <<artVars, inputVars, popped, written>>
  <1>1. CASE CallerStep
    BY <1>1, CallerPops DEF CallerStep
  <1>2. CASE UNCHANGED allVars
    BY <1>2 DEF allVars, vars, storeVars
  <1>3. QED
    BY <1>1, <1>2

LEMMA LoggerStep == LoggerInv /\ [AllNext]_allVars => LoggerInv'
  <1> SUFFICES ASSUME LoggerInv, [AllNext]_allVars PROVE LoggerInv'
    OBVIOUS
  <1>1. /\ UseInv /\ QueueInv /\ DoneInv /\ complained \in BOOLEAN
        /\ complained => Excused
        /\ ~flushFailed /\ ~complained => PlaceInv /\ RecordInv
    BY DEF LoggerInv
  <1>2. UseInv'
    BY <1>1, AllUseStep
  <1>3. CASE ArtStep
    <2>1. QueueInv' /\ complained' \in BOOLEAN
      BY <1>1, <1>3, ArtQueue, ArtComplains
    <2>2. client' = client /\ flushFailed' = flushFailed /\ ~complained /\ ~shutdownMsgReceived_
      BY <1>3 DEF ArtStep, useVars
    <2>3. DoneInv'
      BY <1>1, <2>2 DEF DoneInv
    <2>4. CASE flushFailed
      BY <1>2, <2>1, <2>2, <2>3, <2>4 DEF LoggerInv, Excused
    <2>5. CASE ~flushFailed
      <3>1. \/ ~complained' /\ PlaceInv' /\ RecordStep
            \/ complained' /\ Excused'
        BY <1>1, <1>3, <2>2, <2>5, ArtRecords
      <3>2. QED
        BY <1>2, <2>1, <2>3, <3>1 DEF LoggerInv, RecordStep
    <2>6. QED
      BY <2>4, <2>5
  <1>4. CASE CallerStep
    <2>1. QueueInv'
      BY <1>1, <1>4, CallerQueue
    <2>2. UNCHANGED <<artVars, inputVars, popped, written>>
      BY <1>4, OthersKeep
    <2>3. /\ UNCHANGED <<complained, shutdownMsgReceived_, written, open, recvd_fragments_, popped>>
          /\ (flushFailed => flushFailed')
      BY <1>1, <1>4, <2>2, CallerKeeps DEF artVars, inputVars
    <2>4. DoneInv'
      BY <1>1, <1>4, <2>3, CallerKeeps DEF DoneInv
    <2>5. complained' => Excused'
      BY <1>1, <1>4, <2>3, ExcusedStays
    <2>6. ~flushFailed' /\ ~complained' => PlaceInv' /\ RecordInv'
      <3>1. SUFFICES ASSUME ~flushFailed', ~complained' PROVE PlaceInv' /\ RecordInv'
        OBVIOUS
      <3>2. PlaceInv /\ RecordInv
        BY <1>1, <2>3, <3>1
      <3>3. QED
        BY <2>2, <2>3, <3>2, PlaceKept, TakenKept, RecordKept DEF RecordStep
    <2>7. QED
      BY <1>1, <1>2, <2>1, <2>3, <2>4, <2>5, <2>6 DEF LoggerInv
  <1>5. CASE UNCHANGED allVars
    <2>1. /\ UNCHANGED <<artVars, inputVars, popped, written>>
          /\ UNCHANGED <<complained, shutdownMsgReceived_, written, open, recvd_fragments_, popped>>
          /\ UNCHANGED <<queue, run_id, subrun_id, events, client, runs, accepted, flushFailed>>
          /\ UNCHANGED <<art_initialized_, subrunOf, unended>>
      BY <1>5 DEF allVars, vars, storeVars, useVars, artVars, loggerVars, inputVars
    <2>2. QueueInv'
      <3>1. RawEvents' = RawEvents
        BY <2>1, UnchangedHeld
      <3>2. PlacedInv'
        BY <1>1, <2>1, <3>1, PlacedMove DEF QueueInv, UseInv, LossInv
      <3>3. QED
        BY <1>1, <2>1, <3>2, KeepQueue DEF QueueInv, ItemInv, InitInv
    <2>3. DoneInv' /\ (complained' => Excused')
      BY <1>1, <2>1 DEF DoneInv, Excused
    <2>4. PlaceInv /\ RecordInv => PlaceInv' /\ RecordInv'
      BY <2>1, PlaceKept, TakenKept, RecordKept DEF RecordStep
    <2>5. QED
      BY <1>1, <1>2, <2>1, <2>2, <2>3, <2>4 DEF LoggerInv
  <1>6. QED
    BY <1>3, <1>4, <1>5 DEF AllNext, AllTerminated

\* The queue, art and what art has written stay as LoggerInv says.
THEOREM LoggerKeepsRecord == AllSpec => []LoggerInv
  BY LoggerStart, LoggerStep, PTL DEF AllSpec

-----------------------------------------------------------------------------
(* What follows.                                                           *)

\* The input of the data logger only complains if events were left in the store, if there
\* was no Init, or if the message that ends the last subrun of an earlier run did not come:
\* whichever other ends of subruns are missing, and whenever art reads.
THEOREM LoggerNeverComplains == AllSpec => []NeverComplains
  <1>1. LoggerInv => NeverComplains
    BY DEF LoggerInv, Excused, NeverComplains
  <1>2. QED
    BY <1>1, LoggerKeepsRecord, PTL

\* As long as no events were left in the store, the data logger writes its subruns as
\* SubrunRecord says: one after the other, each ended once, each message once and in the
\* subrun in which it came, although a RawEvent has several and they are given out singly.
THEOREM LoggerRecordsSubruns == AllSpec => RecordsSubruns
  <1>1. AllInit => Record!Init
    <2> SUFFICES ASSUME AllInit PROVE Record!Init
      OBVIOUS
    <2>1. written = <<>> /\ open = NoSubrun
      BY DEF AllInit, ArtInit
    <2>2. \A call : Written(call) = {}
      BY <2>1 DEF Written
    <2>3. EndedSubruns = {}
      BY <2>2 DEF EndedSubruns
    <2>4. DOMAIN [i \in Written("write") |-> written[i]] = {}
      BY <2>2
    <2>5. QED
      BY <2>1, <2>3, <2>4 DEF Record!Init
  <1>2. LoggerInv /\ [AllNext]_allVars => [flushFailed' \/ Record!Next]_<<open, written>>
    <2> SUFFICES ASSUME LoggerInv, [AllNext]_allVars, ~flushFailed', ~UNCHANGED <<open, written>>
                 PROVE  Record!Next
      OBVIOUS
    <2>1. ArtStep
      <3>1. CASE CallerStep \/ UNCHANGED allVars
        BY <3>1, OthersKeep DEF artVars
      <3>2. QED
        BY <3>1 DEF AllNext, AllTerminated
    <2>2. ~flushFailed /\ ~complained
      BY <2>1 DEF ArtStep, useVars
    <2>3. SubrunStep /\ EventStep
      BY <2>1, <2>2, ArtRecords DEF LoggerInv, RecordStep
    <2>4. Record!Proceed
      BY <2>3 DEF SubrunStep, Record!Proceed, Before, Record!Before
    <2>5. Record!Record
      <3>1. CASE /\ Written("write")' = Written("write")
                 /\ \A i \in Written("write") : written'[i] = written[i]
        BY <3>1 DEF Record!Record
      <3>2. CASE \E at : /\ at \notin Written("write") /\ Written("write")' = Written("write") \cup {at}
                         /\ written'[at].subrun = open'
                         /\ \A i \in Written("write") :
                              i < at /\ written'[i] = written[i] /\ written'[i] # written'[at]
        BY <3>2 DEF Record!Record
      <3>3. QED
        BY <2>3, <3>1, <3>2 DEF EventStep
    <2>6. QED
      BY <2>4, <2>5 DEF Record!Next
  <1>3. QED
    BY <1>1, <1>2, LoggerKeepsRecord, PTL DEF AllSpec, RecordsSubruns

\* When endOfData has returned, without a complaint of art and with no events left in the
\* store, every message that was accepted has been written, and the end of every subrun
\* that had one: also of those whose own end never came.
THEOREM LoggerShutdownDelivers == AllSpec => []ShutdownDelivers
  <1>1. LoggerInv => ShutdownDelivers
    <2> SUFFICES ASSUME LoggerInv, client = "shutdown", ~flushFailed, ~complained
                 PROVE  /\ accepted = {written[i].event : i \in Written("write")}
                        /\ EndedSubruns = {subrunOf[f] : f \in accepted}
      BY DEF ShutdownDelivers
    <2>1. /\ shutdownMsgReceived_ /\ RecordInv /\ PlaceInv /\ UseInv /\ QueueInv
          /\ StoreTypeOK /\ EndInv /\ accepted = Held /\ DOMAIN events = {}
      BY DEF LoggerInv, DoneInv, UseInv, LossInv, TogetherInv, OpenInv, QueueInv
    <2>2. popped # <<>> /\ LastPopped.kind = "endOfData" /\ open = NoSubrun /\ recvd_fragments_ = {}
      <3>1. popped # <<>> /\ LastPopped.kind = "endOfData" /\ open = NoSubrun
        BY <2>1 DEF PlaceInv, ReaderDone, LastPopped
      <3>2. QED
        BY <2>1, <3>1 DEF PlaceInv
    <2>3. DOMAIN Enqueued = DOMAIN popped /\ \A i \in DOMAIN popped : Enqueued[i] = popped[i]
      <3>1. /\ Len(popped) \in DOMAIN Enqueued /\ Enqueued[Len(popped)].kind = "endOfData"
        BY <2>1, <2>2, LastItem
      <3>2. Len(popped) = Len(Enqueued)
        BY <2>1, <3>1 DEF EndInv
      <3>3. DOMAIN popped = 1 .. Len(popped) /\ \A i \in DOMAIN popped : Enqueued[i] = popped[i]
        BY <2>1, PoppedType
      <3>4. DOMAIN Enqueued = 1 .. Len(Enqueued)
        BY <2>1, EnqueuedType
      <3>5. QED
        BY <3>2, <3>3, <3>4
    <2>4. EnqueuedEvents = PoppedEvents
      BY <2>3 DEF EnqueuedEvents, PoppedEvents
    <2>5. \A ev : ev \in RawEvents <=> \E i \in PoppedEvents : ev = popped[i]
      <3>1. \A ev : ev \in RawEvents <=> \E i \in EnqueuedEvents : ev = Enqueued[i]
        BY <2>1, RawEventsAre
      <3>2. \A i \in PoppedEvents : Enqueued[i] = popped[i]
        BY <2>3 DEF PoppedEvents
      <3>3. QED
        BY <2>4, <3>1, <3>2
    <2>6. accepted = Taken
      BY <2>1, <2>5 DEF Held, Taken
    <2>7. accepted = {written[i].event : i \in Written("write")}
      BY <2>1, <2>2, <2>6 DEF RecordInv
    <2>8. \A i \in PoppedEvents :
            popped[i].frags # {} /\ \A f \in popped[i].frags : subrunOf[f] = SubrunOf(popped[i])
      <3>1. \A i \in PoppedEvents : i \in DOMAIN Enqueued /\ Enqueued[i] = popped[i] /\ popped[i].kind = "event"
        BY <2>3 DEF PoppedEvents
      <3>2. QED
        BY <2>1, <3>1, ItemAt
    <2>9. {subrunOf[f] : f \in accepted} = Seen
      <3>1. \A f \in accepted : subrunOf[f] \in Seen
        BY <2>6, <2>8 DEF Taken, Seen
      <3>2. \A s \in Seen : \E f \in accepted : subrunOf[f] = s
        BY <2>6, <2>8 DEF Taken, Seen
      <3>3. QED
        BY <3>1, <3>2
    <2>10. EndedSubruns = Seen
      BY <2>1, <2>2 DEF RecordInv
    <2>11. QED
      BY <2>7, <2>9, <2>10
  <1>2. QED
    BY <1>1, LoggerKeepsRecord, PTL
=============================================================================
