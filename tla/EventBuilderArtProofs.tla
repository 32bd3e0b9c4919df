----------------------- MODULE EventBuilderArtProofs ------------------------
(***************************************************************************)
(* Proofs about the art job of an event builder: the event store read by   *)
(* RawEventQueueReader, and by an art that may throw.                      *)
(***************************************************************************)
EXTENDS EventBuilderArt, EventStoreProofs

-----------------------------------------------------------------------------
(* The store, with its caller and its reader.                              *)

\* Of the store, art only takes from the queue.
LEMMA ArtStepStore ==
  ASSUME ArtStep
  PROVE  (Dequeue \/ UNCHANGED storeVars) /\ UNCHANGED useVars
  BY DEF ArtStep, ReadNext, ReadNextClose, ReadNextEnd

LEMMA AllUseStep == UseInv /\ [AllNext]_allVars => UseInv'
  <1> SUFFICES ASSUME UseInv, [AllNext]_allVars PROVE UseInv'
    OBVIOUS
  <1>0. client \in Clients /\ flushFailed \in BOOLEAN
    BY DEF UseInv, LossInv
  <1>1. CASE CallerStep
    BY <1>1, UseStep DEF CallerStep, Next
  <1>2. CASE ArtStep
    <2>1. CASE Dequeue /\ UNCHANGED useVars
      BY <2>1, UseDequeue
    <2>2. CASE UNCHANGED storeVars /\ UNCHANGED useVars
      BY <2>2, UseStep DEF vars
    <2>3. QED
      BY <1>2, <2>1, <2>2, ArtStepStore
  <1>3. CASE JoinThrown
    <2>1. /\ UNCHANGED <<storeVars, runs, accepted, flushFailed>>
          /\ client = "joining" /\ client' = "shutdown"
      BY <1>3 DEF JoinThrown, Goto
    <2>2. QED
      BY <1>0, <2>1, UseMove DEF Clients
  <1>4. CASE UNCHANGED allVars
    BY <1>4, UseStep DEF allVars
  <1>5. QED
    BY <1>1, <1>2, <1>3, <1>4 DEF AllNext, AllTerminated

LEMMA AllUseStart == AllInit => UseInv
  BY UseStart DEF AllInit

\* The invariant of the store's caller, whatever art takes off the queue.
THEOREM ArtStore == AllSpec => []UseInv
  BY AllUseStart, AllUseStep, PTL DEF AllSpec

\* Read by art, which may throw and leave the queue to itself, the store neither loses
\* nor duplicates a fragment that it has accepted.
THEOREM ArtLosesNothing == AllSpec => []NothingLost
  <1>1. UseInv => NothingLost
    BY DEF UseInv, LossInv, NothingLost, HeldOnce, Held
  <1>2. QED
    BY <1>1, ArtStore, PTL

\* As long as every flush has succeeded, the fragments of one sequence ID reach art
\* in one event.
THEOREM ArtSplitsNothing == AllSpec => []NotSplit
  <1>1. UseInv => NotSplit
    BY DEF UseInv, TogetherInv
  <1>2. QED
    BY <1>1, ArtStore, PTL
-----------------------------------------------------------------------------
(* What is on the queue.                                                   *)

\* The items that belong to a subrun, by their place.
OfSubrun == {i \in DOMAIN Enqueued : Enqueued[i].kind \in {"event", "endSubrun"}}
RunMarkers == {i \in DOMAIN Enqueued : Enqueued[i].kind = "endRun"}
InRun == {"running", "flushing", "flushed", "ended"}

ItemInv ==
  /\ \A i \in DOMAIN Enqueued : Enqueued[i].kind # "init" /\ Enqueued[i].run \in 1 .. MaxRun
  /\ \A i \in OfSubrun \cup RunMarkers : Enqueued[i].run <= runs
  /\ \A i \in OfSubrun : Enqueued[i].subrun >= 1
  /\ \A k \in DOMAIN events : events[k].run \in 1 .. MaxRun /\ events[k].subrun >= 1
  /\ \A i \in EnqueuedEvents : Enqueued[i].frags # {}
  /\ \A k \in DOMAIN events : events[k].frags # {}
  /\ client \in InRun => subrun_id >= 1

\* The last item is the end of data.
EndInv ==
  /\ \A i \in DOMAIN Enqueued : Enqueued[i].kind = "endOfData" =>
       i = Len(Enqueued) /\ client \in {"joining", "shutdown"}
  /\ client \in {"joining", "shutdown"} =>
       Enqueued # <<>> /\ Enqueued[Len(Enqueued)].kind = "endOfData"

\* Two ends of runs do not follow each other.
ApartInv ==
  ~markerLost =>
    /\ \A i, j \in RunMarkers : i < j => \E m \in OfSubrun : i < m /\ m < j
    /\ client = "ended" => \A i \in RunMarkers : \E m \in OfSubrun : i < m

\* The subruns are on the queue in order, and nothing of them after their end, or that of
\* the run.
OrderInv ==
  ~flushFailed =>
    /\ \A i, j \in OfSubrun : i < j =>
         \/ Before(SubrunOf(Enqueued[i]), SubrunOf(Enqueued[j]))
         \/ SubrunOf(Enqueued[i]) = SubrunOf(Enqueued[j]) /\ Enqueued[i].kind # "endSubrun"
    /\ \A i \in RunMarkers, j \in OfSubrun : i < j => Enqueued[i].run < Enqueued[j].run
    /\ \A i \in OfSubrun, j \in RunMarkers : i < j => Enqueued[i].run <= Enqueued[j].run
    /\ \A i \in OfSubrun :
         \/ Before(SubrunOf(Enqueued[i]), <<run_id, subrun_id>>)
         \/ SubrunOf(Enqueued[i]) = <<run_id, subrun_id>>
    /\ client \in {"running", "flushing", "flushed"} =>
         \A i \in OfSubrun : Enqueued[i].kind = "endSubrun" =>
           Before(SubrunOf(Enqueued[i]), <<run_id, subrun_id>>)
    /\ client \in InRun => \A i \in RunMarkers : Enqueued[i].run < run_id
    /\ \A i \in RunMarkers : Enqueued[i].run <= run_id

QueueInv == ItemInv /\ EndInv /\ ApartInv /\ OrderInv

-----------------------------------------------------------------------------
(* What art has made of it.                                                *)

Popped == {i \in DOMAIN popped : popped[i].kind \in {"event", "endSubrun"}}

PlaceInv ==
  /\ ArtTypeOK
  /\ shutdownMsgReceived \in BOOLEAN /\ outputFileCloseNeeded \in BOOLEAN
  /\ initMsgSent_ \in BOOLEAN /\ markerLost \in BOOLEAN
  /\ inSR[1] = inR
  /\ inR = None => inSR = NoSubrun
  /\ inSR[2] \notin {None, Flush} => \E i \in Popped : SubrunOf(popped[i]) = inSR
  /\ inSR = FlushSubrun /\ ~shutdownMsgReceived => popped # <<>> /\ LastPopped.kind = "endRun"
  /\ open # NoSubrun => inSR[2] \notin {None, Flush}
  /\ open # NoSubrun /\ ~initMsgSent_ => outputFileCloseNeeded
  /\ outputFileCloseNeeded => popped # <<>> /\ LastPopped.kind = "endSubrun"
  /\ shutdownMsgReceived => ReaderDone /\ open = NoSubrun
  /\ ReaderDone => shutdownMsgReceived
  /\ complained => markerLost

\* Subrun s will get no more events.
Closes(item, s) ==
  \/ item.kind = "endSubrun" /\ SubrunOf(item) = s
  \/ item.kind \in {"event", "endSubrun"} /\ Before(s, SubrunOf(item))
  \/ item.kind = "endRun" /\ s[1] <= item.run
  \/ item.kind = "endOfData"

PoppedEvents == {popped[i] : i \in {j \in Popped : popped[j].kind = "event"}}
Seen == {SubrunOf(popped[i]) : i \in Popped}

\* All that art has taken has been sent, and the subruns that have ended are closed.
RecordInv ==
  /\ {sent[i].event : i \in Sent("data")} = PoppedEvents
  /\ EndedSubruns \cup ({open} \ {NoSubrun}) = Seen
  /\ open \notin EndedSubruns
  /\ \A s \in EndedSubruns : \E i \in DOMAIN popped : Closes(popped[i], s)

-----------------------------------------------------------------------------
(* The messages, one connection after the other.                           *)

Subrun == Int \X Int
Packet ==
  [type : {"init", "shutdown", "eod"}] \cup [type : {"data"}, subrun : Subrun, event : Item]
  \cup [type : {"endSubrun"}, subrun : Subrun]
Carries(m) == m.type \in {"data", "endSubrun"}

\* How a message of a type follows another; 0 stands for no message.
Connections(s) ==
  /\ s \in Seq(Packet)
  /\ s # <<>> => s[1].type \in {"init", "shutdown"}
  /\ \A i \in DOMAIN s :
       /\ s[i].type = "init" => i = 1
       /\ s[i].type = "eod" => i > 1 /\ s[i - 1].type \in {"endSubrun", "shutdown"}
       /\ s[i].type # "eod" => i = 1 \/ s[i - 1].type \notin {"endSubrun", "shutdown"}
       /\ s[i].type = "shutdown" => i = 1 \/ s[i - 1].type = "eod"
  /\ \A i, j \in DOMAIN s :
       /\ i < j /\ Carries(s[i]) /\ Carries(s[j])
       /\ \A k \in i .. j : s[k].type # "eod"
       => s[i].subrun = s[j].subrun
  /\ \A i \in DOMAIN s \cup {Len(s) + 1} : \E p \in 0 .. i - 1 :
       /\ p = 0 \/ s[p].type = "eod"
       /\ \A k \in p + 1 .. i - 1 : s[k].type # "eod"

\* How the last message may be followed by message m.
Follows(s, m) ==
  /\ s = <<>> => m.type \in {"init", "shutdown"}
  /\ s # <<>> =>
       /\ m.type # "init"
       /\ m.type = "eod" <=> Last(s).type \in {"endSubrun", "shutdown"}
       /\ m.type = "shutdown" => Last(s).type = "eod"
       /\ Carries(m) /\ Last(s).type = "data" => m.subrun = Last(s).subrun

\* The last connection may go on with subrun o, or has ended.
Ready(s, o) ==
  /\ Connections(s) /\ s # <<>>
  /\ \/ Last(s).type \in {"init", "eod"}
     \/ Last(s).type = "data" /\ Last(s).subrun = o

SentInv ==
  /\ sent = <<>> \/ Ready(sent, open) \/ (Connections(sent) /\ shutdownMsgReceived)
  /\ open = NoSubrun /\ sent # <<>> => Last(sent).type = "eod"
  /\ initMsgSent_ => sent # <<>>
  /\ sent # <<>> => initMsgSent_ \/ shutdownMsgReceived

-----------------------------------------------------------------------------
(* The caller keeps the queue in order.                                    *)

LEMMA SameItems ==
  ASSUME Enqueued' = Enqueued
  PROVE  OfSubrun' = OfSubrun /\ RunMarkers' = RunMarkers /\ EnqueuedEvents' = EnqueuedEvents
  BY DEF OfSubrun, RunMarkers, EnqueuedEvents

LEMMA NewItem ==
  ASSUME StoreTypeOK, NEW e \in Item, queue' = Append(queue, e), popped' = popped
  PROVE  LET n == Len(Enqueued) + 1 IN
         /\ n \in Nat /\ Enqueued'[n] = e /\ Len(Enqueued') = n /\ Enqueued' # <<>>
         /\ DOMAIN Enqueued' = DOMAIN Enqueued \cup {n}
         /\ \A i \in DOMAIN Enqueued : i \in Nat /\ i < n /\ Enqueued'[i] = Enqueued[i]
         /\ OfSubrun' = OfSubrun \cup (IF e.kind \in {"event", "endSubrun"} THEN {n} ELSE {})
         /\ RunMarkers' = RunMarkers \cup (IF e.kind = "endRun" THEN {n} ELSE {})
         /\ EnqueuedEvents' = EnqueuedEvents \cup (IF e.kind = "event" THEN {n} ELSE {})
  <1> DEFINE n == Len(Enqueued) + 1
  <1>1. /\ n \in Nat /\ Enqueued'[n] = e /\ Len(Enqueued') = n /\ Enqueued' # <<>>
        /\ DOMAIN Enqueued' = DOMAIN Enqueued \cup {n}
        /\ \A i \in DOMAIN Enqueued : i \in Nat /\ i < n /\ Enqueued'[i] = Enqueued[i]
        /\ EnqueuedEvents' = EnqueuedEvents \cup (IF e.kind = "event" THEN {n} ELSE {})
    BY NewPlace
  <1>2. OfSubrun' = OfSubrun \cup (IF e.kind \in {"event", "endSubrun"} THEN {n} ELSE {})
    BY <1>1 DEF OfSubrun
  <1>3. RunMarkers' = RunMarkers \cup (IF e.kind = "endRun" THEN {n} ELSE {})
    BY <1>1 DEF RunMarkers
  <1>4. QED
    BY <1>1, <1>2, <1>3

LEMMA ItemAppend ==
  ASSUME StoreTypeOK, ItemInv, NEW e \in Item, queue' = Append(queue, e), popped' = popped,
         e.kind # "init", e.run \in 1 .. MaxRun,
         e.kind \in {"event", "endSubrun"} => e.subrun >= 1,
         e.kind # "endOfData" => e.run <= runs,
         e.kind = "event" => e.frags # {},
         runs' = runs, client' \in InRun => subrun_id' >= 1,
         \A k \in DOMAIN events' : /\ events'[k].run \in 1 .. MaxRun /\ events'[k].subrun >= 1
                                   /\ events'[k].frags # {}
  PROVE  ItemInv'
  <1> DEFINE n == Len(Enqueued) + 1
  <1>1. /\ Enqueued'[n] = e
        /\ DOMAIN Enqueued' = DOMAIN Enqueued \cup {n}
        /\ \A i \in DOMAIN Enqueued : i \in Nat /\ i < n /\ Enqueued'[i] = Enqueued[i]
        /\ OfSubrun' = OfSubrun \cup (IF e.kind \in {"event", "endSubrun"} THEN {n} ELSE {})
        /\ RunMarkers' = RunMarkers \cup (IF e.kind = "endRun" THEN {n} ELSE {})
        /\ EnqueuedEvents' = EnqueuedEvents \cup (IF e.kind = "event" THEN {n} ELSE {})
    BY NewItem
  <1> HIDE DEF n
  <1>2. OfSubrun \cup RunMarkers \cup EnqueuedEvents \subseteq DOMAIN Enqueued
    BY DEF OfSubrun, RunMarkers, EnqueuedEvents
  <1>3. e.kind \in {"event", "endSubrun", "endRun", "endOfData"}
    BY DEF Item
  <1>4. \A i \in DOMAIN Enqueued' : Enqueued'[i].kind # "init" /\ Enqueued'[i].run \in 1 .. MaxRun
    BY <1>1 DEF ItemInv
  <1>5. \A i \in OfSubrun' \cup RunMarkers' : Enqueued'[i].run <= runs'
    BY <1>1, <1>2, <1>3 DEF ItemInv
  <1>6. \A i \in OfSubrun' : Enqueued'[i].subrun >= 1
    BY <1>1, <1>2 DEF ItemInv
  <1>7. \A i \in EnqueuedEvents' : Enqueued'[i].frags # {}
    BY <1>1, <1>2 DEF ItemInv
  <1>8. QED
    BY <1>4, <1>5, <1>6, <1>7 DEF ItemInv

LEMMA EndAppend ==
  ASSUME StoreTypeOK, EndInv, NEW e \in Item, queue' = Append(queue, e), popped' = popped,
         client \notin {"joining", "shutdown"},
         client' \in {"joining", "shutdown"} <=> e.kind = "endOfData"
  PROVE  EndInv'
  BY NewItem DEF EndInv

\* Nothing but the end of a run can follow one too soon.
LEMMA ApartAppend ==
  ASSUME StoreTypeOK, ApartInv, NEW e \in Item, queue' = Append(queue, e), popped' = popped,
         markerLost \in BOOLEAN, markerLost => markerLost',
         e.kind = "endRun" => client = "ended",
         client' = "ended" => e.kind = "endSubrun"
  PROVE  ApartInv'
  <1> SUFFICES ASSUME ~markerLost'
               PROVE  /\ \A i, j \in RunMarkers' : i < j => \E m \in OfSubrun' : i < m /\ m < j
                      /\ client' = "ended" => \A i \in RunMarkers' : \E m \in OfSubrun' : i < m
    BY DEF ApartInv
  <1> DEFINE n == Len(Enqueued) + 1
  <1>1. /\ n \in Nat
        /\ \A i \in DOMAIN Enqueued : i \in Nat /\ i < n
        /\ OfSubrun' = OfSubrun \cup (IF e.kind \in {"event", "endSubrun"} THEN {n} ELSE {})
        /\ RunMarkers' = RunMarkers \cup (IF e.kind = "endRun" THEN {n} ELSE {})
    BY NewItem
  <1> HIDE DEF n
  <1>2. OfSubrun \cup RunMarkers \subseteq DOMAIN Enqueued
    BY DEF OfSubrun, RunMarkers
  <1>3. ASSUME NEW i \in RunMarkers', NEW j \in RunMarkers', i < j
        PROVE  \E m \in OfSubrun' : i < m /\ m < j
    <2>1. i \in RunMarkers
      <3>1. j <= n
        BY <1>1, <1>2
      <3>2. QED
        BY <1>1, <1>2, <1>3, <3>1
    <2>2. CASE j \in RunMarkers
      BY <1>1, <1>3, <2>1, <2>2 DEF ApartInv
    <2>3. CASE j = n /\ e.kind = "endRun"
      BY <1>1, <1>2, <2>1, <2>3 DEF ApartInv
    <2>4. QED
      BY <1>1, <2>2, <2>3
  <1>4. ASSUME client' = "ended", NEW i \in RunMarkers'
        PROVE  \E m \in OfSubrun' : i < m
    BY <1>1, <1>2, <1>4
  <1>5. QED
    BY <1>3, <1>4

Now == <<run_id, subrun_id>>

LEMMA OrderAppend ==
  ASSUME StoreTypeOK, OrderInv, NEW e \in Item, queue' = Append(queue, e), popped' = popped,
         flushFailed \in BOOLEAN, flushFailed => flushFailed',
         UNCHANGED <<run_id, subrun_id>>,
         e.kind # "endOfData" /\ ~flushFailed => e.run = run_id,
         e.kind \in {"event", "endSubrun"} /\ ~flushFailed =>
           e.subrun = subrun_id /\ client \in {"running", "flushing", "flushed"},
         e.kind # "event" => client' \notin {"running", "flushing", "flushed"},
         e.kind = "endRun" => client' \notin InRun,
         client' \in InRun => client \in InRun,
         client' \in {"running", "flushing", "flushed"} => client \in {"running", "flushing", "flushed"}
  PROVE  OrderInv'
  <1> SUFFICES ASSUME ~flushFailed'
               PROVE  OrderInv'
    BY DEF OrderInv
  <1> DEFINE n == Len(Enqueued) + 1
  <1>1. /\ n \in Nat /\ Enqueued'[n] = e
        /\ \A i \in DOMAIN Enqueued : i \in Nat /\ i < n /\ Enqueued'[i] = Enqueued[i]
        /\ OfSubrun' = OfSubrun \cup (IF e.kind \in {"event", "endSubrun"} THEN {n} ELSE {})
        /\ RunMarkers' = RunMarkers \cup (IF e.kind = "endRun" THEN {n} ELSE {})
    BY NewItem
  <1> HIDE DEF n
  <1>2. OfSubrun \cup RunMarkers \subseteq DOMAIN Enqueued
    BY DEF OfSubrun, RunMarkers
  <1>3. ~flushFailed
    OBVIOUS
  <1>4. run_id \in Nat /\ subrun_id \in Nat
    BY EventStoreAssumption DEF StoreTypeOK
  <1>5. e.kind \in {"event", "endSubrun"} => SubrunOf(e) = Now
    BY <1>3 DEF SubrunOf, Now
  <1>6. ASSUME NEW i \in OfSubrun', NEW j \in OfSubrun', i < j
        PROVE  \/ Before(SubrunOf(Enqueued'[i]), SubrunOf(Enqueued'[j]))
               \/ SubrunOf(Enqueued'[i]) = SubrunOf(Enqueued'[j]) /\ Enqueued'[i].kind # "endSubrun"
    <2>1. i \in OfSubrun /\ Enqueued'[i] = Enqueued[i]
      <3>1. j <= n
        BY <1>1, <1>2
      <3>2. QED
        BY <1>1, <1>2, <1>6, <3>1
    <2>2. CASE j \in OfSubrun
      BY <1>1, <1>2, <1>3, <1>6, <2>1, <2>2 DEF OrderInv
    <2>3. CASE j = n /\ e.kind \in {"event", "endSubrun"}
      <3>1. Enqueued'[j] = e /\ SubrunOf(e) = Now /\ client \in {"running", "flushing", "flushed"}
        BY <1>1, <1>3, <1>5, <2>3
      <3>2. /\ Before(SubrunOf(Enqueued[i]), Now) \/ SubrunOf(Enqueued[i]) = Now
            /\ Enqueued[i].kind = "endSubrun" => Before(SubrunOf(Enqueued[i]), Now)
        BY <1>3, <2>1, <3>1 DEF OrderInv, Now
      <3>3. QED
        BY <2>1, <3>1, <3>2
    <2>4. QED
      BY <1>1, <2>2, <2>3
  <1>7. ASSUME NEW i \in RunMarkers', NEW j \in OfSubrun', i < j
        PROVE  Enqueued'[i].run < Enqueued'[j].run
    <2>1. i \in RunMarkers /\ Enqueued'[i] = Enqueued[i]
      <3>1. j <= n
        BY <1>1, <1>2
      <3>2. QED
        BY <1>1, <1>2, <1>7, <3>1
    <2>2. CASE j \in OfSubrun
      BY <1>1, <1>2, <1>3, <1>7, <2>1, <2>2 DEF OrderInv
    <2>3. CASE j = n /\ e.kind \in {"event", "endSubrun"}
      BY <1>1, <1>3, <2>1, <2>3 DEF OrderInv, InRun
    <2>4. QED
      BY <1>1, <2>2, <2>3
  <1>8. ASSUME NEW i \in OfSubrun', NEW j \in RunMarkers', i < j
        PROVE  Enqueued'[i].run <= Enqueued'[j].run
    <2>1. i \in OfSubrun /\ Enqueued'[i] = Enqueued[i]
      <3>1. j <= n
        BY <1>1, <1>2
      <3>2. QED
        BY <1>1, <1>2, <1>8, <3>1
    <2>2. CASE j \in RunMarkers
      BY <1>1, <1>2, <1>3, <1>8, <2>1, <2>2 DEF OrderInv
    <2>3. CASE j = n /\ e.kind = "endRun"
      <3>1. Before(SubrunOf(Enqueued[i]), Now) \/ SubrunOf(Enqueued[i]) = Now
        BY <1>3, <2>1 DEF OrderInv, Now
      <3>2. Enqueued[i].run <= run_id
        <4>1. Enqueued[i].run \in Nat
          BY <1>2, <2>1, EnqueuedType DEF Item
        <4>2. QED
          BY <1>4, <3>1, <4>1 DEF Before, SubrunOf, Now
      <3>3. QED
        BY <1>1, <1>3, <2>1, <2>3, <3>2
    <2>4. QED
      BY <1>1, <2>2, <2>3
  <1>9. ASSUME NEW i \in OfSubrun'
        PROVE  Before(SubrunOf(Enqueued'[i]), Now) \/ SubrunOf(Enqueued'[i]) = Now
    <2>1. CASE i \in OfSubrun
      BY <1>1, <1>2, <1>3, <2>1 DEF OrderInv, Now
    <2>2. CASE i = n /\ e.kind \in {"event", "endSubrun"}
      BY <1>1, <1>5, <2>2
    <2>3. QED
      BY <1>1, <2>1, <2>2
  <1>10. ASSUME client' \in {"running", "flushing", "flushed"}, NEW i \in OfSubrun',
                Enqueued'[i].kind = "endSubrun"
         PROVE  Before(SubrunOf(Enqueued'[i]), Now)
    BY <1>1, <1>2, <1>3, <1>10 DEF OrderInv, Now
  <1>11. ASSUME client' \in InRun, NEW i \in RunMarkers'
         PROVE  Enqueued'[i].run < run_id
    BY <1>1, <1>2, <1>3, <1>11 DEF OrderInv
  <1>12. ASSUME NEW i \in RunMarkers'
         PROVE  Enqueued'[i].run <= run_id
    <2>1. CASE i \in RunMarkers
      BY <1>1, <1>2, <1>3, <2>1 DEF OrderInv
    <2>2. CASE i = n /\ e.kind = "endRun"
      BY <1>1, <1>3, <1>4, <2>2
    <2>3. QED
      BY <1>1, <2>1, <2>2
  <1>13. QED
    BY <1>6, <1>7, <1>8, <1>9, <1>10, <1>11, <1>12 DEF OrderInv, Now

\* What the caller inserts or flushes is of the current subrun.
LEMMA EventsAre ==
  ASSUME StoreTypeOK, MapInv, ItemInv, client \in InRun, run_id >= 1,
         NEW f \in Fragment
  PROVE  /\ EventWith(f) \in Item /\ EventWith(f).kind = "event"
         /\ EventWith(f).run \in 1 .. MaxRun /\ EventWith(f).subrun >= 1 /\ EventWith(f).frags # {}
  <1>1. run_id \in 1 .. MaxRun /\ subrun_id >= 1
    BY DEF StoreTypeOK, ItemInv
  <1>2. QED
    BY <1>1, EventWithIs DEF ItemInv

\* The queue stays as it is.
LEMMA KeepQueue ==
  ASSUME QueueInv, UNCHANGED <<queue, popped, run_id, subrun_id, runs>>,
         \A k \in DOMAIN events' : /\ events'[k].run \in 1 .. MaxRun /\ events'[k].subrun >= 1
                                   /\ events'[k].frags # {},
         flushFailed \in BOOLEAN, flushFailed => flushFailed',
         markerLost \in BOOLEAN, markerLost => markerLost',
         client' \in InRun => client \in InRun,
         client' \in {"running", "flushing", "flushed"} => client \in {"running", "flushing", "flushed"},
         client' = "ended" => client = "ended" \/ markerLost',
         client' \in {"joining", "shutdown"} <=> client \in {"joining", "shutdown"}
  PROVE  QueueInv'
  <1>1. Enqueued' = Enqueued
    BY DEF Enqueued
  <1>2. OfSubrun' = OfSubrun /\ RunMarkers' = RunMarkers /\ EnqueuedEvents' = EnqueuedEvents
    BY <1>1, SameItems
  <1>3. ItemInv'
    BY <1>1, <1>2 DEF QueueInv, ItemInv
  <1>4. EndInv'
    BY <1>1 DEF QueueInv, EndInv
  <1>5. ApartInv'
    BY <1>1, <1>2 DEF QueueInv, ApartInv
  <1>6. OrderInv'
    BY <1>1, <1>2 DEF QueueInv, OrderInv
  <1>7. QED
    BY <1>3, <1>4, <1>5, <1>6 DEF QueueInv

\* A new run or subrun is later than all that is on the queue.
LEMMA BeginQueue ==
  ASSUME UseInv, QueueInv, markerLost' = markerLost, StartRun \/ StartSubrun
  PROVE  QueueInv'
  <1>1. StoreTypeOK /\ runs \in Nat /\ run_id \in Nat /\ subrun_id \in Nat
    BY EventStoreAssumption DEF UseInv, LossInv, StoreTypeOK
  <1>2. /\ UNCHANGED <<events, queue, popped, flushFailed>> /\ client' = "running"
        /\ client \in {"idle", "ended"}
        /\ \/ run_id' = runs + 1 /\ runs' = runs + 1 /\ subrun_id' = 1
           \/ run_id' = run_id /\ runs' = runs /\ subrun_id' = subrun_id + 1 /\ client = "ended"
    BY DEF StartRun, StartSubrun, startRun, startSubrun, Goto
  <1>3. Enqueued' = Enqueued
    BY <1>2 DEF Enqueued
  <1>4. OfSubrun' = OfSubrun /\ RunMarkers' = RunMarkers /\ EnqueuedEvents' = EnqueuedEvents
    BY <1>3, SameItems
  <1>5. OfSubrun \cup RunMarkers \subseteq DOMAIN Enqueued
    BY DEF OfSubrun, RunMarkers
  <1>6. \A i \in DOMAIN Enqueued : Enqueued[i].run \in Nat /\ Enqueued[i].subrun \in Nat
    BY <1>1, EnqueuedType DEF Item
  <1>7. ItemInv'
    <2>1. \A i \in OfSubrun' \cup RunMarkers' : Enqueued'[i].run <= runs'
      BY <1>1, <1>2, <1>3, <1>4, <1>5, <1>6 DEF QueueInv, ItemInv
    <2>2. subrun_id' >= 1
      BY <1>1, <1>2
    <2>3. QED
      BY <1>2, <1>3, <1>4, <2>1, <2>2 DEF QueueInv, ItemInv
  <1>8. EndInv'
    BY <1>2, <1>3 DEF QueueInv, EndInv
  <1>9. ApartInv'
    BY <1>2, <1>3, <1>4 DEF QueueInv, ApartInv
  <1>10. OrderInv'
    <2> SUFFICES ASSUME ~flushFailed'
                 PROVE  OrderInv'
      BY DEF OrderInv
    <2>1. ~flushFailed
      BY <1>2
    <2>2. \A i \in OfSubrun : Before(SubrunOf(Enqueued[i]), <<run_id', subrun_id'>>)
      <3>1. CASE run_id' = runs + 1
        BY <1>1, <1>5, <1>6, <3>1 DEF Before, SubrunOf, QueueInv, ItemInv
      <3>2. CASE run_id' = run_id /\ subrun_id' = subrun_id + 1
        <4>1. \A i \in OfSubrun : \/ Before(SubrunOf(Enqueued[i]), <<run_id, subrun_id>>)
                                  \/ SubrunOf(Enqueued[i]) = <<run_id, subrun_id>>
          BY <2>1 DEF QueueInv, OrderInv
        <4>2. QED
          BY <1>1, <1>5, <1>6, <3>2, <4>1 DEF Before, SubrunOf
      <3>3. QED
        BY <1>2, <3>1, <3>2
    <2>3. \A i \in RunMarkers : Enqueued[i].run < run_id'
      <3>1. CASE run_id' = runs + 1
        BY <1>1, <1>5, <1>6, <3>1 DEF QueueInv, ItemInv
      <3>2. CASE run_id' = run_id /\ client = "ended"
        BY <2>1, <3>2 DEF QueueInv, OrderInv, InRun
      <3>3. QED
        BY <1>2, <3>1, <3>2
    <2>4. run_id' \in Nat
      BY <1>1, <1>2
    <2>5. \A i \in RunMarkers : Enqueued[i].run <= run_id'
      BY <1>5, <1>6, <2>3, <2>4
    <2>6. QED
      BY <1>2, <1>3, <1>4, <2>1, <2>2, <2>3, <2>5 DEF QueueInv, OrderInv
  <1>11. QED
    BY <1>7, <1>8, <1>9, <1>10 DEF QueueInv

LEMMA InsertQueue ==
  ASSUME UseInv, QueueInv, markerLost \in BOOLEAN, markerLost => markerLost',
         NEW f \in Fragment, InsertFragment(f)
  PROVE  QueueInv'
  <1>1. /\ client = "running" /\ InsertAccepted(f) /\ UNCHANGED <<client, runs, flushFailed>>
    BY DEF InsertFragment
  <1>2. /\ StoreTypeOK /\ MapInv /\ flushFailed \in BOOLEAN /\ run_id \in 1 .. MaxRun
        /\ run_id = runs /\ ItemInv
    <2>1. runs > 0
      BY <1>1 DEF UseInv, TogetherInv, NumberInv
    <2>2. run_id = runs
      BY <2>1 DEF UseInv, TogetherInv, NumberInv
    <2>3. QED
      BY <2>2 DEF UseInv, LossInv, StoreTypeOK, QueueInv
  <1> DEFINE e == EventWith(f)
             k == Key(f.seq)
  <1>3. /\ e \in Item /\ e.kind = "event"
        /\ e.run \in 1 .. MaxRun /\ e.subrun >= 1 /\ e.frags # {}
    BY <1>1, <1>2, EventsAre, EventStoreAssumption DEF InRun
  <1>4. ~flushFailed => e.run = run_id /\ e.subrun = subrun_id
    BY <1>2, EventWithIs DEF UseInv, TogetherInv, OpenInv
  <1>5. UNCHANGED <<run_id, subrun_id, popped>>
    BY <1>1, InsertIs
  <1>6. CASE /\ DOMAIN events' = DOMAIN events \ {k}
             /\ \A j \in DOMAIN events' : events'[j] = events[j]
             /\ queue' = Append(queue, e)
    <2> HIDE DEF e, k
    <2>1. e.run <= runs
      <3>1. e.run = run_id \/ \E j \in DOMAIN events : e.run = events[j].run
        BY <1>2, EventWithIs DEF e
      <3>2. \A j \in DOMAIN events : events[j].run <= runs
        <4>1. \A j \in DOMAIN events : events[j] \in RawEvents
          BY RawEventsAre
        <4>2. runs \in Nat
          BY DEF UseInv, LossInv
        <4>3. QED
          BY <4>1, <4>2 DEF UseInv, TogetherInv, NumberInv
      <3>3. QED
        BY <1>2, <3>1, <3>2
    <2>2. \A j \in DOMAIN events' : /\ events'[j].run \in 1 .. MaxRun /\ events'[j].subrun >= 1
                                    /\ events'[j].frags # {}
      BY <1>2, <1>6 DEF ItemInv
    <2>3. client' \in InRun => subrun_id' >= 1
      BY <1>1, <1>2, <1>5 DEF ItemInv
    <2>4. ItemInv'
      BY <1>1, <1>2, <1>3, <1>5, <1>6, <2>1, <2>2, <2>3, ItemAppend
    <2>5. EndInv'
      BY <1>1, <1>2, <1>3, <1>5, <1>6, EndAppend DEF QueueInv
    <2>6. ApartInv'
      BY <1>1, <1>2, <1>3, <1>5, <1>6, ApartAppend DEF QueueInv
    <2>7. OrderInv'
      BY <1>1, <1>2, <1>3, <1>4, <1>5, <1>6, OrderAppend DEF QueueInv
    <2>8. QED
      BY <2>4, <2>5, <2>6, <2>7 DEF QueueInv
  <1>7. CASE /\ DOMAIN events' = DOMAIN events \cup {k}
             /\ \A j \in DOMAIN events' : events'[j] = IF j = k THEN e ELSE events[j]
             /\ queue' = queue
    <2> HIDE DEF e, k
    <2>1. \A j \in DOMAIN events' : /\ events'[j].run \in 1 .. MaxRun /\ events'[j].subrun >= 1
                                    /\ events'[j].frags # {}
      BY <1>2, <1>3, <1>7 DEF ItemInv
    <2>2. QED
      BY <1>1, <1>2, <1>5, <1>7, <2>1, KeepQueue
  <1>8. QED
    BY <1>1, <1>6, <1>7, InsertIs

LEMMA FlushQueue ==
  ASSUME UseInv, QueueInv, markerLost \in BOOLEAN, markerLost' = markerLost, FlushOne
  PROVE  QueueInv'
  <1>1. client = "flushing" /\ FlushEvent /\ UNCHANGED <<client, runs, flushFailed>>
    BY DEF FlushOne, useVars
  <1>2. /\ StoreTypeOK /\ MapInv /\ flushFailed \in BOOLEAN /\ ItemInv
    BY DEF UseInv, LossInv, QueueInv
  <1>3. PICK k \in DOMAIN events :
          /\ DOMAIN events' = DOMAIN events \ {k}
          /\ \A j \in DOMAIN events' : events'[j] = events[j]
          /\ queue' = Append(queue, events[k])
          /\ UNCHANGED <<run_id, subrun_id, popped>>
    BY <1>1, FlushEventIs
  <1> DEFINE e == events[k]
  <1>4. e \in Item /\ e.kind = "event" /\ e.run \in 1 .. MaxRun /\ e.subrun >= 1 /\ e.frags # {}
    BY <1>2 DEF StoreTypeOK, MapInv, ItemInv
  <1>5. ~flushFailed => e.run = run_id /\ e.subrun = subrun_id
    BY DEF UseInv, TogetherInv, OpenInv
  <1>6. e.run <= runs
    <2>1. e \in RawEvents
      BY RawEventsAre
    <2>2. runs \in Nat
      BY DEF UseInv, LossInv
    <2>3. QED
      BY <2>1, <2>2 DEF UseInv, TogetherInv, NumberInv
  <1>7. \A j \in DOMAIN events' : /\ events'[j].run \in 1 .. MaxRun /\ events'[j].subrun >= 1
                                  /\ events'[j].frags # {}
    BY <1>2, <1>3 DEF ItemInv
  <1> HIDE DEF e
  <1>8. queue' = Append(queue, e)
    BY <1>3 DEF e
  <1>9. ItemInv'
    BY <1>1, <1>2, <1>3, <1>4, <1>6, <1>7, <1>8, ItemAppend DEF ItemInv
  <1>10. EndInv'
    BY <1>1, <1>2, <1>3, <1>4, <1>8, EndAppend DEF QueueInv
  <1>11. ApartInv'
    BY <1>1, <1>2, <1>3, <1>4, <1>8, ApartAppend DEF QueueInv
  <1>12. OrderInv'
    BY <1>1, <1>2, <1>3, <1>4, <1>5, <1>8, OrderAppend DEF QueueInv
  <1>13. QED
    BY <1>9, <1>10, <1>11, <1>12 DEF QueueInv

LEMMA MarkerQueue ==
  ASSUME UseInv, QueueInv, markerLost \in BOOLEAN, markerLost => markerLost',
         NEW kind \in {"endSubrun", "endRun", "endOfData"}, Enqueue(kind),
         UNCHANGED <<runs, flushFailed>>,
         \/ kind = "endSubrun" /\ client = "flushed" /\ client' = "ended"
         \/ kind = "endRun" /\ client = "ended" /\ client' = "idle"
         \/ kind = "endOfData" /\ client = "idle" /\ client' = "joining"
  PROVE  QueueInv'
  <1>1. /\ StoreTypeOK /\ flushFailed \in BOOLEAN /\ ItemInv /\ runs \in Nat /\ run_id \in 1 .. MaxRun
    BY DEF UseInv, LossInv, QueueInv, StoreTypeOK
  <1>2. /\ queue' = Append(queue, Marker(kind))
        /\ UNCHANGED <<run_id, subrun_id, events, popped>>
    BY DEF Enqueue
  <1>3. /\ Marker(kind) \in Item /\ Marker(kind).kind = kind
        /\ Marker(kind).run = run_id /\ Marker(kind).subrun = subrun_id
    BY <1>1, MarkerType DEF Marker
  <1>4. kind # "endOfData" => run_id = runs
    BY <1>1 DEF UseInv, TogetherInv, NumberInv
  <1>5. kind = "endSubrun" => subrun_id >= 1
    BY <1>1 DEF ItemInv, InRun
  <1> DEFINE e == Marker(kind)
  <1> HIDE DEF e
  <1>6. queue' = Append(queue, e) /\ e \in Item /\ e.kind = kind /\ e.run = run_id /\ e.subrun = subrun_id
    BY <1>2, <1>3 DEF e
  <1>7. ItemInv'
    <2>1. e.kind # "endOfData" => e.run <= runs
      BY <1>1, <1>4, <1>6
    <2>2. client' \in InRun => subrun_id' >= 1
      BY <1>2, <1>5 DEF InRun
    <2>3. \A k \in DOMAIN events' : /\ events'[k].run \in 1 .. MaxRun /\ events'[k].subrun >= 1
                                    /\ events'[k].frags # {}
      BY <1>1, <1>2 DEF ItemInv
    <2>4. QED
      BY <1>1, <1>2, <1>5, <1>6, <2>1, <2>2, <2>3, ItemAppend
  <1>8. EndInv'
    BY <1>1, <1>2, <1>6, EndAppend DEF QueueInv
  <1>9. ApartInv'
    BY <1>1, <1>2, <1>6, ApartAppend DEF QueueInv
  <1>10. OrderInv'
    BY <1>1, <1>2, <1>6, OrderAppend DEF QueueInv, InRun
  <1>11. QED
    BY <1>7, <1>8, <1>9, <1>10 DEF QueueInv

LEMMA CallerQueue ==
  ASSUME UseInv, QueueInv, markerLost \in BOOLEAN, CallerStep
  PROVE  QueueInv'
  <1>0. /\ flushFailed \in BOOLEAN /\ client \in Clients
        /\ \A k \in DOMAIN events : /\ events[k].run \in 1 .. MaxRun /\ events[k].subrun >= 1
                                    /\ events[k].frags # {}
    BY DEF UseInv, LossInv, QueueInv, ItemInv
  <1>1. markerLost' = (markerLost \/ (client = "flushed" /\ Full))
    BY DEF CallerStep
  <1>2. CASE StartRun \/ StartSubrun
    <2>1. client # "flushed"
      BY <1>2 DEF StartRun, StartSubrun, Goto
    <2>2. QED
      BY <1>1, <1>2, <2>1, BeginQueue
  <1>3. CASE FlushOne
    <2>1. client # "flushed"
      BY <1>3 DEF FlushOne
    <2>2. QED
      BY <1>1, <1>3, <2>1, FlushQueue
  <1>4. ASSUME NEW f \in Fragment, InsertFragment(f)
        PROVE  QueueInv'
    BY <1>1, <1>4, InsertQueue
  <1>5. CASE EndOfData
    <2>1. Enqueue("endOfData") /\ UNCHANGED <<runs, flushFailed>> /\ client = "idle" /\ client' = "joining"
      BY <1>5 DEF EndOfData, Goto
    <2>2. QED
      BY <1>1, <2>1, MarkerQueue
  <1>6. CASE EndSubrun
    <2>1. UNCHANGED <<runs, flushFailed>> /\ client = "flushed" /\ client' = "ended"
      BY <1>6 DEF EndSubrun, Goto
    <2>2. CASE Enqueue("endSubrun")
      BY <1>1, <2>1, <2>2, MarkerQueue
    <2>3. CASE Full /\ UNCHANGED storeVars
      <3>1. markerLost' /\ UNCHANGED <<queue, popped, run_id, subrun_id, events>>
        BY <1>1, <2>1, <2>3 DEF storeVars
      <3>2. QED
        BY <1>0, <2>1, <3>1, KeepQueue DEF InRun
    <2>4. QED
      BY <1>6, <2>2, <2>3 DEF EndSubrun, EnqueueOrGiveUp
  <1>7. CASE EndRun
    <2>1. UNCHANGED <<runs, flushFailed>> /\ client = "ended" /\ client' = "idle"
      BY <1>7 DEF EndRun, Goto
    <2>2. CASE Enqueue("endRun")
      BY <1>1, <2>1, <2>2, MarkerQueue
    <2>3. CASE Full /\ UNCHANGED storeVars
      <3>1. UNCHANGED <<queue, popped, run_id, subrun_id, events>>
        BY <2>3 DEF storeVars
      <3>2. QED
        BY <1>0, <1>1, <2>1, <3>1, KeepQueue DEF InRun
    <2>4. QED
      BY <1>7, <2>2, <2>3 DEF EndRun, EnqueueOrGiveUp
  <1>8. CASE BeginFlush \/ EndFlush \/ JoinReader
    <2>1. /\ UNCHANGED <<queue, popped, run_id, subrun_id, runs, events>>
          /\ flushFailed => flushFailed'
          /\ \/ client = "running" /\ client' = "flushing"
             \/ client = "flushing" /\ client' = "flushed"
             \/ client = "joining" /\ client' = "shutdown"
      <3>1. CASE BeginFlush
        BY <3>1 DEF BeginFlush, Goto, storeVars
      <3>2. CASE EndFlush
        BY <1>0, <3>2 DEF EndFlush, FlushReturn, Goto
      <3>3. CASE JoinReader
        BY <3>3 DEF JoinReader, Goto, storeVars
      <3>4. QED
        BY <1>8, <3>1, <3>2, <3>3
    <2>2. QED
      BY <1>0, <1>1, <2>1, KeepQueue DEF InRun
  <1>9. QED
    BY <1>2, <1>3, <1>4, <1>5, <1>6, <1>7, <1>8 DEF CallerStep, Caller

\* The caller takes nothing from the queue.
LEMMA CallerPops ==
  ASSUME CallerStep
  PROVE  UNCHANGED popped
  <1>1. CASE \E f \in Fragment : InsertFragment(f)
    BY <1>1 DEF InsertFragment, InsertAccepted, Insert
  <1>2. CASE StartRun \/ StartSubrun
    BY <1>2 DEF StartRun, StartSubrun, startRun, startSubrun
  <1>3. CASE EndSubrun \/ EndRun \/ EndOfData
    BY <1>3 DEF EndSubrun, EndRun, EndOfData, EnqueueOrGiveUp, Enqueue, storeVars
  <1>4. CASE BeginFlush \/ FlushOne \/ EndFlush \/ JoinReader
    BY <1>4 DEF BeginFlush, FlushOne, FlushEvent, EndFlush, FlushReturn, JoinReader, storeVars
  <1>5. QED
    BY <1>1, <1>2, <1>3, <1>4 DEF CallerStep, Caller

\* Art takes from the queue.
LEMMA ArtQueue ==
  ASSUME UseInv, QueueInv, ArtStep
  PROVE  QueueInv'
  <1>1. UNCHANGED <<client, runs, flushFailed, markerLost>>
    BY DEF ArtStep, useVars
  <1>2. UNCHANGED <<events, run_id, subrun_id>> /\ Enqueued' = Enqueued
    <2>1. CASE Dequeue
      <3>1. Enqueued' = Enqueued
        BY <2>1, EnqueuedDequeue DEF UseInv, LossInv
      <3>2. QED
        BY <2>1, <3>1 DEF Dequeue
    <2>2. CASE UNCHANGED storeVars
      BY <2>2 DEF storeVars, Enqueued
    <2>3. QED
      BY <2>1, <2>2, ArtStepStore
  <1>3. OfSubrun' = OfSubrun /\ RunMarkers' = RunMarkers /\ EnqueuedEvents' = EnqueuedEvents
    BY <1>2, SameItems
  <1>4. QED
    BY <1>1, <1>2, <1>3 DEF QueueInv, ItemInv, EndInv, ApartInv, OrderInv

-----------------------------------------------------------------------------
(* What readNext makes of an item.                                         *)

\* The call that writes an event.
Writing(item) == write([subrun |-> SubrunOf(item), event |-> item])

Going(item) ==
  /\ item.kind = "event" /\ inSR = SubrunOf(item)
  /\ UNCHANGED <<inR, inSR, open>>
Beginning(item) ==
  /\ item.kind \in {"event", "endSubrun"} /\ inSR # SubrunOf(item)
  /\ inR' = item.run /\ inSR' = SubrunOf(item) /\ open' = SubrunOf(item)
EndingSubrun(item) ==
  /\ item.kind = "endSubrun" /\ inSR = SubrunOf(item)
  /\ inR' = inR /\ inSR' = <<inR, Flush>> /\ open' = NoSubrun
EndingRun(item) ==
  /\ item.kind = "endRun" /\ inSR # FlushSubrun
  /\ inR' = Flush /\ inSR' = FlushSubrun /\ open' = NoSubrun
Complaining(item) ==
  /\ item.kind = "endRun" /\ inSR = FlushSubrun
  /\ UNCHANGED <<inR, inSR, open>>

LEMMA SameSubrun ==
  ASSUME inSR \in Int \X Int, NEW item \in Item
  PROVE  /\ inSR = SubrunOf(item) <=> inSR[1] = item.run /\ inSR[2] = item.subrun
         /\ inSR = <<inSR[1], inSR[2]>>
         /\ SubrunOf(item) \in Int \X Int /\ SubrunOf(item)[1] = item.run /\ SubrunOf(item)[2] = item.subrun
  BY DEF SubrunOf, Item

LEMMA EventRead ==
  ASSUME PlaceInv, NEW item \in Item, item.kind = "event", item.run >= 1, item.subrun >= 1,
         TakeOver(Read(item))
  PROVE  /\ ~complained'
         /\ Going(item) \/ Beginning(item)
         /\ Calls(Read(item)) = IF inSR = SubrunOf(item) THEN <<Writing(item)>>
                                ELSE EndOpen \o <<Writing(item)>>
  <1> DEFINE S == SubrunOf(item)
             made == ReadEvent(item)
             e == [subrun |-> S, event |-> item]
  <1>1. inSR \in Int \X Int /\ inSR[1] = inR /\ inR \in Int
    BY DEF PlaceInv, ArtTypeOK
  <1>2. Read(item) = made
    BY DEF Read
  <1>3. /\ inSR = S <=> inSR[1] = item.run /\ inSR[2] = item.subrun
        /\ S[1] = item.run /\ S[2] = item.subrun
    BY <1>1, SameSubrun
  <1>4. S # NoSubrun /\ ~IsFlush(S) /\ item.run \in Int /\ item.subrun \in Int /\ item.run # None
    BY <1>3 DEF NoSubrun, None, IsFlush, Flush, Item
  <1>5. /\ made.es = <<e>> /\ made.r = (IF inR # item.run THEN item.run ELSE None)
        /\ made.subrun = (IF inSR # S THEN S ELSE NoSubrun)
    BY DEF ReadEvent, Made, NewRun
  <1>6. At(made) = S
    BY <1>4, <1>5 DEF At
  <1> HIDE DEF made, S
  <1>7. ~Rejected(made)
    <2>1. \A i \in DOMAIN made.es : made.es[i].subrun = S
      BY <1>5
    <2>2. QED
      BY <1>4, <1>5, <1>6, <2>1 DEF Rejected
  <1>8. [i \in DOMAIN made.es |-> write(made.es[i])] = <<Writing(item)>>
    BY <1>5 DEF Writing, S
  <1>9. /\ complained' = FALSE
        /\ inR' = (IF made.r = None THEN inR ELSE made.r)
        /\ inSR' = S
        /\ open' = CASE made.subrun = NoSubrun -> open
                     [] IsFlush(made.subrun) -> NoSubrun
                     [] OTHER -> made.subrun
    BY <1>2, <1>6, <1>7 DEF TakeOver
  <1>10. CASE inSR = S
    <2>1. made.subrun = NoSubrun /\ made.r = None
      BY <1>1, <1>3, <1>5, <1>10
    <2>5. ~IsFlush(NoSubrun)
      BY DEF IsFlush, NoSubrun, Flush, None
    <2>6. open' = open /\ inR' = inR
      BY <1>9, <2>1, <2>5
    <2>2. Going(item)
      BY <1>9, <1>10, <2>6 DEF Going, S
    <2>3. Calls(made) = <<>> \o <<Writing(item)>>
      BY <1>7, <1>8, <2>1 DEF Calls
    <2>4. QED
      BY <1>2, <1>9, <1>10, <2>2, <2>3 DEF S
  <1>11. CASE inSR # S
    <2>1. made.subrun = S
      BY <1>5, <1>11
    <2>2. inR' = item.run
      BY <1>4, <1>5, <1>9
    <2>3. Beginning(item)
      BY <1>4, <1>9, <1>11, <2>1, <2>2 DEF Beginning, S
    <2>4. Calls(made) = EndOpen \o <<Writing(item)>>
      BY <1>4, <1>7, <1>8, <2>1 DEF Calls
    <2>5. QED
      BY <1>2, <1>9, <1>11, <2>3, <2>4 DEF S
  <1>12. QED
    BY <1>10, <1>11

LEMMA EndRead ==
  ASSUME PlaceInv, NEW item \in Item, item.kind \in {"endSubrun", "endRun"},
         item.run >= 1, item.kind = "endSubrun" => item.subrun >= 1, TakeOver(Read(item))
  PROVE  \/ /\ ~complained'
            /\ Beginning(item) \/ EndingSubrun(item) \/ EndingRun(item)
            /\ Calls(Read(item)) = EndOpen
         \/ complained' /\ Complaining(item) /\ Calls(Read(item)) = <<>>
  <1> DEFINE S == SubrunOf(item)
             made == Read(item)
             Quiet == made.es = <<>>
  <1>1. inSR \in Int \X Int /\ inSR[1] = inR /\ inR \in Int /\ (inR = None => inSR = NoSubrun)
    BY DEF PlaceInv, ArtTypeOK
  <1>3. /\ inSR = S <=> inSR[1] = item.run /\ inSR[2] = item.subrun
        /\ S[1] = item.run /\ S[2] = item.subrun /\ inSR = <<inSR[1], inSR[2]>>
    BY <1>1, SameSubrun
  <1> HIDE DEF made, S
  <1>4. ASSUME made.es = <<>>, made.subrun # NoSubrun, made.subrun # inSR
        PROVE  /\ complained' = FALSE /\ Calls(made) = EndOpen
               /\ inR' = (IF made.r = None THEN inR ELSE made.r)
               /\ inSR' = made.subrun
               /\ open' = (IF IsFlush(made.subrun) THEN NoSubrun ELSE made.subrun)
    <2>1. ~Rejected(made)
      BY <1>4 DEF Rejected
    <2>2. [i \in DOMAIN made.es |-> write(made.es[i])] = <<>>
      BY <1>4
    <2>3. Calls(made) = EndOpen \o <<>>
      BY <1>4, <2>1, <2>2 DEF Calls
    <2>4. EndOpen \o <<>> = EndOpen
      BY DEF EndOpen
    <2>5. QED
      BY <1>4, <2>1, <2>3, <2>4 DEF TakeOver, At, made
  <1>5. CASE item.kind = "endRun"
    <2>1. made = Made(Flush, FlushSubrun, <<>>)
      BY <1>5 DEF made, Read, ReadEndOfRun
    <2>2. /\ made.es = <<>> /\ made.subrun = FlushSubrun /\ made.r = Flush /\ made.subrun # NoSubrun
          /\ IsFlush(made.subrun) /\ made.r # None
      BY <2>1 DEF Made, FlushSubrun, NoSubrun, None, Flush, IsFlush
    <2>3. CASE inSR # FlushSubrun
      BY <1>4, <1>5, <2>2, <2>3 DEF EndingRun, made
    <2>4. CASE inSR = FlushSubrun
      <3>1. Rejected(made)
        BY <2>2, <2>4 DEF Rejected
      <3>2. QED
        BY <1>5, <2>4, <3>1 DEF TakeOver, Calls, Complaining, made
    <2>5. QED
      BY <2>3, <2>4
  <1>6. CASE item.kind = "endSubrun"
    <2>1. made = ReadEndOfSubrun(item)
      BY <1>6 DEF made, Read
    <2>2. /\ S # NoSubrun /\ ~IsFlush(S) /\ item.run \in Int /\ item.subrun \in Int
          /\ item.run # None /\ item.subrun # Flush
      BY <1>3, <1>6 DEF NoSubrun, None, IsFlush, Flush, Item
    <2>3. CASE inSR = S
      <3>1. inR = item.run /\ inSR # NoSubrun /\ ~IsFlush(inSR) /\ inSR[2] = item.subrun
        BY <1>1, <1>3, <2>2, <2>3
      <3>2. made = Made(None, <<inR, Flush>>, <<>>)
        BY <2>1, <3>1 DEF ReadEndOfSubrun, NewRun
      <3>3. /\ made.es = <<>> /\ made.subrun = <<inR, Flush>> /\ made.r = None /\ made.subrun # NoSubrun
            /\ IsFlush(made.subrun) /\ made.subrun # inSR
        BY <3>1, <3>2 DEF Made, NoSubrun, None, Flush, IsFlush
      <3>4. QED
        BY <1>4, <1>6, <2>3, <3>3 DEF EndingSubrun, S, made
    <2>4. CASE inSR # S
      <3>1. made = Made(IF NewRun(item) THEN item.run ELSE None, S, <<>>)
        <4>1. ~(~NewRun(item) /\ inSR # NoSubrun /\ ~IsFlush(inSR) /\ inSR[2] = item.subrun)
          BY <1>1, <1>3, <2>4 DEF NewRun
        <4>2. QED
          BY <2>1, <4>1 DEF ReadEndOfSubrun, S
      <3>2. /\ made.es = <<>> /\ made.subrun = S /\ made.subrun # inSR
            /\ made.r = (IF NewRun(item) THEN item.run ELSE None)
        BY <2>4, <3>1 DEF Made
      <3>3. (IF made.r = None THEN inR ELSE made.r) = item.run
        BY <2>2, <3>2 DEF NewRun
      <3>4. QED
        BY <1>4, <1>6, <2>2, <2>4, <3>2, <3>3 DEF Beginning, S, made
    <2>5. QED
      BY <2>3, <2>4
  <1>7. QED
    BY <1>5, <1>6

-----------------------------------------------------------------------------
(* Where art is.                                                           *)

\* The item that readNext takes.
LEMMA NextItem ==
  ASSUME StoreTypeOK, ItemInv, Dequeue
  PROVE  LET item == Head(queue) IN
         /\ item \in Item /\ item.kind # "init" /\ item.run >= 1
         /\ item.kind \in {"event", "endSubrun"} => item.subrun >= 1
         /\ Len(popped) + 1 \in DOMAIN Enqueued /\ Enqueued[Len(popped) + 1] = item
  <1> DEFINE n == Len(popped) + 1
  <1>1. Head(queue) \in Item /\ n \in DOMAIN Enqueued /\ Enqueued[n] = Head(queue)
    BY DequeueIs
  <1> HIDE DEF n
  <1>2. Enqueued[n].kind # "init" /\ Enqueued[n].run \in 1 .. MaxRun
    BY <1>1 DEF ItemInv
  <1>3. Enqueued[n].kind \in {"event", "endSubrun"} => n \in OfSubrun
    BY <1>1 DEF OfSubrun
  <1>4. Enqueued[n].kind \in {"event", "endSubrun"} => Enqueued[n].subrun >= 1
    BY <1>3 DEF ItemInv
  <1>5. QED
    BY <1>1, <1>2, <1>4 DEF n

LEMMA PoppedGrows ==
  ASSUME StoreTypeOK, Dequeue
  PROVE  LET n == Len(popped) + 1
             item == Head(queue)
         IN  /\ \A i \in Popped : i \in Popped' /\ popped'[i] = popped[i]
             /\ item.kind \in {"event", "endSubrun"} => n \in Popped' /\ popped'[n] = item
             /\ \A i \in Popped' : \/ i \in Popped
                                   \/ i = n /\ item.kind \in {"event", "endSubrun"} /\ popped'[n] = item
  <1> DEFINE n == Len(popped) + 1
  <1>1. /\ DOMAIN popped' = DOMAIN popped \cup {n} /\ n \notin DOMAIN popped
        /\ \A i \in DOMAIN popped : popped'[i] = popped[i]
        /\ popped'[n] = Head(queue)
    BY DequeueIs
  <1> HIDE DEF n
  <1>2. QED
    BY <1>1 DEF Popped, n

ReadEffect(item) ==
  \/ ~complained' /\ (Going(item) \/ Beginning(item) \/ EndingSubrun(item) \/ EndingRun(item))
  \/ complained' /\ Complaining(item)

LEMMA ReadIs ==
  ASSUME StoreTypeOK, ItemInv, PlaceInv, ReadNext
  PROVE  LET item == Head(queue) IN
         /\ item.kind \in {"event", "endSubrun", "endRun"}
         /\ complained' \in BOOLEAN /\ ReadEffect(item)
         /\ item.kind = "event" \/ Beginning(item) => Calls(Read(item)) # <<>> \/ item.kind = "endSubrun"
  <1> DEFINE item == Head(queue)
  <1>1. Dequeue /\ item.kind # "endOfData" /\ TakeOver(Read(item))
    BY DEF ReadNext
  <1>2. /\ item \in Item /\ item.kind # "init" /\ item.run >= 1
        /\ item.kind \in {"event", "endSubrun"} => item.subrun >= 1
    BY <1>1, NextItem
  <1> HIDE DEF item
  <1>3. item.kind \in {"event", "endSubrun", "endRun"}
    BY <1>1, <1>2 DEF Item
  <1>4. complained' \in BOOLEAN
    BY <1>1 DEF TakeOver, Rejected
  <1>5. CASE item.kind = "event"
    <2>1. ~complained' /\ (Going(item) \/ Beginning(item))
          /\ Calls(Read(item)) = IF inSR = SubrunOf(item) THEN <<Writing(item)>>
                                 ELSE EndOpen \o <<Writing(item)>>
      BY <1>1, <1>2, <1>5, EventRead
    <2>2. EndOpen \o <<Writing(item)>> # <<>> /\ <<Writing(item)>> # <<>>
      BY DEF EndOpen
    <2>3. Calls(Read(item)) # <<>>
      BY <2>1, <2>2
    <2>4. QED
      BY <1>4, <1>5, <2>1, <2>3 DEF ReadEffect, item
  <1>6. CASE item.kind \in {"endSubrun", "endRun"}
    <2>1. ReadEffect(item)
      BY <1>1, <1>2, <1>6, EndRead DEF ReadEffect
    <2>2. Beginning(item) => item.kind = "endSubrun"
      BY <1>6 DEF Beginning
    <2>3. QED
      BY <1>4, <1>6, <2>1, <2>2 DEF item
  <1>7. QED
    BY <1>3, <1>5, <1>6

\* art does not complain of the end of a run when the ends of the subruns got through.
LEMMA ComplainsLate ==
  ASSUME StoreTypeOK, ApartInv, PlaceInv, Dequeue, ~shutdownMsgReceived, Complaining(Head(queue))
  PROVE  markerLost
  <1> DEFINE n == Len(popped) + 1
             m == Len(popped)
  <1>1. popped # <<>> /\ LastPopped.kind = "endRun" /\ Head(queue).kind = "endRun"
    BY DEF PlaceInv, Complaining
  <1>2. n \in DOMAIN Enqueued /\ Enqueued[n] = Head(queue)
    BY DequeueIs
  <1>3. m \in DOMAIN popped /\ m \in Nat
    BY <1>1, PoppedType, EmptySeq
  <1>4. m \in DOMAIN Enqueued /\ Enqueued[m].kind = "endRun"
    BY <1>1, <1>3, PoppedType DEF LastPopped
  <1>5. m \in RunMarkers /\ n \in RunMarkers /\ m < n
    BY <1>1, <1>2, <1>3, <1>4 DEF RunMarkers
  <1>6. OfSubrun \subseteq Nat
    BY EnqueuedType DEF OfSubrun
  <1>7. ~ \E k \in OfSubrun : m < k /\ k < n
    BY <1>3, <1>6
  <1>8. QED
    BY <1>5, <1>7 DEF ApartInv

LEMMA PlaceRead ==
  ASSUME StoreTypeOK, ItemInv, ApartInv, PlaceInv, ~shutdownMsgReceived, ReadNext, markerLost' = markerLost
  PROVE  PlaceInv'
  <1> DEFINE item == Head(queue)
             n == Len(popped) + 1
  <1>1. /\ Dequeue /\ shutdownMsgReceived' = FALSE
        /\ outputFileCloseNeeded' = (item.kind = "endSubrun")
        /\ initMsgSent_' = (initMsgSent_ \/ Calls(Read(item)) # <<>>)
    BY DEF ReadNext, Output
  <1>2. /\ item \in Item /\ item.run >= 1
        /\ item.kind \in {"event", "endSubrun"} => item.subrun >= 1
    BY <1>1, NextItem
  <1>3. /\ item.kind \in {"event", "endSubrun", "endRun"}
        /\ complained' \in BOOLEAN /\ ReadEffect(item)
        /\ item.kind = "event" \/ Beginning(item) => Calls(Read(item)) # <<>> \/ item.kind = "endSubrun"
    BY ReadIs
  <1>4. /\ popped' # <<>> /\ Len(popped') = n /\ LastPopped' = item /\ popped'[n] = item
    BY <1>1, DequeueIs
  <1>5. /\ \A i \in Popped : i \in Popped' /\ popped'[i] = popped[i]
        /\ item.kind \in {"event", "endSubrun"} => n \in Popped' /\ popped'[n] = item
    BY <1>1, PoppedGrows
  <1>6. complained' => markerLost
    BY <1>1, <1>3, ComplainsLate DEF ReadEffect
  <1> HIDE DEF item, n
  <1>7. inSR \in Int \X Int /\ inR \in Int /\ inSR[1] = inR /\ (open = NoSubrun \/ open = inSR)
    BY DEF PlaceInv, ArtTypeOK
  <1>8. /\ inSR = SubrunOf(item) <=> inSR[1] = item.run /\ inSR[2] = item.subrun
        /\ SubrunOf(item) \in Int \X Int /\ SubrunOf(item)[1] = item.run /\ SubrunOf(item)[2] = item.subrun
    BY <1>2, <1>7, SameSubrun
  <1>9. item.kind \in {"event", "endSubrun"} =>
          SubrunOf(item)[2] \notin {None, Flush} /\ item.run \in Int \ {None}
    BY <1>2, <1>8 DEF None, Flush, Item
  <1>10. NoSubrun \in Int \X Int /\ FlushSubrun \in Int \X Int /\ Flush \in Int \ {None}
         /\ FlushSubrun[1] = Flush /\ FlushSubrun[2] = Flush /\ NoSubrun # FlushSubrun
    <2>1. NoSubrun[1] = -1 /\ FlushSubrun[1] = 0
      BY DEF NoSubrun, FlushSubrun, None, Flush
    <2>2. -1 \in Int /\ 0 \in Int /\ -1 # 0
      OBVIOUS
    <2>3. QED
      BY <2>1, <2>2 DEF NoSubrun, FlushSubrun, None, Flush
  <1>11. ArtTypeOK' /\ inSR'[1] = inR' /\ (inR' = None => inSR' = NoSubrun)
    <2>1. CASE Going(item) \/ Complaining(item)
      BY <1>3, <1>7, <2>1 DEF Going, Complaining, ArtTypeOK, PlaceInv
    <2>2. CASE Beginning(item)
      BY <1>3, <1>8, <1>9, <2>2 DEF Beginning, ArtTypeOK
    <2>3. CASE EndingSubrun(item)
      <3>1. inR = item.run /\ inR # None
        BY <1>7, <1>8, <1>9, <2>3 DEF EndingSubrun
      <3>2. QED
        BY <1>3, <1>7, <1>10, <2>3, <3>1 DEF EndingSubrun, ArtTypeOK
    <2>4. CASE EndingRun(item)
      BY <1>3, <1>10, <2>4 DEF EndingRun, ArtTypeOK
    <2>5. QED
      BY <1>3, <2>1, <2>2, <2>3, <2>4 DEF ReadEffect
  <1>12. inSR'[2] \notin {None, Flush} => \E i \in Popped' : SubrunOf(popped'[i]) = inSR'
    <2>1. CASE Going(item) \/ Complaining(item)
      BY <1>5, <2>1 DEF Going, Complaining, PlaceInv
    <2>2. CASE Beginning(item)
      BY <1>5, <2>2 DEF Beginning
    <2>3. CASE EndingSubrun(item)
      BY <2>3 DEF EndingSubrun
    <2>4. CASE EndingRun(item)
      BY <1>10, <2>4 DEF EndingRun
    <2>5. QED
      BY <1>3, <2>1, <2>2, <2>3, <2>4 DEF ReadEffect
  <1>13. inSR' = FlushSubrun => item.kind = "endRun"
    <2>1. CASE Going(item)
      BY <1>9, <1>10, <2>1 DEF Going
    <2>2. CASE Beginning(item)
      BY <1>9, <1>10, <2>2 DEF Beginning
    <2>3. CASE EndingSubrun(item)
      <3>1. inR = item.run /\ item.run # Flush
        BY <1>2, <1>7, <1>8, <2>3 DEF EndingSubrun, Flush
      <3>2. inSR' = <<inR, Flush>> /\ <<inR, Flush>>[1] = inR
        BY <2>3 DEF EndingSubrun
      <3>3. inSR' # FlushSubrun
        BY <1>10, <3>1, <3>2
      <3>4. QED
        BY <3>3
    <2>4. CASE EndingRun(item) \/ Complaining(item)
      BY <2>4 DEF EndingRun, Complaining
    <2>5. QED
      BY <1>3, <2>1, <2>2, <2>3, <2>4 DEF ReadEffect
  <1>14. open' # NoSubrun =>
           inSR'[2] \notin {None, Flush} /\ (initMsgSent_' \/ item.kind = "endSubrun")
    <2>1. CASE Going(item)
      BY <1>1, <1>3, <1>9, <2>1 DEF Going
    <2>2. CASE Complaining(item)
      BY <1>10, <2>2 DEF Complaining, PlaceInv
    <2>3. CASE Beginning(item)
      BY <1>1, <1>3, <1>9, <2>3 DEF Beginning
    <2>4. CASE EndingSubrun(item) \/ EndingRun(item)
      BY <2>4 DEF EndingSubrun, EndingRun
    <2>5. QED
      BY <1>3, <2>1, <2>2, <2>3, <2>4 DEF ReadEffect
  <1>15. ~ReaderDone'
    BY <1>3, <1>4 DEF ReaderDone
  <1>16. shutdownMsgReceived' \in BOOLEAN /\ outputFileCloseNeeded' \in BOOLEAN
         /\ initMsgSent_' \in BOOLEAN /\ markerLost' \in BOOLEAN
    BY <1>1 DEF PlaceInv
  <1>17. QED
    BY <1>1, <1>4, <1>6, <1>11, <1>12, <1>13, <1>14, <1>15, <1>16 DEF PlaceInv

LEMMA PlaceClose ==
  ASSUME PlaceInv, ~shutdownMsgReceived, ReadNextClose, markerLost' = markerLost
  PROVE  PlaceInv'
  <1>1. /\ outputFileCloseNeeded' = FALSE /\ open' = NoSubrun
        /\ UNCHANGED <<inR, inSR, complained, popped, shutdownMsgReceived>>
        /\ initMsgSent_' = (initMsgSent_ \/ EndOpen # <<>>)
    BY DEF ReadNextClose, CloseFile, Output, storeVars
  <1>2. Popped' = Popped /\ LastPopped' = LastPopped /\ ReaderDone' = ReaderDone
    BY <1>1 DEF Popped, LastPopped, ReaderDone
  <1>3. initMsgSent_' \in BOOLEAN
    BY <1>1 DEF PlaceInv
  <1>4. ArtTypeOK'
    BY <1>1 DEF ArtTypeOK, PlaceInv
  <1>5. QED
    BY <1>1, <1>2, <1>3, <1>4 DEF PlaceInv

LEMMA PlaceEnd ==
  ASSUME StoreTypeOK, PlaceInv, ReadNextEnd, markerLost' = markerLost
  PROVE  PlaceInv'
  <1>1. /\ shutdownMsgReceived' = TRUE /\ open' = NoSubrun /\ Dequeue /\ ~outputFileCloseNeeded
        /\ UNCHANGED <<inR, inSR, complained, outputFileCloseNeeded, initMsgSent_>>
        /\ Head(queue).kind = "endOfData"
    BY DEF ReadNextEnd, CloseFile, OutputEndJob
  <1>2. popped' # <<>> /\ LastPopped' = Head(queue)
    BY <1>1, DequeueIs
  <1>3. ReaderDone'
    BY <1>1, <1>2 DEF ReaderDone, LastPopped
  <1>4. \A i \in Popped : i \in Popped' /\ popped'[i] = popped[i]
    BY <1>1, PoppedGrows
  <1>5. inSR[2] \notin {None, Flush} => \E i \in Popped' : SubrunOf(popped'[i]) = inSR
    BY <1>4 DEF PlaceInv
  <1>6. ArtTypeOK'
    BY <1>1 DEF ArtTypeOK, PlaceInv
  <1>7. QED
    BY <1>1, <1>3, <1>5, <1>6 DEF PlaceInv

\* The caller, and a caller that waits in vain, leave art where it is.
LEMMA PlaceKept ==
  ASSUME PlaceInv, UNCHANGED <<artVars, readerVars, outputVars, popped>>,
         markerLost' \in BOOLEAN, markerLost => markerLost'
  PROVE  PlaceInv'
  <1>1. UNCHANGED <<inR, inSR, open, complained, shutdownMsgReceived, outputFileCloseNeeded, initMsgSent_>>
    BY DEF artVars, readerVars, outputVars
  <1>2. Popped' = Popped /\ LastPopped' = LastPopped /\ ReaderDone' = ReaderDone
    BY DEF Popped, LastPopped, ReaderDone
  <1>3. ArtTypeOK'
    BY <1>1 DEF ArtTypeOK, PlaceInv
  <1>4. QED
    BY <1>1, <1>2, <1>3 DEF PlaceInv
WhereInv == UseInv /\ QueueInv /\ PlaceInv

LEMMA WhereStart == AllInit => WhereInv
  <1> SUFFICES ASSUME AllInit PROVE WhereInv
    OBVIOUS
  <1>1. UseInv
    BY AllUseStart
  <1>2. popped = <<>> /\ queue = <<>> /\ events = [k \in {} |-> 0] /\ client = "idle" /\ ~flushFailed
    BY DEF AllInit, Init, StoreInit
  <1>3. Enqueued = <<>> /\ DOMAIN Enqueued = {}
    BY <1>2 DEF Enqueued
  <1>4. OfSubrun = {} /\ RunMarkers = {} /\ EnqueuedEvents = {} /\ Popped = {} /\ ~ReaderDone
    BY <1>2, <1>3 DEF OfSubrun, RunMarkers, EnqueuedEvents, Popped, ReaderDone
  <1>5. QueueInv
    BY <1>2, <1>3, <1>4 DEF QueueInv, ItemInv, EndInv, ApartInv, OrderInv, InRun
  <1>6. /\ inR = None /\ inSR = NoSubrun /\ open = NoSubrun /\ complained = FALSE
        /\ shutdownMsgReceived = FALSE /\ outputFileCloseNeeded = FALSE
        /\ initMsgSent_ = FALSE /\ markerLost = FALSE
    BY DEF AllInit, ArtInit
  <1>7. /\ None \in Int /\ NoSubrun \in Int \X Int /\ NoSubrun[1] = None /\ NoSubrun[2] = None
        /\ NoSubrun # FlushSubrun
    <2>1. NoSubrun[1] = -1 /\ FlushSubrun[1] = 0
      BY DEF NoSubrun, FlushSubrun, None, Flush
    <2>2. -1 \in Int /\ -1 # 0
      OBVIOUS
    <2>3. QED
      BY <2>1, <2>2 DEF NoSubrun, FlushSubrun, None, Flush
  <1>8. PlaceInv
    BY <1>4, <1>6, <1>7 DEF PlaceInv, ArtTypeOK
  <1>9. QED
    BY <1>1, <1>5, <1>8 DEF WhereInv

LEMMA WhereStep == WhereInv /\ [AllNext]_allVars => WhereInv'
  <1> SUFFICES ASSUME WhereInv, [AllNext]_allVars PROVE WhereInv'
    OBVIOUS
  <1>0. UseInv /\ QueueInv /\ PlaceInv
    BY DEF WhereInv
  <1>1. UseInv'
    BY <1>0, AllUseStep
  <1>2. StoreTypeOK /\ markerLost \in BOOLEAN /\ flushFailed \in BOOLEAN /\ client \in Clients
        /\ ItemInv /\ ApartInv
    BY <1>0 DEF UseInv, LossInv, PlaceInv, QueueInv
  <1>3. CASE CallerStep
    <2>1. QueueInv'
      BY <1>0, <1>2, <1>3, CallerQueue
    <2>2. UNCHANGED popped
      BY <1>3, CallerPops
    <2>3. PlaceInv'
      BY <1>0, <1>2, <1>3, <2>2, PlaceKept DEF CallerStep
    <2>4. QED
      BY <1>1, <2>1, <2>3 DEF WhereInv
  <1>4. CASE ArtStep
    <2>1. QueueInv'
      BY <1>0, <1>4, ArtQueue
    <2>2. /\ ~shutdownMsgReceived /\ markerLost' = markerLost
          /\ ReadNext \/ ReadNextClose \/ ReadNextEnd
      BY <1>4 DEF ArtStep, ArtDone
    <2>3. PlaceInv'
      BY <1>0, <1>2, <2>2, PlaceRead, PlaceClose, PlaceEnd
    <2>4. QED
      BY <1>1, <2>1, <2>3 DEF WhereInv
  <1>5. CASE JoinThrown \/ UNCHANGED allVars
    <2>1. /\ UNCHANGED <<storeVars, runs, flushFailed, artVars, readerVars, outputVars, markerLost>>
          /\ client' = client \/ (client = "joining" /\ client' = "shutdown")
      BY <1>5 DEF JoinThrown, Goto, allVars, vars, useVars
    <2>2. UNCHANGED <<queue, popped, run_id, subrun_id, events>>
      BY <2>1 DEF storeVars
    <2>3. \A k \in DOMAIN events' : /\ events'[k].run \in 1 .. MaxRun /\ events'[k].subrun >= 1
                                    /\ events'[k].frags # {}
      BY <1>2, <2>2 DEF ItemInv
    <2>4. QueueInv'
      BY <1>0, <1>2, <2>1, <2>2, <2>3, KeepQueue DEF InRun
    <2>5. PlaceInv'
      BY <1>0, <1>2, <2>1, <2>2, PlaceKept
    <2>6. QED
      BY <1>1, <2>4, <2>5 DEF WhereInv
  <1>6. QED
    BY <1>3, <1>4, <1>5 DEF AllNext, AllTerminated

\* art's place among runs and subruns is that of the item it took last.
THEOREM ArtKnowsItsPlace == AllSpec => []WhereInv
  BY WhereStart, WhereStep, PTL DEF AllSpec

\* art complains of nothing but the end of a run that follows another, which takes the
\* end of a subrun that found the queue full.
THEOREM ArtNeverComplains == AllSpec => []NeverComplains
  <1>1. WhereInv => NeverComplains
    BY DEF WhereInv, PlaceInv, NeverComplains
  <1>2. QED
    BY <1>1, ArtKnowsItsPlace, PTL

-----------------------------------------------------------------------------
(* Sequences of messages.                                                  *)

LEMMA FlattenOne ==
  ASSUME NEW a
  PROVE  FlattenSeq(<<a>>) = a
  <1> DEFINE D == 1 .. Len(<<a>>)
             P(f) == f = [i \in D |-> IF i = 1 THEN <<a>>[i] ELSE f[i - 1] \o <<a>>[i]]
             g == [i \in D |-> a]
  <1>0. D = {1} /\ Len(<<a>>) = 1
    OBVIOUS
  <1>1. P(g)
    BY <1>0
  <1>2. P(CHOOSE f : P(f))
    BY <1>1
  <1>3. (CHOOSE f : P(f))[1] = a
    BY <1>0, <1>2
  <1> QED
    BY <1>0, <1>3 DEF FlattenSeq

LEMMA FlattenTwo ==
  ASSUME NEW a, NEW b
  PROVE  FlattenSeq(<<a, b>>) = a \o b
  <1> DEFINE s == <<a, b>>
             D == 1 .. Len(s)
             P(f) == f = [i \in D |-> IF i = 1 THEN s[i] ELSE f[i - 1] \o s[i]]
             g == [i \in D |-> IF i = 1 THEN a ELSE a \o b]
  <1>0. D = {1, 2} /\ Len(s) = 2 /\ s[1] = a /\ s[2] = b
    OBVIOUS
  <1>1. P(g)
    BY <1>0
  <1>2. P(CHOOSE f : P(f))
    BY <1>1
  <1>3. ASSUME NEW f, P(f)
        PROVE  f[2] = a \o b
    <2>1. f[1] = a
      BY <1>0, <1>3
    <2> DEFINE F(i) == IF i = 1 THEN s[i] ELSE f[i - 1] \o s[i]
    <2>2. f = [i \in D |-> F(i)]
      BY <1>3
    <2>3. f[2] = F(2)
      <3> HIDE DEF F
      <3> QED
        BY <1>0, <2>2
    <2>4. F(2) = f[1] \o b
      <3>1. 2 - 1 = 1 /\ 2 # 1
        OBVIOUS
      <3> HIDE DEF s
      <3> QED
        BY <1>0, <3>1
    <2> HIDE DEF F
    <2> QED
      BY <2>1, <2>3, <2>4
  <1>4. (CHOOSE f : P(f))[2] = a \o b
    BY <1>2, <1>3
  <1> HIDE DEF P
  <1>5. FlattenSeq(s) = (CHOOSE f : P(f))[Len(s)]
    BY <1>0 DEF FlattenSeq, P
  <1> QED
    BY <1>0, <1>4, <1>5

LEMMA MessagesAre ==
  ASSUME NEW c, NEW d
  PROVE  /\ Messages(<<>>) = <<>>
         /\ Messages(<<c>>) = MessagesOf(c)
         /\ Messages(<<c, d>>) = MessagesOf(c) \o MessagesOf(d)
  <1>1. Messages(<<>>) = <<>>
    <2> DEFINE s == [i \in DOMAIN <<>> |-> MessagesOf(<<>>[i])]
    <2>1. s = <<>>
      OBVIOUS
    <2>2. FlattenSeq(<<>>) = <<>>
      BY DEF FlattenSeq
    <2>3. QED
      BY <2>1, <2>2 DEF Messages
  <1>2. Messages(<<c>>) = MessagesOf(c)
    <2> DEFINE s == [i \in DOMAIN <<c>> |-> MessagesOf(<<c>>[i])]
    <2>1. s = <<MessagesOf(c)>>
      OBVIOUS
    <2>2. Messages(<<c>>) = FlattenSeq(s)
      BY DEF Messages
    <2> HIDE DEF s
    <2>3. QED
      BY <2>1, <2>2, FlattenOne
  <1>3. Messages(<<c, d>>) = MessagesOf(c) \o MessagesOf(d)
    <2> DEFINE s == [i \in DOMAIN <<c, d>> |-> MessagesOf(<<c, d>>[i])]
    <2>1. s = <<MessagesOf(c), MessagesOf(d)>>
      OBVIOUS
    <2>2. Messages(<<c, d>>) = FlattenSeq(s)
      BY DEF Messages
    <2> HIDE DEF s
    <2>3. QED
      BY <2>1, <2>2, FlattenTwo
  <1>4. QED
    BY <1>1, <1>2, <1>3

DataAt(s) == {i \in DOMAIN s : s[i].type = "data"}
Ended(s) == {s[i].subrun : i \in {j \in DOMAIN s : s[j].type = "endSubrun"}}

LEMMA Appended ==
  ASSUME NEW s \in Seq(Packet), NEW m \in Packet
  PROVE  LET t == Append(s, m)
             n == Len(s) + 1
         IN  /\ t \in Seq(Packet) /\ t # <<>> /\ Len(s) \in Nat /\ Len(t) = n
             /\ DOMAIN s = 1 .. Len(s) /\ DOMAIN t = DOMAIN s \cup {n} /\ n \notin DOMAIN s
             /\ t[n] = m /\ Last(t) = m
             /\ \A i \in DOMAIN s : i \in Nat /\ i < n /\ t[i] = s[i] /\ s[i] \in Packet
             /\ m.type # "endSubrun" => Ended(t) = Ended(s)
             /\ m.type = "endSubrun" => Ended(t) = Ended(s) \cup {m.subrun}
             /\ m.type # "data" => DataAt(t) = DataAt(s)
             /\ m.type = "data" => DataAt(t) = DataAt(s) \cup {n}
  <1> DEFINE t == Append(s, m)
             n == Len(s) + 1
  <1>1. Len(s) \in Nat /\ DOMAIN s = 1 .. Len(s) /\ \A i \in DOMAIN s : s[i] \in Packet
    BY LenProperties, ElementOfSeq
  <1>2. /\ t \in Seq(Packet) /\ t # <<>> /\ Len(t) = n
        /\ \A i \in 1 .. Len(s) : t[i] = s[i]
        /\ t[n] = m
    BY AppendProperties
  <1>3. DOMAIN t = 1 .. n
    BY <1>2, LenProperties
  <1> HIDE DEF t
  <1>4. DOMAIN t = DOMAIN s \cup {n} /\ n \notin DOMAIN s /\ \A i \in DOMAIN s : i \in Nat /\ i < n
    BY <1>1, <1>3
  <1>5. Last(t) = m
    BY <1>2 DEF Last
  <1>6. \A i \in DOMAIN s : t[i] = s[i]
    BY <1>1, <1>2
  <1> HIDE DEF n
  <1>7. /\ m.type # "endSubrun" => Ended(t) = Ended(s)
        /\ m.type = "endSubrun" => Ended(t) = Ended(s) \cup {m.subrun}
    BY <1>2, <1>4, <1>6 DEF Ended
  <1>8. /\ m.type # "data" => DataAt(t) = DataAt(s)
        /\ m.type = "data" => DataAt(t) = DataAt(s) \cup {n}
    BY <1>2, <1>4, <1>6 DEF DataAt
  <1>9. QED
    BY <1>1, <1>2, <1>4, <1>5, <1>6, <1>7, <1>8 DEF t, n

LEMMA ConnectionsAppend ==
  ASSUME NEW s, Connections(s), NEW m \in Packet, Follows(s, m)
  PROVE  Connections(Append(s, m))
  <1> DEFINE t == Append(s, m)
             N == Len(s)
             n == N + 1
             Start(i, p) == /\ p = 0 \/ t[p].type = "eod"
                            /\ \A k \in p + 1 .. i - 1 : t[k].type # "eod"
             Same(i, j) == /\ i < j /\ Carries(t[i]) /\ Carries(t[j])
                           /\ \A k \in i .. j : t[k].type # "eod"
  <1>1. s \in Seq(Packet)
    BY DEF Connections
  <1>2. /\ t \in Seq(Packet) /\ t # <<>> /\ N \in Nat /\ Len(t) = n
        /\ DOMAIN s = 1 .. N /\ DOMAIN t = DOMAIN s \cup {n} /\ n \notin DOMAIN s
        /\ t[n] = m
        /\ \A i \in DOMAIN s : i \in Nat /\ i < n /\ t[i] = s[i]
    BY <1>1, Appended
  <1>3. CASE s = <<>>
    <2>1. N = 0 /\ n = 1 /\ DOMAIN t = {1}
      BY <1>2, <1>3, EmptySeq
    <2>2. t[1] = m /\ m.type \in {"init", "shutdown"}
      BY <1>2, <1>3, <2>1 DEF Follows
    <2> HIDE DEF t, N
    <2>3. \A i \in DOMAIN t \cup {Len(t) + 1} : \E p \in 0 .. i - 1 : Start(i, p)
      <3>1. Len(t) + 1 = 2
        BY <1>2, <2>1
      <3>2. 0 \in 0 .. 1 - 1 /\ Start(1, 0)
        OBVIOUS
      <3>3. 0 \in 0 .. 2 - 1 /\ Start(2, 0)
        BY <2>2
      <3>4. QED
        BY <2>1, <3>1, <3>2, <3>3
    <2>4. QED
      BY <1>2, <2>1, <2>2, <2>3 DEF Connections, t
  <1>4. CASE s # <<>>
    <2> DEFINE l == s[N]
    <2>1. N \in Nat \ {0} /\ N \in DOMAIN s /\ l = Last(s) /\ t[N] = l /\ 1 \in DOMAIN s /\ t[1] = s[1]
      <3>1. N # 0
        BY <1>1, <1>4, EmptySeq
      <3>2. N \in DOMAIN s /\ 1 \in DOMAIN s
        BY <1>2, <3>1
      <3>3. QED
        BY <1>2, <3>1, <3>2 DEF Last
    <2>2. /\ m.type # "init"
          /\ m.type = "eod" <=> l.type \in {"endSubrun", "shutdown"}
          /\ m.type = "shutdown" => l.type = "eod"
          /\ Carries(m) /\ l.type = "data" => m.subrun = l.subrun
      BY <1>4, <2>1 DEF Follows
    <2>3. /\ t[1].type \in {"init", "shutdown"}
          /\ \A i \in DOMAIN s :
               /\ s[i].type = "init" => i = 1
               /\ s[i].type = "eod" => i > 1 /\ s[i - 1].type \in {"endSubrun", "shutdown"}
               /\ s[i].type # "eod" => i = 1 \/ s[i - 1].type \notin {"endSubrun", "shutdown"}
               /\ s[i].type = "shutdown" => i = 1 \/ s[i - 1].type = "eod"
      BY <1>4, <2>1 DEF Connections
    <2>4. \A i, j \in DOMAIN s :
            /\ i < j /\ Carries(s[i]) /\ Carries(s[j])
            /\ \A k \in i .. j : s[k].type # "eod"
            => s[i].subrun = s[j].subrun
      BY DEF Connections
    <2>5. \A i \in DOMAIN s \cup {n} : \E p \in 0 .. i - 1 :
            /\ p = 0 \/ s[p].type = "eod"
            /\ \A k \in p + 1 .. i - 1 : s[k].type # "eod"
      BY DEF Connections
    <2> HIDE DEF t, N, l
    <2>6. \A i \in DOMAIN t :
            /\ t[i].type = "init" => i = 1
            /\ t[i].type = "eod" => i > 1 /\ t[i - 1].type \in {"endSubrun", "shutdown"}
            /\ t[i].type # "eod" => i = 1 \/ t[i - 1].type \notin {"endSubrun", "shutdown"}
            /\ t[i].type = "shutdown" => i = 1 \/ t[i - 1].type = "eod"
      <3>1. n > 1 /\ n - 1 = N
        BY <1>2, <2>1
      <3>2. \A i \in DOMAIN s : i = 1 \/ t[i - 1] = s[i - 1]
        BY <1>2
      <3>3. \A i \in DOMAIN s : t[i] = s[i]
        BY <1>2
      <3> HIDE DEF n
      <3>4. ASSUME NEW i \in DOMAIN s
            PROVE  /\ t[i].type = "init" => i = 1
                   /\ t[i].type = "eod" => i > 1 /\ t[i - 1].type \in {"endSubrun", "shutdown"}
                   /\ t[i].type # "eod" => i = 1 \/ t[i - 1].type \notin {"endSubrun", "shutdown"}
                   /\ t[i].type = "shutdown" => i = 1 \/ t[i - 1].type = "eod"
        <4>1. CASE i = 1
          BY <2>3, <3>3, <4>1
        <4>2. CASE i # 1
          BY <2>3, <3>2, <3>3, <4>2
        <4>3. QED
          BY <4>1, <4>2
      <3>5. /\ t[n].type # "init"
            /\ t[n].type = "eod" => n > 1 /\ t[n - 1].type \in {"endSubrun", "shutdown"}
            /\ t[n].type # "eod" => n = 1 \/ t[n - 1].type \notin {"endSubrun", "shutdown"}
            /\ t[n].type = "shutdown" => n = 1 \/ t[n - 1].type = "eod"
        BY <1>2, <2>1, <2>2, <3>1
      <3>6. QED
        BY <1>2, <3>4, <3>5
    <2>7. ASSUME NEW i \in DOMAIN t, NEW j \in DOMAIN t, Same(i, j)
          PROVE  t[i].subrun = t[j].subrun
      <3>1. CASE j \in DOMAIN s
        <4>1. i \in DOMAIN s /\ i .. j \subseteq DOMAIN s
          BY <1>2, <2>7, <3>1
        <4>2. t[i] = s[i] /\ t[j] = s[j] /\ \A k \in i .. j : t[k] = s[k]
          BY <1>2, <3>1, <4>1
        <4>3. QED
          BY <2>4, <2>7, <3>1, <4>1, <4>2
      <3>2. CASE j = n
        <4>1. i \in DOMAIN s /\ i \in 1 .. N /\ t[i] = s[i] /\ i < n
          BY <1>2, <2>7, <3>2
        <4>2. N \in i .. n /\ n \in i .. n
          BY <1>2, <4>1
        <4>3. l.type # "eod" /\ m.type # "eod" /\ Carries(m) /\ Carries(s[i])
          BY <1>2, <2>1, <2>7, <3>2, <4>1, <4>2
        <4>4. l \in Packet
          BY <1>1, <2>1, ElementOfSeq DEF l
        <4>5. l.type \in {"init", "data"}
          BY <2>2, <4>3, <4>4 DEF Packet
        <4>6. l.type # "init"
          <5>1. l.type = "init" => N = 1
            BY <2>1, <2>3 DEF l
          <5>2. N = 1 => i = N
            BY <4>1
          <5>3. QED
            BY <4>3, <5>1, <5>2 DEF Carries, l
        <4>7. l.type = "data" /\ Carries(l) /\ m.subrun = l.subrun
          BY <2>2, <4>3, <4>5, <4>6 DEF Carries
        <4>8. s[i].subrun = l.subrun
          <5>1. CASE i = N
            BY <5>1 DEF l
          <5>2. CASE i # N
            <6>1. i < N /\ i .. N \subseteq i .. n /\ i .. N \subseteq DOMAIN s
              BY <1>2, <2>1, <4>1, <5>2
            <6>2. \A k \in i .. N : s[k].type # "eod"
              BY <1>2, <2>7, <3>2, <6>1
            <6>3. QED
              BY <2>1, <2>4, <4>1, <4>3, <4>7, <6>1, <6>2 DEF l
          <5>3. QED
            BY <5>1, <5>2
        <4>9. QED
          BY <1>2, <3>2, <4>1, <4>7, <4>8
      <3>3. QED
        BY <1>2, <3>1, <3>2
    <2>8. ASSUME NEW i \in DOMAIN t \cup {Len(t) + 1}
          PROVE  \E p \in 0 .. i - 1 : Start(i, p)
      <3>1. ASSUME NEW j \in DOMAIN s \cup {n}
            PROVE  \E p \in 0 .. j - 1 : Start(j, p)
        <4>1. PICK p \in 0 .. j - 1 :
                /\ p = 0 \/ s[p].type = "eod"
                /\ \A k \in p + 1 .. j - 1 : s[k].type # "eod"
          BY <2>5
        <4>2. /\ p \in Nat
              /\ p = 0 \/ p \in DOMAIN s
              /\ p + 1 .. j - 1 \subseteq DOMAIN s
          BY <1>2, <4>1
        <4>3. Start(j, p)
          BY <1>2, <4>1, <4>2
        <4>4. QED
          BY <4>3
      <3>2. CASE i = n + 1 /\ m.type = "eod"
        <4>1. n \in 0 .. i - 1 /\ n + 1 .. i - 1 = {}
          BY <1>2, <3>2
        <4>2. Start(i, n)
          BY <1>2, <3>2, <4>1
        <4>3. QED
          BY <4>1, <4>2
      <3>3. CASE i = n + 1 /\ m.type # "eod"
        <4>1. PICK p \in 0 .. n - 1 : Start(n, p)
          BY <3>1
        <4>2. p \in 0 .. i - 1 /\ p + 1 .. i - 1 \subseteq (p + 1 .. n - 1) \cup {n}
          BY <1>2, <3>3
        <4>3. Start(i, p)
          BY <1>2, <3>3, <4>1, <4>2
        <4>4. QED
          BY <4>2, <4>3
      <3>4. QED
        BY <1>2, <3>1, <3>2, <3>3
    <2>9. QED
      BY <1>2, <2>3, <2>6, <2>7, <2>8 DEF Connections, t
  <1>5. QED
    BY <1>3, <1>4

\* A connection is opened, ...
LEMMA ReadyInit ==
  ASSUME NEW o
  PROVE  Ready(<<initMessage>>, o) /\ Ended(<<initMessage>>) = {} /\ DataAt(<<initMessage>>) = {}
  <1> DEFINE s == <<initMessage>>
  <1>1. initMessage \in Packet /\ initMessage.type = "init"
    BY DEF initMessage, Packet
  <1>2. s \in Seq(Packet) /\ Len(s) = 1 /\ DOMAIN s = {1} /\ s[1] = initMessage /\ s # <<>>
    BY <1>1
  <1> HIDE DEF s
  <1>3. \A i \in DOMAIN s \cup {Len(s) + 1} : \E p \in 0 .. i - 1 :
          /\ p = 0 \/ s[p].type = "eod"
          /\ \A k \in p + 1 .. i - 1 : s[k].type # "eod"
    <2>1. 0 \in 0 .. 1 - 1 /\ 0 + 1 .. 1 - 1 = {} /\ 0 \in 0 .. 2 - 1 /\ 0 + 1 .. 2 - 1 = {1} /\ 1 + 1 = 2
      OBVIOUS
    <2>2. QED
      BY <1>1, <1>2, <2>1
  <1>4. Connections(s)
    BY <1>1, <1>2, <1>3 DEF Connections
  <1>5. Ended(s) = {} /\ DataAt(s) = {}
    BY <1>1, <1>2 DEF Ended, DataAt
  <1>6. QED
    BY <1>1, <1>2, <1>4, <1>5 DEF Ready, Last, s

\* ... ended with its subrun, ...
EndMessages(o) == <<[type |-> "endSubrun", subrun |-> o], endOfData>>

LEMMA ReadyEnd ==
  ASSUME NEW s, NEW o \in Subrun, Ready(s, o)
  PROVE  LET t == s \o EndMessages(o) IN
         /\ \A p : Ready(t, p)
         /\ Last(t).type = "eod"
         /\ Ended(t) = Ended(s) \cup {o} /\ DataAt(t) = DataAt(s)
         /\ Len(s) \in Nat /\ \A i \in DOMAIN s : i \in DOMAIN t /\ t[i] = s[i]
  <1> DEFINE m == [type |-> "endSubrun", subrun |-> o]
             u == Append(s, m)
             t == Append(u, endOfData)
  <1>1. m \in Packet /\ endOfData \in Packet /\ m.type = "endSubrun" /\ m.subrun = o /\ endOfData.type = "eod"
    BY DEF endOfData, Packet
  <1>2. s \in Seq(Packet) /\ Connections(s) /\ s # <<>>
    BY DEF Ready, Connections
  <1>3. s \o EndMessages(o) = t
    <2>1. <<m, endOfData>> = <<m>> \o <<endOfData>> /\ <<m>> \in Seq(Packet) /\ <<endOfData>> \in Seq(Packet)
      BY <1>1
    <2> HIDE DEF m
    <2>2. s \o (<<m>> \o <<endOfData>>) = (s \o <<m>>) \o <<endOfData>>
      BY <1>2, <2>1, ConcatAssociative
    <2>3. s \o <<m>> = u
      BY <1>1, <1>2, AppendIsConcat
    <2>4. u \in Seq(Packet)
      BY <1>1, <1>2, AppendProperties
    <2>5. u \o <<endOfData>> = t
      BY <1>1, <2>4, AppendIsConcat
    <2>6. QED
      BY <2>1, <2>2, <2>3, <2>5 DEF EndMessages, m
  <1> HIDE DEF m
  <1>4. Follows(s, m)
    BY <1>1, <1>2 DEF Follows, Ready, Carries
  <1>5. Connections(u)
    BY <1>1, <1>2, <1>4, ConnectionsAppend
  <1>6. /\ u \in Seq(Packet) /\ u # <<>> /\ Last(u) = m /\ Len(s) \in Nat
        /\ Ended(u) = Ended(s) \cup {o} /\ DataAt(u) = DataAt(s)
        /\ \A i \in DOMAIN s : i \in DOMAIN u /\ u[i] = s[i]
    BY <1>1, <1>2, Appended
  <1> HIDE DEF u
  <1>7. Follows(u, endOfData)
    BY <1>1, <1>6 DEF Follows, Carries
  <1>8. Connections(t)
    BY <1>1, <1>5, <1>7, ConnectionsAppend
  <1>9. /\ t # <<>> /\ Last(t) = endOfData
        /\ Ended(t) = Ended(u) /\ DataAt(t) = DataAt(u)
        /\ \A i \in DOMAIN u : i \in DOMAIN t /\ t[i] = u[i]
    BY <1>1, <1>6, Appended
  <1> HIDE DEF t
  <1>10. \A p : Ready(t, p)
    BY <1>1, <1>8, <1>9 DEF Ready
  <1>11. QED
    BY <1>1, <1>3, <1>6, <1>9, <1>10

\* ... and carries the events of its subrun.
DataMessage(item) == [type |-> "data", subrun |-> SubrunOf(item), event |-> item]

LEMMA ReadyData ==
  ASSUME NEW s, NEW item \in Item, Ready(s, SubrunOf(item))
  PROVE  LET t == Append(s, DataMessage(item)) IN
         /\ Ready(t, SubrunOf(item))
         /\ t[Len(s) + 1] = DataMessage(item) /\ Len(s) \in Nat /\ Len(s) + 1 \notin DOMAIN s
         /\ Ended(t) = Ended(s) /\ DataAt(t) = DataAt(s) \cup {Len(s) + 1}
         /\ \A i \in DOMAIN s : i < Len(s) + 1 /\ t[i] = s[i]
  <1> DEFINE m == DataMessage(item)
             t == Append(s, m)
  <1>1. SubrunOf(item) \in Subrun
    BY DEF SubrunOf, Subrun, Item
  <1>2. m \in Packet /\ m.type = "data" /\ m.subrun = SubrunOf(item)
    BY <1>1 DEF DataMessage, Packet
  <1>3. s \in Seq(Packet) /\ Connections(s) /\ s # <<>>
    BY DEF Ready, Connections
  <1> HIDE DEF m
  <1>4. Follows(s, m)
    BY <1>2, <1>3 DEF Follows, Ready, Carries
  <1>5. Connections(t)
    BY <1>2, <1>3, <1>4, ConnectionsAppend
  <1>6. /\ t # <<>> /\ Last(t) = m /\ Len(s) \in Nat /\ Len(s) + 1 \notin DOMAIN s /\ t[Len(s) + 1] = m
        /\ Ended(t) = Ended(s) /\ DataAt(t) = DataAt(s) \cup {Len(s) + 1}
        /\ \A i \in DOMAIN s : i < Len(s) + 1 /\ t[i] = s[i]
    BY <1>2, <1>3, Appended
  <1> HIDE DEF t
  <1>7. Ready(t, SubrunOf(item))
    BY <1>2, <1>5, <1>6 DEF Ready
  <1>8. QED
    BY <1>6, <1>7 DEF t, m

\* The message of the job's end has a connection of its own.
ShutdownMessages == <<[type |-> "shutdown"], endOfData>>

LEMMA ConnectionsShutdown ==
  ASSUME NEW s \in Seq(Packet), s = <<>> \/ (Connections(s) /\ Last(s).type = "eod")
  PROVE  LET t == s \o ShutdownMessages IN
         /\ Connections(t) /\ t # <<>> /\ Last(t).type = "eod"
         /\ Ended(t) = Ended(s) /\ DataAt(t) = DataAt(s)
         /\ \A i \in DOMAIN s : t[i] = s[i]
  <1> DEFINE m == [type |-> "shutdown"]
             u == Append(s, m)
             t == Append(u, endOfData)
  <1>1. m \in Packet /\ endOfData \in Packet /\ m.type = "shutdown" /\ endOfData.type = "eod"
    BY DEF endOfData, Packet
  <1>3. s \o ShutdownMessages = t
    <2>1. <<m, endOfData>> = <<m>> \o <<endOfData>> /\ <<m>> \in Seq(Packet) /\ <<endOfData>> \in Seq(Packet)
      BY <1>1
    <2> HIDE DEF m
    <2>2. s \o (<<m>> \o <<endOfData>>) = (s \o <<m>>) \o <<endOfData>>
      BY <2>1, ConcatAssociative
    <2>3. s \o <<m>> = u
      BY <1>1, AppendIsConcat
    <2>4. u \in Seq(Packet)
      BY <1>1, AppendProperties
    <2>5. u \o <<endOfData>> = t
      BY <1>1, <2>4, AppendIsConcat
    <2>6. QED
      BY <2>1, <2>2, <2>3, <2>5 DEF ShutdownMessages, m
  <1> HIDE DEF m
  <1>4. Connections(s)
    <2>1. CASE s = <<>>
      <3>1. Len(s) = 0 /\ DOMAIN s = {}
        BY <2>1
      <3>2. 0 \in 0 .. 1 - 1 /\ 0 + 1 .. 1 - 1 = {} /\ 0 + 1 = 1
        OBVIOUS
      <3>3. QED
        BY <2>1, <3>1, <3>2 DEF Connections
    <2>2. QED
      BY <2>1
  <1>5. Follows(s, m)
    BY <1>1 DEF Follows, Carries
  <1>6. Connections(u)
    BY <1>1, <1>4, <1>5, ConnectionsAppend
  <1>7. /\ u \in Seq(Packet) /\ u # <<>> /\ Last(u) = m
        /\ Ended(u) = Ended(s) /\ DataAt(u) = DataAt(s)
        /\ \A i \in DOMAIN s : i \in DOMAIN u /\ u[i] = s[i]
    BY <1>1, Appended
  <1> HIDE DEF u
  <1>8. Follows(u, endOfData)
    BY <1>1, <1>7 DEF Follows, Carries
  <1>9. Connections(t)
    BY <1>1, <1>6, <1>8, ConnectionsAppend
  <1>10. /\ t # <<>> /\ Last(t) = endOfData
         /\ Ended(t) = Ended(u) /\ DataAt(t) = DataAt(u)
         /\ \A i \in DOMAIN u : t[i] = u[i]
    BY <1>1, <1>7, Appended
  <1> HIDE DEF t
  <1>11. QED
    BY <1>1, <1>3, <1>7, <1>9, <1>10

-----------------------------------------------------------------------------
(* What art tells the aggregators.                                         *)

LEMMA SentType ==
  ASSUME SentInv
  PROVE  sent \in Seq(Packet)
  <1>1. <<>> \in Seq(Packet)
    BY EmptySeq
  <1>2. QED
    BY <1>1 DEF SentInv, Ready, Connections

LEMMA AccountIs == EndedSubruns = Ended(sent) /\ Sent("data") = DataAt(sent)
  BY DEF EndedSubruns, Ended, Sent, DataAt

\* The messages sent, and the Init message if it has not been.
Begun == sent \o (IF initMsgSent_ THEN <<>> ELSE <<initMessage>>)

LEMMA BegunIs ==
  ASSUME SentInv, ~shutdownMsgReceived
  PROVE  /\ Begun \in Seq(Packet) /\ Ready(Begun, open)
         /\ open = NoSubrun => \A p : Ready(Begun, p)
         /\ Ended(Begun) = Ended(sent) /\ DataAt(Begun) = DataAt(sent)
         /\ \A i \in DOMAIN sent : i \in DOMAIN Begun /\ Begun[i] = sent[i]
  <1>1. CASE initMsgSent_
    <2>1. Begun = sent
      BY <1>1, SentType, ConcatEmptySeq DEF Begun
    <2>2. sent # <<>> /\ Ready(sent, open) /\ (open = NoSubrun => Last(sent).type = "eod")
      BY <1>1 DEF SentInv
    <2>3. open = NoSubrun => \A p : Ready(sent, p)
      BY <2>2 DEF Ready
    <2>4. QED
      BY <2>1, <2>2, <2>3, SentType
  <1>2. CASE ~initMsgSent_
    <2>1. sent = <<>>
      BY <1>2 DEF SentInv
    <2>2. initMessage \in Packet
      BY DEF initMessage, Packet
    <2>3. Begun = <<initMessage>> /\ Begun \in Seq(Packet)
      BY <1>2, <2>1, <2>2 DEF Begun
    <2>4. Ended(sent) = {} /\ DataAt(sent) = {} /\ DOMAIN sent = {}
      BY <2>1 DEF Ended, DataAt
    <2>5. QED
      BY <2>3, <2>4, ReadyInit
  <1>3. QED
    BY <1>1, <1>2

LEMMA PairIs ==
  ASSUME NEW a, NEW b
  PROVE  <<a>> \o <<b>> = <<a, b>>
  <1> DEFINE t == Append(<<a>>, b)
             S == {a, b}
  <1>1. <<a>> \in Seq({a, b}) /\ b \in {a, b} /\ Len(<<a>>) = 1
    OBVIOUS
  <1>2. t = <<a>> \o <<b>>
    BY <1>1, AppendIsConcat
  <1>3. t \in Seq(S) /\ Len(t) = 2 /\ t[1] = a /\ t[2] = b
    BY <1>1, AppendProperties
  <1> HIDE DEF t, S
  <1>4. t = <<a, b>>
    BY <1>3
  <1>5. QED
    BY <1>2, <1>4

LEMMA MessagesEnd ==
  /\ open = NoSubrun => EndOpen = <<>> /\ Messages(EndOpen) = <<>>
  /\ open # NoSubrun => EndOpen # <<>> /\ Messages(EndOpen) = EndMessages(open)
  <1>1. CASE open = NoSubrun
    BY <1>1, MessagesAre DEF EndOpen
  <1>2. CASE open # NoSubrun
    <2>1. EndOpen = <<writeSubRun(open)>> /\ EndOpen # <<>>
      BY <1>2 DEF EndOpen
    <2>2. MessagesOf(writeSubRun(open)) = EndMessages(open)
      BY DEF MessagesOf, writeSubRun, EndMessages
    <2>3. QED
      BY <1>2, <2>1, <2>2, MessagesAre
  <1>3. QED
    BY <1>1, <1>2

LEMMA MessagesEvent ==
  ASSUME NEW item \in Item, open \in Subrun
  PROVE  /\ Messages(<<Writing(item)>>) = <<DataMessage(item)>>
         /\ Messages(EndOpen \o <<Writing(item)>>) = Messages(EndOpen) \o <<DataMessage(item)>>
         /\ EndOpen \o <<Writing(item)>> # <<>>
  <1>1. MessagesOf(Writing(item)) = <<DataMessage(item)>>
    BY DEF MessagesOf, Writing, write, DataMessage
  <1>2. Messages(<<Writing(item)>>) = <<DataMessage(item)>>
    BY <1>1, MessagesAre
  <1>3. CASE open = NoSubrun
    <2>1. EndOpen \o <<Writing(item)>> = <<Writing(item)>> /\ Messages(EndOpen) = <<>>
      BY <1>3, MessagesEnd
    <2>2. <<>> \o <<DataMessage(item)>> = <<DataMessage(item)>> /\ <<Writing(item)>> # <<>>
      OBVIOUS
    <2>3. QED
      BY <1>2, <2>1, <2>2
  <1>4. CASE open # NoSubrun
    <2>1. EndOpen = <<writeSubRun(open)>> /\ MessagesOf(writeSubRun(open)) = EndMessages(open)
          /\ Messages(EndOpen) = EndMessages(open)
      BY <1>4, MessagesEnd DEF EndOpen, MessagesOf, writeSubRun, EndMessages
    <2>2. EndOpen \o <<Writing(item)>> = <<writeSubRun(open), Writing(item)>>
      <3>1. \A a, b : <<a>> \o <<b>> = <<a, b>>
        BY PairIs
      <3>2. QED
        BY <2>1, <3>1
    <2>3. <<writeSubRun(open), Writing(item)>> # <<>>
      OBVIOUS
    <2>4. Messages(<<writeSubRun(open), Writing(item)>>) = EndMessages(open) \o <<DataMessage(item)>>
      BY <1>1, <2>1, MessagesAre
    <2>5. QED
      BY <1>2, <2>1, <2>2, <2>3, <2>4
  <1>5. QED
    BY <1>2, <1>3, <1>4

\* The calls that end the open subrun.
LEMMA SentEnds ==
  ASSUME PlaceInv, SentInv, ~shutdownMsgReceived, Output(EndOpen)
  PROVE  /\ sent' \in Seq(Packet)
         /\ sent' = <<>> \/ (Last(sent').type = "eod" /\ \A p : Ready(sent', p))
         /\ initMsgSent_' => sent' # <<>>
         /\ sent' # <<>> => initMsgSent_'
         /\ \A i \in DOMAIN sent : i \in DOMAIN sent' /\ sent'[i] = sent[i]
         /\ Ended(sent') = Ended(sent) \cup ({open} \ {NoSubrun})
         /\ DataAt(sent') = DataAt(sent)
  <1>1. CASE open = NoSubrun
    <2>1. EndOpen = <<>> /\ Messages(EndOpen) = <<>>
      BY <1>1, MessagesEnd
    <2>2. sent \in Seq(Packet)
      BY SentType
    <2>3. sent' = sent \o <<>> \o <<>> /\ initMsgSent_' = (initMsgSent_ \/ FALSE)
      BY <2>1 DEF Output
    <2>4. sent' = sent /\ initMsgSent_' = initMsgSent_
      BY <2>2, <2>3, ConcatEmptySeq DEF PlaceInv
    <2>5. sent = <<>> \/ (Last(sent).type = "eod" /\ \A p : Ready(sent, p))
      BY <1>1 DEF SentInv, Ready
    <2>6. (initMsgSent_ => sent # <<>>) /\ (sent # <<>> => initMsgSent_)
      BY DEF SentInv
    <2>7. QED
      BY <1>1, <2>2, <2>4, <2>5, <2>6
  <1>2. CASE open # NoSubrun
    <2>1. EndOpen # <<>> /\ Messages(EndOpen) = EndMessages(open)
      BY <1>2, MessagesEnd
    <2>2. initMsgSent_' /\ sent' = Begun \o EndMessages(open)
      BY <2>1 DEF Output, Begun
    <2>3. open \in Subrun
      BY <1>2 DEF PlaceInv, ArtTypeOK, Subrun
    <2>4. /\ \A p : Ready(sent', p)
          /\ Last(sent').type = "eod"
          /\ Ended(sent') = Ended(Begun) \cup {open} /\ DataAt(sent') = DataAt(Begun)
          /\ \A i \in DOMAIN Begun : i \in DOMAIN sent' /\ sent'[i] = Begun[i]
      BY <2>2, <2>3, BegunIs, ReadyEnd
    <2>5. sent' # <<>> /\ sent' \in Seq(Packet)
      BY <2>4 DEF Ready, Connections
    <2>6. /\ Ended(Begun) = Ended(sent) /\ DataAt(Begun) = DataAt(sent)
          /\ \A i \in DOMAIN sent : i \in DOMAIN Begun /\ Begun[i] = sent[i]
      BY BegunIs
    <2>7. QED
      BY <1>2, <2>2, <2>4, <2>5, <2>6
  <1>3. QED
    BY <1>1, <1>2

\* The message of an event is appended.
AddsEvent(item) ==
  \E at : /\ at \notin DOMAIN sent /\ DataAt(sent') = DataAt(sent) \cup {at}
          /\ sent'[at] = DataMessage(item)
          /\ \A i \in DOMAIN sent : i < at /\ sent'[i] = sent[i]

LEMMA SentData ==
  ASSUME NEW item \in Item, NEW u, Ready(u, SubrunOf(item)), DataAt(u) = DataAt(sent),
         \A i \in DOMAIN sent : i \in DOMAIN u /\ u[i] = sent[i],
         sent' = u \o <<DataMessage(item)>>
  PROVE  Ready(sent', SubrunOf(item)) /\ Ended(sent') = Ended(u) /\ AddsEvent(item)
  <1>1. DataMessage(item) \in Packet /\ u \in Seq(Packet)
    BY DEF DataMessage, Packet, SubrunOf, Subrun, Item, Ready, Connections
  <1>2. sent' = Append(u, DataMessage(item))
    BY <1>1, AppendIsConcat
  <1>3. /\ Ready(sent', SubrunOf(item))
        /\ sent'[Len(u) + 1] = DataMessage(item) /\ Len(u) + 1 \notin DOMAIN u
        /\ Ended(sent') = Ended(u) /\ DataAt(sent') = DataAt(u) \cup {Len(u) + 1}
        /\ \A i \in DOMAIN u : i < Len(u) + 1 /\ sent'[i] = u[i]
    <2> DEFINE v == Append(u, DataMessage(item))
    <2>1. /\ Ready(v, SubrunOf(item))
          /\ v[Len(u) + 1] = DataMessage(item) /\ Len(u) + 1 \notin DOMAIN u
          /\ Ended(v) = Ended(u) /\ DataAt(v) = DataAt(u) \cup {Len(u) + 1}
          /\ \A i \in DOMAIN u : i < Len(u) + 1 /\ v[i] = u[i]
      BY ReadyData
    <2>2. sent' = v
      BY <1>2
    <2> HIDE DEF v
    <2>3. QED
      BY <2>1, <2>2
  <1>4. AddsEvent(item)
    BY <1>3 DEF AddsEvent
  <1>5. QED
    BY <1>3, <1>4

\* An event of the subrun that is open, and one of a new subrun.
LEMMA SentGoing ==
  ASSUME SentInv, ~shutdownMsgReceived, NEW item \in Item,
         open = SubrunOf(item), open \in Subrun, Output(<<Writing(item)>>)
  PROVE  /\ Ready(sent', SubrunOf(item)) /\ initMsgSent_'
         /\ AddsEvent(item) /\ Ended(sent') = Ended(sent)
  <1>1. Messages(<<Writing(item)>>) = <<DataMessage(item)>> /\ <<Writing(item)>> # <<>>
    BY MessagesEvent
  <1>2. initMsgSent_' /\ sent' = Begun \o <<DataMessage(item)>>
    BY <1>1 DEF Output, Begun
  <1>3. /\ Ready(Begun, SubrunOf(item))
        /\ Ended(Begun) = Ended(sent) /\ DataAt(Begun) = DataAt(sent)
        /\ \A i \in DOMAIN sent : i \in DOMAIN Begun /\ Begun[i] = sent[i]
    BY BegunIs
  <1>4. QED
    BY <1>2, <1>3, SentData

LEMMA SentBeginning ==
  ASSUME SentInv, ~shutdownMsgReceived, NEW item \in Item,
         open \in Subrun, Output(EndOpen \o <<Writing(item)>>)
  PROVE  /\ Ready(sent', SubrunOf(item)) /\ initMsgSent_'
         /\ AddsEvent(item) /\ Ended(sent') = Ended(sent) \cup ({open} \ {NoSubrun})
  <1> DEFINE u == Begun \o Messages(EndOpen)
             d == DataMessage(item)
  <1>1. /\ Messages(EndOpen \o <<Writing(item)>>) = Messages(EndOpen) \o <<d>>
        /\ EndOpen \o <<Writing(item)>> # <<>>
    BY MessagesEvent
  <1>2. initMsgSent_' /\ sent' = Begun \o (Messages(EndOpen) \o <<d>>)
    BY <1>1 DEF Output, Begun
  <1>3. /\ Begun \in Seq(Packet) /\ Ready(Begun, open)
        /\ open = NoSubrun => \A p : Ready(Begun, p)
        /\ Ended(Begun) = Ended(sent) /\ DataAt(Begun) = DataAt(sent)
        /\ \A i \in DOMAIN sent : i \in DOMAIN Begun /\ Begun[i] = sent[i]
    BY BegunIs
  <1>4. d \in Packet
    BY DEF DataMessage, Packet, SubrunOf, Subrun, Item
  <1>5. Messages(EndOpen) \in Seq(Packet)
    <2>1. CASE open = NoSubrun
      BY <2>1, MessagesEnd, EmptySeq
    <2>2. CASE open # NoSubrun
      <3>1. EndMessages(open) \in Seq(Packet)
        BY DEF EndMessages, Packet, endOfData
      <3>2. QED
        BY <2>2, <3>1, MessagesEnd
    <2>3. QED
      BY <2>1, <2>2
  <1>6. sent' = u \o <<d>>
    <2>1. <<d>> \in Seq(Packet)
      BY <1>4
    <2>2. QED
      BY <1>2, <1>3, <1>5, <2>1, ConcatAssociative
  <1>7. /\ Ready(u, SubrunOf(item)) /\ DataAt(u) = DataAt(sent)
        /\ Ended(u) = Ended(sent) \cup ({open} \ {NoSubrun})
        /\ \A i \in DOMAIN sent : i \in DOMAIN u /\ u[i] = sent[i]
    <2>1. CASE open = NoSubrun
      <3>1. u = Begun
        BY <1>3, <2>1, MessagesEnd, ConcatEmptySeq
      <3>2. QED
        BY <1>3, <2>1, <3>1
    <2>2. CASE open # NoSubrun
      <3>1. u = Begun \o EndMessages(open)
        BY <2>2, MessagesEnd
      <3>2. /\ \A p : Ready(u, p)
            /\ Ended(u) = Ended(Begun) \cup {open} /\ DataAt(u) = DataAt(Begun)
            /\ \A i \in DOMAIN Begun : i \in DOMAIN u /\ u[i] = Begun[i]
        BY <1>3, <3>1, ReadyEnd
      <3>3. QED
        BY <1>3, <2>2, <3>2
    <2>3. QED
      BY <2>1, <2>2
  <1> HIDE DEF u, d
  <1>8. QED
    BY <1>2, <1>6, <1>7, SentData DEF d

\* The job ends.
LEMMA SentShutdown ==
  ASSUME PlaceInv, SentInv, ~shutdownMsgReceived, ~outputFileCloseNeeded, OutputEndJob(EndOpen)
  PROVE  /\ Connections(sent') /\ sent' # <<>> /\ Last(sent').type = "eod"
         /\ Ended(sent') = Ended(sent) \cup ({open} \ {NoSubrun})
         /\ DataAt(sent') = DataAt(sent)
         /\ \A i \in DOMAIN sent : sent'[i] = sent[i]
  <1> DEFINE u == sent \o Messages(EndOpen)
  <1>1. sent' = u \o ShutdownMessages
    BY DEF OutputEndJob, ShutdownMessages
  <1>2. sent \in Seq(Packet)
    BY SentType
  <1>3. /\ u \in Seq(Packet)
        /\ u = <<>> \/ (Connections(u) /\ Last(u).type = "eod")
        /\ Ended(u) = Ended(sent) \cup ({open} \ {NoSubrun})
        /\ DataAt(u) = DataAt(sent)
        /\ \A i \in DOMAIN sent : i \in DOMAIN u /\ u[i] = sent[i]
    <2>1. CASE open = NoSubrun
      <3>1. u = sent
        BY <1>2, <2>1, MessagesEnd, ConcatEmptySeq
      <3>2. QED
        BY <1>2, <2>1, <3>1 DEF SentInv, Ready
    <2>2. CASE open # NoSubrun
      <3>1. u = sent \o EndMessages(open)
        BY <2>2, MessagesEnd
      <3>2. open \in Subrun /\ initMsgSent_
        BY <2>2 DEF PlaceInv, ArtTypeOK, Subrun
      <3>3. Ready(sent, open)
        BY <3>2 DEF SentInv
      <3>4. /\ \A p : Ready(u, p)
            /\ Last(u).type = "eod"
            /\ Ended(u) = Ended(sent) \cup {open} /\ DataAt(u) = DataAt(sent)
            /\ \A i \in DOMAIN sent : i \in DOMAIN u /\ u[i] = sent[i]
        BY <3>1, <3>2, <3>3, ReadyEnd
      <3>5. u \in Seq(Packet) /\ Connections(u)
        BY <3>4 DEF Ready, Connections
      <3>6. QED
        BY <2>2, <3>4, <3>5
    <2>3. QED
      BY <2>1, <2>2
  <1> HIDE DEF u
  <1>4. QED
    BY <1>1, <1>3, ConnectionsShutdown

-----------------------------------------------------------------------------
(* The record that art keeps.                                              *)

LEMMA SubrunIs ==
  ASSUME NEW item \in Item
  PROVE  /\ SubrunOf(item)[1] = item.run /\ SubrunOf(item)[2] = item.subrun
         /\ item.run \in Nat /\ item.subrun \in Nat
         /\ item.subrun >= 1 => SubrunOf(item) # NoSubrun
  BY DEF SubrunOf, Item, NoSubrun, None

\* Nothing of a subrun comes after what closes it.
LEMMA NotClosed ==
  ASSUME StoreTypeOK, EndInv, OrderInv, ~flushFailed,
         NEW n \in OfSubrun, NEW i \in DOMAIN Enqueued, i < n
  PROVE  ~Closes(Enqueued[i], SubrunOf(Enqueued[n]))
  <1> DEFINE s == SubrunOf(Enqueued[n])
             t == SubrunOf(Enqueued[i])
  <1>1. /\ n \in DOMAIN Enqueued /\ Enqueued[n] \in Item /\ Enqueued[i] \in Item
        /\ DOMAIN Enqueued = 1 .. Len(Enqueued) /\ Len(Enqueued) \in Nat
    BY EnqueuedType DEF OfSubrun
  <1>2. /\ s[1] = Enqueued[n].run /\ s[1] \in Nat /\ s[2] \in Nat
        /\ t[1] \in Nat /\ t[2] \in Nat
    BY <1>1, SubrunIs
  <1> HIDE DEF s, t
  <1>3. CASE i \in OfSubrun
    <2>1. Before(t, s) \/ (t = s /\ Enqueued[i].kind # "endSubrun")
      BY <1>3 DEF OrderInv, s, t
    <2>2. ~Before(s, t)
      BY <1>2, <2>1 DEF Before
    <2>3. Before(t, s) => t # s
      BY <1>2 DEF Before
    <2>4. QED
      BY <1>3, <2>1, <2>2, <2>3 DEF Closes, OfSubrun, s, t
  <1>4. CASE i \in RunMarkers
    <2>1. Enqueued[i].run < s[1] /\ Enqueued[i].run \in Nat
      BY <1>1, <1>2, <1>4, SubrunIs DEF OrderInv
    <2>2. QED
      BY <1>2, <1>4, <2>1 DEF Closes, RunMarkers, s
  <1>5. CASE Enqueued[i].kind = "endOfData"
    <2>1. i = Len(Enqueued)
      BY <1>5 DEF EndInv
    <2>2. QED
      BY <1>1, <2>1
  <1>6. QED
    BY <1>3, <1>4, <1>5 DEF Closes, OfSubrun, RunMarkers

\* Whatever comes next that is not an event of the subrun closes it.
LEMMA ClosedBy ==
  ASSUME StoreTypeOK, ItemInv, OrderInv, ~flushFailed,
         NEW i \in OfSubrun, NEW n \in DOMAIN Enqueued, i <= n,
         ~(Enqueued[n].kind = "event" /\ SubrunOf(Enqueued[n]) = SubrunOf(Enqueued[i]))
  PROVE  Closes(Enqueued[n], SubrunOf(Enqueued[i]))
  <1> DEFINE s == SubrunOf(Enqueued[i])
             t == SubrunOf(Enqueued[n])
  <1>1. /\ i \in DOMAIN Enqueued /\ i \in Nat /\ n \in Nat
        /\ Enqueued[i] \in Item /\ Enqueued[n] \in Item /\ Enqueued[n].kind # "init"
    BY EnqueuedType DEF OfSubrun, ItemInv
  <1>2. s[1] = Enqueued[i].run
    BY <1>1, SubrunIs
  <1> HIDE DEF s, t
  <1>3. CASE n \in OfSubrun
    <2>1. CASE i = n
      BY <1>3, <2>1 DEF Closes, OfSubrun, s, t
    <2>2. CASE i # n
      <3>1. i < n
        BY <1>1, <2>2
      <3>2. Before(s, t) \/ s = t
        BY <1>3, <3>1 DEF OrderInv, s, t
      <3>3. QED
        BY <1>3, <3>2 DEF Closes, OfSubrun, s, t
    <2>3. QED
      BY <2>1, <2>2
  <1>4. CASE n \in RunMarkers
    <2>1. i < n
      BY <1>1, <1>4 DEF OfSubrun, RunMarkers
    <2>2. Enqueued[i].run <= Enqueued[n].run
      BY <1>4, <2>1 DEF OrderInv
    <2>3. QED
      BY <1>2, <1>4, <2>2 DEF Closes, RunMarkers, s
  <1>5. QED
    BY <1>1, <1>3, <1>4 DEF Item, OfSubrun, RunMarkers, Closes

LEMMA PoppedOfSubrun ==
  ASSUME StoreTypeOK
  PROVE  \A i \in Popped : i \in OfSubrun /\ Enqueued[i] = popped[i] /\ popped[i] \in Item
  BY PoppedType DEF Popped, OfSubrun

\* The open subrun is one of those that art has seen.
LEMMA OpenSeen ==
  ASSUME PlaceInv, open # NoSubrun
  PROVE  \E i \in Popped : SubrunOf(popped[i]) = open
  BY DEF PlaceInv, ArtTypeOK

LEMMA SeenType ==
  ASSUME StoreTypeOK, ItemInv
  PROVE  NoSubrun \notin Seen
  <1>1. ASSUME NEW i \in Popped
        PROVE  SubrunOf(popped[i]) # NoSubrun
    <2>1. popped[i] \in Item /\ popped[i].subrun >= 1
      BY PoppedOfSubrun DEF ItemInv
    <2>2. QED
      BY <2>1, SubrunIs
  <1>2. QED
    BY <1>1 DEF Seen

\* What the next item adds to what has been taken.
LEMMA SeenGrows ==
  ASSUME StoreTypeOK, Dequeue
  PROVE  LET item == Head(queue) IN
         /\ item.kind \in {"event", "endSubrun"} => Seen' = Seen \cup {SubrunOf(item)}
         /\ item.kind \notin {"event", "endSubrun"} => Seen' = Seen
         /\ item.kind = "event" => PoppedEvents' = PoppedEvents \cup {item}
         /\ item.kind # "event" => PoppedEvents' = PoppedEvents
         /\ \A s : (\E i \in DOMAIN popped : Closes(popped[i], s)) =>
                     \E i \in DOMAIN popped' : Closes(popped'[i], s)
         /\ \A s : Closes(item, s) => \E i \in DOMAIN popped' : Closes(popped'[i], s)
  <1> DEFINE n == Len(popped) + 1
             item == Head(queue)
  <1>1. /\ DOMAIN popped' = DOMAIN popped \cup {n} /\ n \notin DOMAIN popped
        /\ \A i \in DOMAIN popped : popped'[i] = popped[i]
        /\ popped'[n] = item
    BY DequeueIs
  <1> HIDE DEF n, item
  <1>2. Popped' = Popped \cup {i \in {n} : item.kind \in {"event", "endSubrun"}}
    BY <1>1 DEF Popped
  <1>3. \A i \in Popped : popped'[i] = popped[i]
    BY <1>1 DEF Popped
  <1>4. /\ item.kind \in {"event", "endSubrun"} => Seen' = Seen \cup {SubrunOf(item)}
        /\ item.kind \notin {"event", "endSubrun"} => Seen' = Seen
    BY <1>1, <1>2, <1>3 DEF Seen
  <1>5. /\ item.kind = "event" => PoppedEvents' = PoppedEvents \cup {item}
        /\ item.kind # "event" => PoppedEvents' = PoppedEvents
    BY <1>1, <1>2, <1>3 DEF PoppedEvents
  <1>6. QED
    BY <1>1, <1>4, <1>5 DEF item

\* What a step of art may do to the record.
SubrunStep ==
  \/ open' = open /\ EndedSubruns' = EndedSubruns
  \/ /\ open' # open /\ EndedSubruns' = EndedSubruns \cup ({open} \ {NoSubrun})
     /\ open' # NoSubrun => \A s \in EndedSubruns' : Before(s, open')

EventStep ==
  \/ /\ Sent("data")' = Sent("data")
     /\ \A i \in Sent("data") : sent'[i] = sent[i]
  \/ \E at : /\ at \notin Sent("data") /\ Sent("data")' = Sent("data") \cup {at}
             /\ sent'[at].subrun = open'
             /\ \A i \in Sent("data") : i < at /\ sent'[i] = sent[i] /\ sent'[i] # sent'[at]

LEMMA AccountPrime == EndedSubruns' = Ended(sent') /\ Sent("data")' = DataAt(sent')
  BY DEF EndedSubruns, Ended, Sent, DataAt

\* A step that writes no event.
LEMMA EventNone ==
  ASSUME DataAt(sent') = DataAt(sent), \A i \in DOMAIN sent : sent'[i] = sent[i]
  PROVE  EventStep /\ {sent'[i].event : i \in Sent("data")'} = {sent[i].event : i \in Sent("data")}
  <1>1. Sent("data")' = Sent("data") /\ \A i \in Sent("data") : sent'[i] = sent[i]
    BY AccountIs, AccountPrime DEF Sent
  <1>2. QED
    BY <1>1 DEF EventStep

\* A step that writes the next event, which has not been written before.
LEMMA EventOne ==
  ASSUME StoreTypeOK, HeldOnce, ItemInv, Dequeue, Head(queue).kind = "event",
         AddsEvent(Head(queue)), open' = SubrunOf(Head(queue)),
         {sent[i].event : i \in Sent("data")} = PoppedEvents
  PROVE  /\ EventStep
         /\ {sent'[i].event : i \in Sent("data")'} = PoppedEvents \cup {Head(queue)}
  <1> DEFINE item == Head(queue)
             n == Len(popped) + 1
  <1>1. PICK at : /\ at \notin DOMAIN sent /\ DataAt(sent') = DataAt(sent) \cup {at}
                  /\ sent'[at] = DataMessage(item)
                  /\ \A i \in DOMAIN sent : i < at /\ sent'[i] = sent[i]
    BY DEF AddsEvent
  <1>2. /\ Sent("data")' = Sent("data") \cup {at} /\ at \notin Sent("data")
        /\ \A i \in Sent("data") : i \in DOMAIN sent /\ i < at /\ sent'[i] = sent[i]
    BY <1>1, AccountIs, AccountPrime DEF Sent
  <1>3. sent'[at].subrun = open' /\ sent'[at].event = item
    BY <1>1 DEF DataMessage
  <1>4. n \in EnqueuedEvents /\ Enqueued[n] = item /\ n \notin DOMAIN popped
    BY DequeueIs DEF EnqueuedEvents
  <1> HIDE DEF n, item
  <1>5. item \notin PoppedEvents
    <2>1. SUFFICES ASSUME NEW j \in Popped, popped[j].kind = "event", popped[j] = item
                   PROVE  FALSE
      BY DEF PoppedEvents
    <2>2. j \in DOMAIN popped /\ j \in EnqueuedEvents /\ Enqueued[j] = item /\ j # n
      BY <1>4, <2>1, PoppedType DEF Popped, EnqueuedEvents
    <2>3. item.frags \cap item.frags = {} /\ item.frags # {}
      BY <1>4, <2>2 DEF HeldOnce, ItemInv
    <2>4. QED
      BY <2>3
  <1>6. \A i \in Sent("data") : sent'[i] # sent'[at]
    BY <1>2, <1>3, <1>5
  <1>7. {sent'[i].event : i \in Sent("data")'} = {sent[i].event : i \in Sent("data")} \cup {item}
    BY <1>2, <1>3
  <1>8. QED
    BY <1>2, <1>3, <1>6, <1>7 DEF EventStep, item

\* What ReadNext has art tell.
LEMMA ReadOutputs ==
  ASSUME StoreTypeOK, ItemInv, PlaceInv, ReadNext
  PROVE  LET item == Head(queue) IN
         \/ Going(item) /\ Output(<<Writing(item)>>)
         \/ item.kind = "event" /\ Beginning(item) /\ Output(EndOpen \o <<Writing(item)>>)
         \/ /\ item.kind \in {"endSubrun", "endRun"}
            /\ Beginning(item) \/ EndingSubrun(item) \/ EndingRun(item)
            /\ Output(EndOpen)
         \/ Complaining(item) /\ Output(<<>>)
  <1> DEFINE item == Head(queue)
  <1>1. Dequeue /\ item.kind # "endOfData" /\ TakeOver(Read(item)) /\ Output(Calls(Read(item)))
    BY DEF ReadNext
  <1>2. /\ item \in Item /\ item.kind # "init" /\ item.run >= 1
        /\ item.kind \in {"event", "endSubrun"} => item.subrun >= 1
    BY <1>1, NextItem
  <1> HIDE DEF item
  <1>3. CASE item.kind = "event"
    <2>1. /\ Going(item) \/ Beginning(item)
          /\ Calls(Read(item)) = IF inSR = SubrunOf(item) THEN <<Writing(item)>>
                                 ELSE EndOpen \o <<Writing(item)>>
      BY <1>1, <1>2, <1>3, EventRead
    <2>2. CASE inSR = SubrunOf(item)
      BY <1>1, <2>1, <2>2 DEF Beginning, item
    <2>3. CASE inSR # SubrunOf(item)
      BY <1>1, <1>3, <2>1, <2>3 DEF Going, item
    <2>4. QED
      BY <2>2, <2>3
  <1>4. CASE item.kind \in {"endSubrun", "endRun"}
    <2>1. \/ /\ Beginning(item) \/ EndingSubrun(item) \/ EndingRun(item)
             /\ Calls(Read(item)) = EndOpen
          \/ Complaining(item) /\ Calls(Read(item)) = <<>>
      BY <1>1, <1>2, <1>4, EndRead
    <2>2. QED
      BY <1>1, <1>4, <2>1 DEF item
  <1>5. QED
    BY <1>1, <1>2, <1>3, <1>4 DEF Item

\* What is known when the next item is taken.
LEMMA NextSubrun ==
  ASSUME StoreTypeOK, QueueInv, PlaceInv, RecordInv, ~flushFailed, Dequeue
  PROVE  LET item == Head(queue) IN
         /\ item \in Item
         /\ item.kind \in {"event", "endSubrun"} =>
              /\ SubrunOf(item) \notin EndedSubruns /\ SubrunOf(item) # NoSubrun
              /\ inSR = SubrunOf(item) => open = SubrunOf(item)
              /\ \A s \in Seen : s = SubrunOf(item) \/ Before(s, SubrunOf(item))
         /\ open # NoSubrun /\ ~(item.kind = "event" /\ SubrunOf(item) = open) => Closes(item, open)
  <1> DEFINE item == Head(queue)
             n == Len(popped) + 1
  <1>1. ItemInv /\ EndInv /\ OrderInv
    BY DEF QueueInv
  <1>2. /\ item \in Item /\ n \in DOMAIN Enqueued /\ Enqueued[n] = item
        /\ \A i \in DOMAIN popped : i < n
    BY DequeueIs
  <1>3. \A i \in DOMAIN popped : popped[i] \in Item /\ i \in DOMAIN Enqueued /\ Enqueued[i] = popped[i]
    BY PoppedType
  <1>4. item.kind \in {"event", "endSubrun"} => item.subrun >= 1
    BY <1>1, NextItem
  <1> HIDE DEF item, n
  <1>5. \A i \in Popped : i \in OfSubrun /\ Enqueued[i] = popped[i] /\ i < n
    BY <1>2, PoppedOfSubrun DEF Popped
  <1>6. ASSUME item.kind \in {"event", "endSubrun"}
        PROVE  /\ SubrunOf(item) \notin EndedSubruns /\ SubrunOf(item) # NoSubrun
               /\ inSR = SubrunOf(item) => open = SubrunOf(item)
               /\ \A s \in Seen : s = SubrunOf(item) \/ Before(s, SubrunOf(item))
    <2>1. n \in OfSubrun
      BY <1>2, <1>6 DEF OfSubrun
    <2>2. SubrunOf(item) \notin EndedSubruns
      <3>1. SUFFICES ASSUME SubrunOf(item) \in EndedSubruns PROVE FALSE
        OBVIOUS
      <3>2. PICK i \in DOMAIN popped : Closes(popped[i], SubrunOf(item))
        BY <3>1 DEF RecordInv
      <3>3. i \in DOMAIN Enqueued /\ i < n /\ Closes(Enqueued[i], SubrunOf(Enqueued[n]))
        BY <1>2, <1>3, <3>2
      <3>4. QED
        BY <1>1, <2>1, <3>3, NotClosed
    <2>3. SubrunOf(item) # NoSubrun /\ SubrunOf(item)[2] \notin {None, Flush}
      BY <1>2, <1>4, <1>6, SubrunIs DEF None, Flush
    <2>4. inSR = SubrunOf(item) => SubrunOf(item) \in Seen
      BY <2>3 DEF PlaceInv, Seen
    <2>5. inSR = SubrunOf(item) => open = SubrunOf(item)
      BY <2>2, <2>4 DEF RecordInv
    <2>6. ASSUME NEW i \in Popped
          PROVE  SubrunOf(popped[i]) = SubrunOf(item) \/ Before(SubrunOf(popped[i]), SubrunOf(item))
      BY <1>1, <1>2, <1>5, <2>1 DEF OrderInv
    <2>7. QED
      BY <2>2, <2>3, <2>5, <2>6 DEF Seen
  <1>7. ASSUME open # NoSubrun, ~(item.kind = "event" /\ SubrunOf(item) = open)
        PROVE  Closes(item, open)
    <2>1. PICK i \in Popped : SubrunOf(popped[i]) = open
      BY <1>7, OpenSeen
    <2>2. i \in OfSubrun /\ i <= n /\ Enqueued[i] = popped[i]
      BY <1>5, EnqueuedType, <1>2 DEF OfSubrun
    <2>3. QED
      BY <1>1, <1>2, <1>7, <2>1, <2>2, ClosedBy
  <1>8. QED
    BY <1>2, <1>6, <1>7 DEF item

RecordStep == RecordInv' /\ SentInv' /\ SubrunStep /\ EventStep

LEMMA OpenType ==
  ASSUME PlaceInv
  PROVE  open \in Subrun
  <1>1. -1 \in Int
    OBVIOUS
  <1>2. NoSubrun \in Subrun
    BY <1>1 DEF NoSubrun, None, Subrun
  <1>3. QED
    BY <1>2 DEF PlaceInv, ArtTypeOK, Subrun

\* The end of the open subrun, and perhaps the beginning of a new one, is told.
LEMMA RecordEnds ==
  ASSUME StoreTypeOK, ItemInv, PlaceInv, RecordInv, SentInv, ~shutdownMsgReceived, shutdownMsgReceived' \in BOOLEAN,
         Ended(sent') = Ended(sent) \cup ({open} \ {NoSubrun}),
         open # NoSubrun => open' # open,
         \A s \in EndedSubruns \cup ({open} \ {NoSubrun}) :
           \E i \in DOMAIN popped' : Closes(popped'[i], s),
         open' # NoSubrun => /\ open' \notin Seen /\ Seen' = Seen \cup {open'}
                             /\ \A s \in Seen : Before(s, open'),
         open' = NoSubrun => Seen' = Seen,
         {sent'[i].event : i \in Sent("data")'} = PoppedEvents'
  PROVE  RecordInv' /\ SubrunStep
  <1>1. EndedSubruns' = EndedSubruns \cup ({open} \ {NoSubrun})
    BY AccountIs, AccountPrime
  <1>2. EndedSubruns' = Seen /\ NoSubrun \notin Seen
    BY <1>1, SeenType DEF RecordInv
  <1>3. SubrunStep
    <2>1. CASE open' = open
      <3>1. EndedSubruns' = EndedSubruns
        BY <1>1, <2>1
      <3>2. QED
        BY <2>1, <3>1 DEF SubrunStep
    <2>2. CASE open' # open
      BY <1>1, <1>2, <2>2 DEF SubrunStep
    <2>3. QED
      BY <2>1, <2>2
  <1>4. EndedSubruns' \cup ({open'} \ {NoSubrun}) = Seen'
    BY <1>2
  <1>5. open' \notin EndedSubruns'
    BY <1>2
  <1>6. \A s \in EndedSubruns' : \E i \in DOMAIN popped' : Closes(popped'[i], s)
    BY <1>1
  <1>7. RecordInv'
    BY <1>4, <1>5, <1>6 DEF RecordInv, Closes, SubrunOf, Before
  <1>8. QED
    BY <1>3, <1>7

LEMMA RecordRead ==
  ASSUME StoreTypeOK, HeldOnce, QueueInv, PlaceInv, RecordInv, SentInv,
         ~flushFailed, ~shutdownMsgReceived, ReadNext
  PROVE  RecordStep
  <1> DEFINE item == Head(queue)
  <1>1. ItemInv /\ open \in Subrun /\ Dequeue /\ shutdownMsgReceived' = FALSE
    BY OpenType DEF QueueInv, ReadNext
  <1>2. /\ item \in Item
        /\ item.kind \in {"event", "endSubrun"} =>
             /\ SubrunOf(item) \notin EndedSubruns /\ SubrunOf(item) # NoSubrun
             /\ inSR = SubrunOf(item) => open = SubrunOf(item)
             /\ \A s \in Seen : s = SubrunOf(item) \/ Before(s, SubrunOf(item))
        /\ open # NoSubrun /\ ~(item.kind = "event" /\ SubrunOf(item) = open) => Closes(item, open)
    BY <1>1, NextSubrun
  <1>3. /\ item.kind \in {"event", "endSubrun"} => Seen' = Seen \cup {SubrunOf(item)}
        /\ item.kind \notin {"event", "endSubrun"} => Seen' = Seen
        /\ item.kind = "event" => PoppedEvents' = PoppedEvents \cup {item}
        /\ item.kind # "event" => PoppedEvents' = PoppedEvents
        /\ \A s : (\E i \in DOMAIN popped : Closes(popped[i], s)) =>
                    \E i \in DOMAIN popped' : Closes(popped'[i], s)
        /\ \A s : Closes(item, s) => \E i \in DOMAIN popped' : Closes(popped'[i], s)
    BY <1>1, SeenGrows
  <1>4. \/ Going(item) /\ Output(<<Writing(item)>>)
        \/ item.kind = "event" /\ Beginning(item) /\ Output(EndOpen \o <<Writing(item)>>)
        \/ /\ item.kind \in {"endSubrun", "endRun"}
           /\ Beginning(item) \/ EndingSubrun(item) \/ EndingRun(item)
           /\ Output(EndOpen)
        \/ Complaining(item) /\ Output(<<>>)
    BY <1>1, ReadOutputs
  <1>5. /\ {sent[i].event : i \in Sent("data")} = PoppedEvents
        /\ EndedSubruns \cup ({open} \ {NoSubrun}) = Seen
        /\ open \notin EndedSubruns
        /\ \A s \in EndedSubruns : \E i \in DOMAIN popped : Closes(popped[i], s)
    BY DEF RecordInv
  <1>6. /\ open = NoSubrun \/ open = inSR
        /\ inSR[2] \notin {None, Flush} => inSR \in Seen
    BY DEF PlaceInv, ArtTypeOK, Seen
  <1> HIDE DEF item
  <1>7. CASE Going(item) /\ Output(<<Writing(item)>>)
    <2>1. item.kind = "event" /\ open = SubrunOf(item) /\ open' = open /\ open # NoSubrun
      BY <1>2, <1>7 DEF Going
    <2>2. /\ Ready(sent', SubrunOf(item)) /\ initMsgSent_'
          /\ AddsEvent(item) /\ Ended(sent') = Ended(sent)
      BY <1>1, <1>2, <1>7, <2>1, SentGoing
    <2>3. SentInv'
      BY <2>1, <2>2 DEF SentInv, Ready
    <2>4. EventStep /\ {sent'[i].event : i \in Sent("data")'} = PoppedEvents \cup {item}
      BY <1>1, <1>5, <2>1, <2>2, EventOne DEF item
    <2>5. EndedSubruns' = EndedSubruns /\ Seen' = Seen
      <3>1. open \in Seen
        BY <1>5, <2>1
      <3>2. QED
        BY <1>3, <2>1, <2>2, <3>1, AccountIs, AccountPrime
    <2>6. {sent'[i].event : i \in Sent("data")'} = PoppedEvents'
      BY <1>3, <2>1, <2>4
    <2>7. \A s \in EndedSubruns' : \E i \in DOMAIN popped' : Closes(popped'[i], s)
      BY <1>3, <1>5, <2>5
    <2>8. RecordInv'
      BY <1>5, <2>1, <2>5, <2>6, <2>7 DEF RecordInv, Closes, SubrunOf, Before
    <2>9. QED
      BY <2>1, <2>3, <2>4, <2>5, <2>8 DEF RecordStep, SubrunStep
  <1>8. CASE Complaining(item) /\ Output(<<>>)
    <2>1. item.kind = "endRun" /\ open' = open
      BY <1>8 DEF Complaining
    <2>2. sent' = sent /\ initMsgSent_' = initMsgSent_
      <3>1. sent' = sent \o <<>> \o <<>> /\ initMsgSent_' = (initMsgSent_ \/ FALSE)
        BY <1>8, MessagesAre DEF Output
      <3>2. QED
        BY <3>1, SentType, ConcatEmptySeq DEF PlaceInv
    <2>3. SentInv'
      BY <1>1, <2>1, <2>2 DEF SentInv
    <2>4. EventStep /\ {sent'[i].event : i \in Sent("data")'} = {sent[i].event : i \in Sent("data")}
      BY <2>2, EventNone
    <2>5. EndedSubruns' = EndedSubruns
      BY <2>2, AccountIs, AccountPrime
    <2>6. \A s \in EndedSubruns' : \E i \in DOMAIN popped' : Closes(popped'[i], s)
      BY <1>3, <1>5, <2>5
    <2>7. RecordInv'
      BY <1>3, <1>5, <2>1, <2>4, <2>5, <2>6 DEF RecordInv, Closes, SubrunOf, Before
    <2>8. QED
      BY <2>1, <2>3, <2>4, <2>5, <2>7 DEF RecordStep, SubrunStep
  <1>9. ASSUME open # NoSubrun => Closes(item, open)
        PROVE  \A s \in EndedSubruns \cup ({open} \ {NoSubrun}) :
                 \E i \in DOMAIN popped' : Closes(popped'[i], s)
    BY <1>3, <1>5, <1>9
  <1>10. ASSUME Beginning(item)
         PROVE  /\ open' = SubrunOf(item) /\ open' # NoSubrun /\ open' # open
                /\ open # NoSubrun => Closes(item, open)
                /\ open' \notin Seen /\ Seen' = Seen \cup {open'}
                /\ \A s \in Seen : Before(s, open')
    <2>1. /\ item.kind \in {"event", "endSubrun"} /\ inSR # SubrunOf(item)
          /\ open' = SubrunOf(item)
      BY <1>10 DEF Beginning
    <2>2. open' # NoSubrun /\ open' # open /\ open' \notin Seen
      BY <1>2, <1>5, <1>6, <2>1
    <2>3. QED
      BY <1>2, <1>3, <2>1, <2>2
  <1>11. CASE item.kind = "event" /\ Beginning(item) /\ Output(EndOpen \o <<Writing(item)>>)
    <2>1. /\ Ready(sent', SubrunOf(item)) /\ initMsgSent_'
          /\ AddsEvent(item) /\ Ended(sent') = Ended(sent) \cup ({open} \ {NoSubrun})
      BY <1>1, <1>2, <1>11, SentBeginning
    <2>2. SentInv'
      BY <1>10, <1>11, <2>1 DEF SentInv, Ready
    <2>3. EventStep /\ {sent'[i].event : i \in Sent("data")'} = PoppedEvents \cup {item}
      BY <1>1, <1>5, <1>10, <1>11, <2>1, EventOne DEF item
    <2>4. {sent'[i].event : i \in Sent("data")'} = PoppedEvents'
      BY <1>3, <1>11, <2>3
    <2>5. RecordInv' /\ SubrunStep
      BY <1>1, <1>9, <1>10, <1>11, <2>1, <2>4, RecordEnds
    <2>6. QED
      BY <2>2, <2>3, <2>5 DEF RecordStep
  <1>12. CASE /\ item.kind \in {"endSubrun", "endRun"}
              /\ Beginning(item) \/ EndingSubrun(item) \/ EndingRun(item)
              /\ Output(EndOpen)
    <2>1. /\ sent' = <<>> \/ (Last(sent').type = "eod" /\ \A p : Ready(sent', p))
          /\ initMsgSent_' => sent' # <<>>
          /\ sent' # <<>> => initMsgSent_'
          /\ \A i \in DOMAIN sent : i \in DOMAIN sent' /\ sent'[i] = sent[i]
          /\ Ended(sent') = Ended(sent) \cup ({open} \ {NoSubrun})
          /\ DataAt(sent') = DataAt(sent)
      BY <1>12, SentEnds
    <2>2. SentInv'
      BY <2>1 DEF SentInv
    <2>3. EventStep /\ {sent'[i].event : i \in Sent("data")'} = PoppedEvents'
      BY <1>3, <1>5, <1>12, <2>1, EventNone
    <2>4. open # NoSubrun => Closes(item, open)
      BY <1>2, <1>12
    <2>5. CASE Beginning(item)
      <3>1. RecordInv' /\ SubrunStep
        BY <1>1, <1>9, <1>10, <2>1, <2>3, <2>4, <2>5, RecordEnds
      <3>2. QED
        BY <2>2, <2>3, <3>1 DEF RecordStep
    <2>6. CASE EndingSubrun(item) \/ EndingRun(item)
      <3>1. open' = NoSubrun /\ Seen' = Seen
        <4>1. CASE EndingSubrun(item)
          <5>1. item.kind = "endSubrun" /\ inSR = SubrunOf(item) /\ open' = NoSubrun
            BY <4>1 DEF EndingSubrun
          <5>2. SubrunOf(item) \in Seen
            BY <1>2, <1>5, <5>1
          <5>3. QED
            BY <1>3, <5>1, <5>2
        <4>2. CASE EndingRun(item)
          BY <1>3, <4>2 DEF EndingRun
        <4>3. QED
          BY <2>6, <4>1, <4>2
      <3>2. RecordInv' /\ SubrunStep
        BY <1>1, <1>9, <2>1, <2>3, <2>4, <3>1, RecordEnds
      <3>3. QED
        BY <2>2, <2>3, <3>2 DEF RecordStep
    <2>7. QED
      BY <1>12, <2>5, <2>6
  <1>13. QED
    BY <1>4, <1>7, <1>8, <1>11, <1>12

LEMMA RecordClose ==
  ASSUME StoreTypeOK, QueueInv, PlaceInv, RecordInv, SentInv,
         ~flushFailed, ~shutdownMsgReceived, ReadNextClose
  PROVE  RecordStep
  <1> DEFINE n == Len(popped)
  <1>1. /\ ItemInv /\ OrderInv /\ outputFileCloseNeeded /\ open' = NoSubrun
        /\ Output(EndOpen) /\ popped' = popped /\ shutdownMsgReceived' = FALSE
    BY DEF QueueInv, ReadNextClose, CloseFile, storeVars
  <1>2. /\ sent' = <<>> \/ (Last(sent').type = "eod" /\ \A p : Ready(sent', p))
        /\ initMsgSent_' => sent' # <<>>
        /\ sent' # <<>> => initMsgSent_'
        /\ \A i \in DOMAIN sent : i \in DOMAIN sent' /\ sent'[i] = sent[i]
        /\ Ended(sent') = Ended(sent) \cup ({open} \ {NoSubrun})
        /\ DataAt(sent') = DataAt(sent)
    BY <1>1, SentEnds
  <1>3. SentInv'
    BY <1>2 DEF SentInv
  <1>4. Seen' = Seen /\ PoppedEvents' = PoppedEvents
    BY <1>1 DEF Seen, PoppedEvents, Popped
  <1>5. EventStep /\ {sent'[i].event : i \in Sent("data")'} = PoppedEvents'
    BY <1>2, <1>4, EventNone DEF RecordInv
  <1>6. open # NoSubrun => \E i \in DOMAIN popped : Closes(popped[i], open)
    <2>1. SUFFICES ASSUME open # NoSubrun
                   PROVE  \E i \in DOMAIN popped : Closes(popped[i], open)
      OBVIOUS
    <2>2. PICK i \in Popped : SubrunOf(popped[i]) = open
      BY <2>1, OpenSeen
    <2>3. /\ n \in DOMAIN popped /\ popped[n].kind = "endSubrun" /\ i \in DOMAIN popped
          /\ i \in OfSubrun /\ Enqueued[i] = popped[i] /\ i <= n
          /\ n \in DOMAIN Enqueued /\ Enqueued[n] = popped[n]
      <3>1. i \in DOMAIN popped /\ i \in OfSubrun /\ Enqueued[i] = popped[i]
        BY PoppedOfSubrun DEF Popped
      <3>2. DOMAIN popped = 1 .. n /\ n \in Nat /\ popped[n].kind = "endSubrun"
        BY <1>1, PoppedType DEF PlaceInv, LastPopped
      <3>3. n \in DOMAIN popped /\ i <= n
        BY <3>1, <3>2
      <3>4. QED
        BY <3>1, <3>2, <3>3, PoppedType
    <2>4. Closes(popped[n], open)
      BY <1>1, <2>2, <2>3, ClosedBy
    <2>5. QED
      BY <2>3, <2>4
  <1>7. \A s \in EndedSubruns \cup ({open} \ {NoSubrun}) :
          \E i \in DOMAIN popped' : Closes(popped'[i], s)
    BY <1>1, <1>6 DEF RecordInv
  <1>8. RecordInv' /\ SubrunStep
    BY <1>1, <1>2, <1>4, <1>5, <1>7, RecordEnds
  <1>9. QED
    BY <1>3, <1>5, <1>8 DEF RecordStep

LEMMA RecordEnd ==
  ASSUME StoreTypeOK, QueueInv, PlaceInv, RecordInv, SentInv,
         ~flushFailed, ~shutdownMsgReceived, ReadNextEnd
  PROVE  RecordStep
  <1> DEFINE item == Head(queue)
  <1>1. /\ ItemInv /\ ~outputFileCloseNeeded /\ open' = NoSubrun /\ Dequeue
        /\ OutputEndJob(EndOpen) /\ item.kind = "endOfData" /\ shutdownMsgReceived' = TRUE
        /\ initMsgSent_' = initMsgSent_
    BY DEF QueueInv, ReadNextEnd, CloseFile, OutputEndJob
  <1>2. /\ Connections(sent') /\ sent' # <<>> /\ Last(sent').type = "eod"
        /\ Ended(sent') = Ended(sent) \cup ({open} \ {NoSubrun})
        /\ DataAt(sent') = DataAt(sent)
        /\ \A i \in DOMAIN sent : sent'[i] = sent[i]
    BY <1>1, SentShutdown
  <1>3. SentInv'
    BY <1>1, <1>2 DEF SentInv
  <1>4. /\ Seen' = Seen /\ PoppedEvents' = PoppedEvents
        /\ \A s : (\E i \in DOMAIN popped : Closes(popped[i], s)) =>
                    \E i \in DOMAIN popped' : Closes(popped'[i], s)
        /\ \A s : Closes(item, s) => \E i \in DOMAIN popped' : Closes(popped'[i], s)
    BY <1>1, SeenGrows
  <1>5. EventStep /\ {sent'[i].event : i \in Sent("data")'} = PoppedEvents'
    BY <1>2, <1>4, EventNone DEF RecordInv
  <1>6. Closes(item, open)
    BY <1>1 DEF Closes
  <1>7. \A s \in EndedSubruns \cup ({open} \ {NoSubrun}) :
          \E i \in DOMAIN popped' : Closes(popped'[i], s)
    BY <1>4, <1>6 DEF RecordInv
  <1>8. RecordInv' /\ SubrunStep
    BY <1>1, <1>2, <1>4, <1>5, <1>7, RecordEnds
  <1>9. QED
    BY <1>3, <1>5, <1>8 DEF RecordStep

\* endOfData returns to the caller when art has taken everything, or has thrown.
DoneInv == client = "shutdown" => ReaderDone \/ complained

ArtInv == WhereInv /\ DoneInv /\ (~flushFailed => RecordInv /\ SentInv)

LEMMA ArtStart == AllInit => ArtInv
  <1> SUFFICES ASSUME AllInit PROVE ArtInv
    OBVIOUS
  <1>1. sent = <<>> /\ popped = <<>> /\ open = NoSubrun /\ client = "idle" /\ initMsgSent_ = FALSE
    BY DEF AllInit, Init, StoreInit, ArtInit
  <1>2. \A type : Sent(type) = {}
    BY <1>1 DEF Sent
  <1>3. EndedSubruns = {} /\ Popped = {}
    BY <1>1, <1>2 DEF EndedSubruns, Popped
  <1>4. RecordInv
    BY <1>1, <1>2, <1>3 DEF RecordInv, Seen, PoppedEvents
  <1>5. SentInv
    BY <1>1 DEF SentInv
  <1>6. QED
    BY <1>1, <1>4, <1>5, WhereStart DEF ArtInv, DoneInv

LEMMA RecordKept ==
  ASSUME RecordInv, SentInv,
         UNCHANGED <<sent, popped, open, initMsgSent_, shutdownMsgReceived>>
  PROVE  RecordInv' /\ SentInv'
  <1>1. /\ Sent("data")' = Sent("data") /\ EndedSubruns' = EndedSubruns
        /\ PoppedEvents' = PoppedEvents /\ Seen' = Seen
    BY DEF Sent, EndedSubruns, PoppedEvents, Seen, Popped
  <1>2. RecordInv'
    BY <1>1 DEF RecordInv, Closes, SubrunOf, Before
  <1>3. SentInv'
    BY DEF SentInv
  <1>4. QED
    BY <1>2, <1>3

\* While every flush succeeds, the steps of art keep the record.
LEMMA ArtRecords ==
  ASSUME ArtInv, ~flushFailed, ArtStep
  PROVE  RecordStep
  <1>1. /\ ~shutdownMsgReceived
        /\ ReadNext \/ ReadNextClose \/ ReadNextEnd
    BY DEF ArtStep, ArtDone
  <1>2. /\ StoreTypeOK /\ HeldOnce /\ QueueInv /\ PlaceInv /\ RecordInv /\ SentInv
    BY DEF ArtInv, WhereInv, UseInv, LossInv
  <1>3. QED
    BY <1>1, <1>2, RecordRead, RecordClose, RecordEnd

LEMMA OthersKeep ==
  ASSUME CallerStep \/ JoinThrown \/ UNCHANGED allVars
  PROVE  UNCHANGED <<artVars, readerVars, outputVars, popped>>
  <1>1. CASE CallerStep
    BY <1>1, CallerPops DEF CallerStep
  <1>2. CASE JoinThrown \/ UNCHANGED allVars
    BY <1>2 DEF JoinThrown, allVars, vars, storeVars
  <1>3. QED
    BY <1>1, <1>2

LEMMA DoneStep ==
  ASSUME WhereInv, DoneInv, [AllNext]_allVars
  PROVE  DoneInv'
  <1>1. CASE ArtStep
    <2>1. client' = client /\ ~shutdownMsgReceived /\ ~complained
      BY <1>1 DEF ArtStep, ArtDone, useVars
    <2>2. ~ReaderDone
      BY <2>1 DEF WhereInv, PlaceInv
    <2>3. QED
      BY <2>1, <2>2 DEF DoneInv
  <1>2. CASE CallerStep \/ JoinThrown \/ UNCHANGED allVars
    <2>1. UNCHANGED <<artVars, readerVars, outputVars, popped>>
      BY <1>2, OthersKeep
    <2>2. ReaderDone' = ReaderDone /\ complained' = complained
      BY <2>1 DEF ReaderDone, artVars
    <2>3. CASE client' = client
      BY <2>2, <2>3 DEF DoneInv
    <2>4. CASE JoinReader \/ JoinThrown
      BY <2>2, <2>4 DEF JoinReader, JoinThrown, DoneInv
    <2>5. client' = client \/ JoinReader \/ JoinThrown \/ client' # "shutdown"
      <3>1. CASE CallerStep
        <4>1. CASE \E f \in Fragment : InsertFragment(f)
          BY <4>1 DEF InsertFragment
        <4>2. CASE Caller
          BY <4>2 DEF Caller, StartRun, BeginFlush, FlushOne, EndFlush, EndSubrun, StartSubrun,
                      EndRun, EndOfData, Goto, useVars
        <4>3. QED
          BY <3>1, <4>1, <4>2 DEF CallerStep
      <3>2. CASE UNCHANGED allVars
        BY <3>2 DEF allVars, vars, useVars
      <3>3. QED
        BY <1>2, <3>1, <3>2
    <2>6. QED
      BY <2>3, <2>4, <2>5 DEF DoneInv
  <1>3. QED
    BY <1>1, <1>2 DEF AllNext, AllTerminated

LEMMA FlushFailedStays ==
  ASSUME flushFailed \in BOOLEAN, flushFailed, [AllNext]_allVars
  PROVE  flushFailed'
  <1>1. CASE ArtStep \/ JoinThrown \/ UNCHANGED allVars
    BY <1>1 DEF ArtStep, JoinThrown, allVars, vars, useVars
  <1>2. CASE CallerStep
    <2>1. CASE \E f \in Fragment : InsertFragment(f)
      BY <2>1 DEF InsertFragment
    <2>2. CASE Caller
      BY <2>2 DEF Caller, StartRun, BeginFlush, FlushOne, EndFlush, EndSubrun, StartSubrun,
                  EndRun, EndOfData, JoinReader, useVars
    <2>3. QED
      BY <1>2, <2>1, <2>2 DEF CallerStep
  <1>3. QED
    BY <1>1, <1>2 DEF AllNext, AllTerminated

LEMMA ArtInvStep == ArtInv /\ [AllNext]_allVars => ArtInv'
  <1> SUFFICES ASSUME ArtInv, [AllNext]_allVars PROVE ArtInv'
    OBVIOUS
  <1>1. WhereInv' /\ DoneInv'
    BY WhereStep, DoneStep DEF ArtInv
  <1>2. ASSUME ~flushFailed'
        PROVE  RecordInv' /\ SentInv'
    <2>1. ~flushFailed
      BY <1>2, FlushFailedStays DEF ArtInv, WhereInv, UseInv, LossInv
    <2>2. CASE ArtStep
      BY <2>1, <2>2, ArtRecords DEF RecordStep
    <2>3. CASE CallerStep \/ JoinThrown \/ UNCHANGED allVars
      <3>1. UNCHANGED <<artVars, readerVars, outputVars, popped>>
        BY <2>3, OthersKeep
      <3>2. UNCHANGED <<sent, popped, open, initMsgSent_, shutdownMsgReceived>>
        BY <3>1 DEF artVars, readerVars, outputVars
      <3>3. QED
        BY <2>1, <3>2, RecordKept DEF ArtInv
    <2>4. QED
      BY <2>2, <2>3 DEF AllNext, AllTerminated
  <1>3. QED
    BY <1>1, <1>2 DEF ArtInv

\* What art has sent is what it has taken, and art stays where the queue puts it.
THEOREM ArtKeepsRecord == AllSpec => []ArtInv
  BY ArtStart, ArtInvStep, PTL DEF AllSpec

-----------------------------------------------------------------------------
(* What follows.                                                           *)

\* While every flush succeeds, art records subruns as SubrunRecord says: one after the
\* other, each ended once, each event once and in its own subrun, whatever the order of
\* the fragments, the markers that were lost and the moments at which art reads.
THEOREM ArtRecordsSubruns == AllSpec => RecordsSubruns
  <1>1. AllInit => Record!Init
    <2> SUFFICES ASSUME AllInit PROVE Record!Init
      OBVIOUS
    <2>1. sent = <<>> /\ open = NoSubrun
      BY DEF AllInit, ArtInit
    <2>2. \A type : Sent(type) = {}
      BY <2>1 DEF Sent
    <2>3. EndedSubruns = {}
      BY <2>2 DEF EndedSubruns
    <2>4. DOMAIN [i \in Sent("data") |-> sent[i]] = {}
      BY <2>2
    <2>5. QED
      BY <2>1, <2>3, <2>4 DEF Record!Init
  <1>2. ArtInv /\ [AllNext]_allVars => [flushFailed' \/ Record!Next]_<<open, sent>>
    <2> SUFFICES ASSUME ArtInv, [AllNext]_allVars, ~flushFailed', ~UNCHANGED <<open, sent>>
                 PROVE  Record!Next
      OBVIOUS
    <2>1. ~flushFailed
      BY FlushFailedStays DEF ArtInv, WhereInv, UseInv, LossInv
    <2>2. ArtStep
      <3>1. CASE CallerStep \/ JoinThrown \/ UNCHANGED allVars
        BY <3>1, OthersKeep DEF artVars, outputVars
      <3>2. QED
        BY <3>1 DEF AllNext, AllTerminated
    <2>3. SubrunStep /\ EventStep
      BY <2>1, <2>2, ArtRecords DEF RecordStep
    <2>4. Record!Proceed
      BY <2>3 DEF SubrunStep, Record!Proceed, Before, Record!Before
    <2>5. Record!Record
      <3>1. CASE /\ Sent("data")' = Sent("data")
                 /\ \A i \in Sent("data") : sent'[i] = sent[i]
        BY <3>1 DEF Record!Record
      <3>2. CASE \E at : /\ at \notin Sent("data") /\ Sent("data")' = Sent("data") \cup {at}
                         /\ sent'[at].subrun = open'
                         /\ \A i \in Sent("data") : i < at /\ sent'[i] = sent[i] /\ sent'[i] # sent'[at]
        BY <3>2 DEF Record!Record
      <3>3. QED
        BY <2>3, <3>1, <3>2 DEF EventStep
    <2>6. QED
      BY <2>4, <2>5 DEF Record!Next
  <1>3. QED
    BY <1>1, <1>2, ArtKeepsRecord, PTL DEF AllSpec, RecordsSubruns

\* When endOfData has returned, while every flush succeeded, all that the store has
\* accepted has been sent, and the end of every subrun that art has seen.
THEOREM ArtShutdownDelivers == AllSpec => []ShutdownDelivers
  <1>1. ArtInv => ShutdownDelivers
    <2> SUFFICES ASSUME ArtInv, client = "shutdown", ~flushFailed, ~complained
                 PROVE  /\ accepted = UNION {sent[i].event.frags : i \in Sent("data")}
                        /\ EndedSubruns = {SubrunOf(popped[i]) :
                             i \in {j \in DOMAIN popped : popped[j].kind \in {"event", "endSubrun"}}}
      BY DEF ShutdownDelivers
    <2>1. /\ ReaderDone /\ RecordInv /\ StoreTypeOK /\ EndInv /\ PlaceInv /\ accepted = Held
          /\ DOMAIN events = {}
      BY DEF ArtInv, DoneInv, WhereInv, UseInv, LossInv, TogetherInv, OpenInv, QueueInv
    <2>2. open = NoSubrun
      BY <2>1 DEF PlaceInv
    <2>3. EndedSubruns = Seen
      BY <2>1, <2>2 DEF RecordInv
    <2>4. DOMAIN Enqueued = DOMAIN popped /\ \A i \in DOMAIN popped : Enqueued[i] = popped[i]
      <3> DEFINE n == Len(popped)
      <3>1. /\ n \in Nat /\ DOMAIN popped = 1 .. n
            /\ \A i \in DOMAIN popped : i \in DOMAIN Enqueued /\ Enqueued[i] = popped[i]
        BY <2>1, PoppedType
      <3>2. n \in DOMAIN popped /\ popped[n].kind = "endOfData"
        <4>1. popped # <<>> /\ popped[n].kind = "endOfData"
          BY <2>1 DEF ReaderDone
        <4>2. n # 0
          BY <4>1, <2>1, EmptySeq DEF StoreTypeOK
        <4>3. QED
          BY <3>1, <4>1, <4>2
      <3>3. n = Len(Enqueued)
        BY <2>1, <3>1, <3>2 DEF EndInv
      <3>4. DOMAIN Enqueued = 1 .. Len(Enqueued)
        BY <2>1, EnqueuedType
      <3>5. QED
        BY <3>1, <3>3, <3>4
    <2>5. {sent[i].event : i \in Sent("data")} = PoppedEvents
      BY <2>1 DEF RecordInv
    <2>6. RawEvents = PoppedEvents
      <3>1. \A ev : ev \in RawEvents <=> \E i \in EnqueuedEvents : ev = Enqueued[i]
        BY <2>1, RawEventsAre
      <3>2. EnqueuedEvents = {j \in Popped : popped[j].kind = "event"}
        BY <2>4 DEF EnqueuedEvents, Popped
      <3>3. QED
        BY <2>4, <3>1, <3>2 DEF PoppedEvents, Popped
    <2>7. accepted = UNION {sent[i].event.frags : i \in Sent("data")}
      <3>1. {ev.frags : ev \in PoppedEvents} = {sent[i].event.frags : i \in Sent("data")}
        BY <2>5
      <3>2. QED
        BY <2>1, <2>6, <3>1 DEF Held
    <2>8. QED
      BY <2>3, <2>7 DEF Seen, Popped
  <1>2. QED
    BY <1>1, ArtKeepsRecord, PTL

\* Of a set of messages with one subrun there is at most one.
LEMMA AtMostOne ==
  ASSUME NEW S, \A a, b \in S : a = b
  PROVE  Cardinality(S) <= 1
  <1>1. CASE S = {}
    BY <1>1, FS_EmptySet
  <1>2. CASE S # {}
    <2>1. PICK a : a \in S
      BY <1>2
    <2>2. S = {a}
      BY <2>1
    <2>3. Cardinality({a}) = 1
      BY FS_Singleton
    <2>4. QED
      BY <2>2, <2>3
  <1>3. QED
    BY <1>1, <1>2

\* The end of the connection before that of place i.
LEMMA EndBefore ==
  ASSUME NEW s, Connections(s), NEW i \in DOMAIN s
  PROVE  LET ends == {j \in DOMAIN s : s[j].type = "eod"}
             p == Max({0} \cup {j \in ends : j < i})
         IN  /\ p \in 0 .. i - 1
             /\ p = 0 \/ s[p].type = "eod"
             /\ \A k \in p + 1 .. i - 1 : s[k].type # "eod"
  <1> DEFINE ends == {j \in DOMAIN s : s[j].type = "eod"}
             S == {0} \cup {j \in ends : j < i}
             p == Max(S)
  <1>1. DOMAIN s = 1 .. Len(s) /\ Len(s) \in Nat
    BY LenProperties DEF Connections
  <1>2. PICK q \in 0 .. i - 1 : /\ q = 0 \/ s[q].type = "eod"
                                /\ \A k \in q + 1 .. i - 1 : s[k].type # "eod"
    BY DEF Connections
  <1>3. q \in S
    BY <1>1, <1>2
  <1>4. \A y \in S : q >= y
    BY <1>1, <1>2
  <1>5. S \subseteq Int
    BY <1>1
  <1> HIDE DEF S
  <1>6. p \in S /\ \A y \in S : p >= y
    BY <1>3, <1>4 DEF Max
  <1> HIDE DEF p
  <1>7. p \in Int /\ q \in Int /\ p >= q /\ q >= p
    BY <1>3, <1>4, <1>5, <1>6
  <1>8. p = q
    BY <1>7
  <1>9. QED
    BY <1>2, <1>8 DEF S, p

\* The message of a type without fields is that of the type.
LEMMA InitIs ==
  ASSUME NEW m \in Packet, m.type = "init"
  PROVE  m = initMessage
  BY DEF Packet, initMessage

\* While every flush succeeds, a connection carries one subrun, and the first one the
\* Init, whatever the order of the fragments and the markers that were lost.
THEOREM ArtConnections == AllSpec => []ConnectionPerSubrun
  <1>1. ArtInv => ConnectionPerSubrun
    <2> SUFFICES ASSUME ArtInv, ~flushFailed PROVE ConnectionPerSubrun
      BY DEF ConnectionPerSubrun
    <2>1. sent \in Seq(Packet) /\ (sent = <<>> \/ Connections(sent))
      BY SentType DEF ArtInv, SentInv, Ready
    <2> SUFFICES
          ASSUME NEW i \in Sent("eod")
          PROVE  LET first == Max({0} \cup {j \in Sent("eod") : j < i}) + 1
                     messages == {sent[j] : j \in first .. i - 1}
                     ends == {j \in first .. i - 1 : sent[j].type = "endSubrun"}
                 IN  /\ Cardinality(ends) = 1 \/ (sent[i - 1].type = "shutdown" /\ first = i - 1)
                     /\ Cardinality({m.subrun : m \in {n \in messages : n.type \in {"data", "endSubrun"}}}) <= 1
                     /\ initMessage \in messages <=> first = 1 /\ sent[1].type = "init"
      BY DEF ConnectionPerSubrun
    <2> DEFINE p == Max({0} \cup {j \in Sent("eod") : j < i})
               first == p + 1
               messages == {sent[j] : j \in first .. i - 1}
               ends == {j \in first .. i - 1 : sent[j].type = "endSubrun"}
               carried == {m.subrun : m \in {n \in messages : n.type \in {"data", "endSubrun"}}}
    <2>2. i \in DOMAIN sent /\ sent[i].type = "eod" /\ sent # <<>>
      BY DEF Sent
    <2>3. Connections(sent)
      BY <2>1, <2>2
    <2>4. /\ p \in 0 .. i - 1
          /\ p = 0 \/ sent[p].type = "eod"
          /\ \A k \in p + 1 .. i - 1 : sent[k].type # "eod"
      BY <2>2, <2>3, EndBefore DEF Sent
    <2> HIDE DEF p
    <2>5. /\ DOMAIN sent = 1 .. Len(sent) /\ Len(sent) \in Nat /\ i \in Nat
          /\ p \in Nat /\ \A j \in first .. i - 1 : j \in DOMAIN sent /\ j \in Nat /\ j < i
      <3>1. DOMAIN sent = 1 .. Len(sent) /\ Len(sent) \in Nat
        BY <2>1, LenProperties
      <3>2. QED
        BY <2>2, <2>4, <3>1
    <2>6. /\ \A j \in DOMAIN sent :
               /\ sent[j].type = "init" => j = 1
               /\ sent[j].type = "eod" => j > 1 /\ sent[j - 1].type \in {"endSubrun", "shutdown"}
               /\ sent[j].type # "eod" => j = 1 \/ sent[j - 1].type \notin {"endSubrun", "shutdown"}
               /\ sent[j].type = "shutdown" => j = 1 \/ sent[j - 1].type = "eod"
          /\ \A j, k \in DOMAIN sent :
               /\ j < k /\ Carries(sent[j]) /\ Carries(sent[k])
               /\ \A l \in j .. k : sent[l].type # "eod"
               => sent[j].subrun = sent[k].subrun
      BY <2>3 DEF Connections
    <2>7. i > 1 /\ sent[i - 1].type \in {"endSubrun", "shutdown"}
      BY <2>2, <2>6
    <2>8. first \in 1 .. i - 1 /\ i - 1 \in first .. i - 1
      <3>1. p # i - 1
        BY <2>4, <2>5, <2>7
      <3>2. QED
        BY <2>4, <2>5, <2>7, <3>1
    <2>9. Cardinality(ends) = 1 \/ (sent[i - 1].type = "shutdown" /\ first = i - 1)
      <3>1. CASE sent[i - 1].type = "endSubrun"
        <4>1. ASSUME NEW j \in ends
              PROVE  j = i - 1
          <5>1. j \in first .. i - 1 /\ j \in DOMAIN sent /\ sent[j].type = "endSubrun"
            BY <2>5
          <5>2. SUFFICES ASSUME j # i - 1 PROVE FALSE
            OBVIOUS
          <5>3. j + 1 \in first .. i - 1 /\ j + 1 # 1 /\ (j + 1) - 1 = j
            BY <2>5, <5>1, <5>2
          <5>4. j + 1 \in DOMAIN sent /\ sent[j + 1].type # "eod"
            BY <2>4, <2>5, <5>3
          <5>5. QED
            BY <2>6, <5>1, <5>3, <5>4
        <4>2. ends = {i - 1}
          BY <2>8, <3>1, <4>1
        <4>3. Cardinality({i - 1}) = 1
          BY FS_Singleton
        <4>4. QED
          BY <4>2, <4>3
      <3>2. CASE sent[i - 1].type = "shutdown"
        <4>1. i - 1 \in DOMAIN sent
          BY <2>5, <2>8
        <4>2. i - 1 = 1 \/ sent[(i - 1) - 1].type = "eod"
          BY <2>6, <3>2, <4>1
        <4>3. (i - 1) - 1 \notin first .. i - 1
          <5>1. (i - 1) - 1 \in first .. i - 1 => i - 1 # 1
            BY <2>4, <2>5
          <5>2. QED
            BY <2>4, <4>2, <5>1
        <4>4. first = i - 1
          BY <2>5, <2>8, <4>3
        <4>5. QED
          BY <3>2, <4>4
      <3>3. QED
        BY <2>7, <3>1, <3>2
    <2>10. Cardinality(carried) <= 1
      <3>1. ASSUME NEW j \in first .. i - 1, NEW k \in first .. i - 1,
                   Carries(sent[j]), Carries(sent[k]), j < k
            PROVE  sent[j].subrun = sent[k].subrun
        <4>1. j \in DOMAIN sent /\ k \in DOMAIN sent /\ j .. k \subseteq p + 1 .. i - 1
          BY <2>5
        <4>2. QED
          BY <2>4, <2>6, <3>1, <4>1
      <3>2. ASSUME NEW j \in first .. i - 1, NEW k \in first .. i - 1,
                   Carries(sent[j]), Carries(sent[k])
            PROVE  sent[j].subrun = sent[k].subrun
        <4>1. j < k \/ k < j \/ j = k
          BY <2>5
        <4>2. QED
          BY <3>1, <3>2, <4>1
      <3>3. \A a, b \in carried : a = b
        BY <3>2 DEF Carries
      <3>4. QED
        BY <3>3, AtMostOne
    <2>11. initMessage \in messages <=> first = 1 /\ sent[1].type = "init"
      <3>1. ASSUME initMessage \in messages
            PROVE  first = 1 /\ sent[1].type = "init"
        <4>1. PICK j \in first .. i - 1 : sent[j] = initMessage
          BY <3>1
        <4>2. sent[j].type = "init" /\ j \in DOMAIN sent
          BY <2>5, <4>1 DEF initMessage
        <4>3. j = 1
          BY <2>6, <4>2
        <4>4. QED
          BY <2>5, <2>8, <4>2, <4>3
      <3>2. ASSUME first = 1, sent[1].type = "init"
            PROVE  initMessage \in messages
        <4>1. 1 \in first .. i - 1 /\ sent[1] \in Packet
          BY <2>1, <2>5, <2>8, <3>2, ElementOfSeq
        <4>2. sent[1] = initMessage
          BY <3>2, <4>1, InitIs
        <4>3. QED
          BY <4>1, <4>2
      <3>3. QED
        BY <3>1, <3>2
    <2>12. QED
      BY <2>9, <2>10, <2>11 DEF p
  <1>2. QED
    BY <1>1, ArtKeepsRecord, PTL
=============================================================================
