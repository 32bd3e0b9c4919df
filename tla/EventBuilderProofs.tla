------------------------ MODULE EventBuilderProofs ------------------------
(***************************************************************************)
(* Proofs about the event builder: whatever the number of senders, runs    *)
(* and sessions, the size of the queue and of an event, and however the    *)
(* commands, the process_fragments thread, the senders, the store and art  *)
(* interleave.                                                             *)
(***************************************************************************)
EXTENDS EventBuilder, SequenceTheorems, FiniteSetTheorems, TLAPS

-----------------------------------------------------------------------------
(* The inductive invariant, by parts.                                      *)

AtRest == {"Ready", "Paused", "start_lock", "resume_lock", "shutdown_join", "Initialized", "Booted"}
Ending == {"stop_endSubrun", "stop_endRun", "pause_endSubrun"}
Receiving == {"enter", "recv", "insert"}

\* What flush_mutex_ says of the two threads.
MutexInv ==
  /\ cmd \in AtRest => pc = "none"
  /\ cmd \in Ending => pc \notin Receiving
  /\ flush_mutex = "command" => cmd \in Ending
  /\ pc \in Receiving => flush_mutex = "session"
  /\ flush_mutex = "session" => pc \in Receiving \cup {"flush"}
  /\ ~rejected => /\ pc = "flush" => flush_mutex = "session"
                  /\ cmd \in Ending => flush_mutex = "command"

\* The numbers of the run, the subrun and the session; start and resume begin anew.
SessionInv ==
  /\ cmd \in {"start_lock", "resume_lock"} => eod_fragments_received = 0
  /\ cmd = "start_lock" => session < MaxSession /\ (run_id < MaxRun \/ session = 0)
  /\ cmd = "resume_lock" => session < MaxSession
  /\ session = 0 => run_id = 1 /\ subrun_id = 0 /\ pc = "none"
                    /\ cmd \in {"Ready", "start_lock", "shutdown_join", "Initialized", "Booted"}

\* A sender is never ahead of the receiver, and knows the run of its session.
SenderInv ==
  \A s \in Sender :
    /\ sender[s].session <= session /\ sender[s].run <= run_id
    /\ sender[s].count <= sender[s].seq
    /\ sender[s].on => sender[s].session >= 1
    /\ sender[s].session = 0 => sender[s].run = 0 /\ sender[s].seq = 0
    /\ sender[s].session >= 1 => sender[s].run >= 1
    /\ sender[s].session = session /\ session >= 1 => sender[s].run = run_id

NetInv == IsFiniteSet(network) /\ \A m \in network : m.eod \/ m.n >= 1

HistoryInv == rejected => forced

\* A fragment is in hand exactly while it is inserted.
CurInv ==
  /\ pc # "insert" => cur = NoFragment
  /\ pc = "insert" => cur # NoFragment

\* events_ holds events, and is empty when a session is over, if all went well.
MapInv ==
  /\ events = [k \in DOMAIN events |-> events[k]]
  /\ \A k \in DOMAIN events : events[k].kind = "event"
  /\ pc \in {"exit", "none"} /\ ~rejected /\ ~flushFailed => DOMAIN events = {}

\* The accounts of a session that is not cut short.
Pending(s) == {m \in network : m.src = s}
Got(s) == IF pc = "enter" THEN 0 ELSE fragments_received[s]
SentBy(s) == IF sender[s].session = session
             THEN sender[s].count + (IF sender[s].on THEN 0 ELSE 1)
             ELSE 0

\* Between sessions all senders have ended the last one, and nothing is on its way.
Complete ==
  network = {} /\ \A s \in Sender : sender[s].session = session /\ ~sender[s].on

MessageInv ==
  \A m \in network :
    /\ m.session = session /\ m.run = run_id /\ sender[m.src].session = session
    /\ m.eod => ~sender[m.src].on /\ m.n = sender[m.src].count
    /\ ~m.eod => m.n \in 1 .. sender[m.src].seq

EODInv ==
  /\ \A s \in Sender :
       /\ eods[s] \in {0, 1}
       /\ eods[s] = 1 => /\ sender[s].session = session /\ ~sender[s].on
                         /\ fragments_sent[s] = sender[s].count + 1
                         /\ \A m \in Pending(s) : ~m.eod
  /\ eod_fragments_received = Cardinality({s \in Sender : eods[s] = 1})

AccountInv ==
  /\ \A s \in Sender : sender[s].session \in {session, session - 1}
                       /\ (sender[s].on => sender[s].session = session)
  /\ \A s \in Sender : Cardinality(Pending(s)) + Got(s) = SentBy(s)
  /\ MessageInv
  /\ pc = "enter" => eod_fragments_received = 0
  /\ pc # "enter" => EODInv

\* A fragment sent in the run is on its way, in hand or in the store.
OnItsWay(s, n) == \E m \in network : ~m.eod /\ m.src = s /\ m.n = n /\ m.run = run_id
Accounted(s, n) ==
  LET f == [run |-> run_id, seq |-> n, id |-> s]
  IN  InStore(f) \/ cur = f \/ OnItsWay(s, n)

UncutInv ==
  /\ pc \in Receiving => AccountInv
  /\ pc \notin Receiving => Complete
  /\ pc = "insert" => cur.run = run_id
  /\ \A s \in Sender : sender[s].run = run_id => \A n \in 1 .. sender[s].seq : Accounted(s, n)

\* Once a session was cut short, what is on its way, in hand or still to be sent
\* is of the run of the first such session or of a later one: up to it, all had
\* been accounted for.
LeftoverInv ==
  forced =>
    /\ cutRun <= run_id
    /\ \A m \in network : m.run \in cutRun .. run_id
    /\ \A s \in Sender : sender[s].on => sender[s].run >= cutRun
    /\ pc = "insert" => cur.run \in cutRun .. run_id

\* The markers that end subruns, and the events.
Closed == \E i \in DOMAIN Enqueued :
  Enqueued[i].kind = "endSubrun" /\ Enqueued[i].run = run_id /\ Enqueued[i].subrun = subrun_id

Past(e) == e.run < run_id \/ (e.run = run_id /\ e.subrun <= subrun_id)
NotAhead ==
  /\ \A i \in DOMAIN Enqueued : Past(Enqueued[i])
  /\ \A k \in DOMAIN events : Past(events[k])

SubrunInv ==
  /\ \A k \in DOMAIN events : events[k].run = run_id /\ events[k].subrun = subrun_id
  /\ Closed => pc \in {"exit", "none"}
  /\ MarkersCloseSubruns

IInv ==
  /\ TypeOK /\ NetInv
  /\ MutexInv /\ SessionInv /\ SenderInv /\ HistoryInv /\ CurInv /\ MapInv
  /\ ~forced => UncutInv
  /\ LeftoverInv
  /\ NotAhead
  /\ ~rejected /\ ~flushFailed => SubrunInv
  /\ OwnRun

-----------------------------------------------------------------------------
(* The two threads and the mutex.                                          *)

controlVars == <<cmd, session, run_id, subrun_id, pc, cur, flush_mutex, eod_fragments_received,
                 cutRun, rejected>>
ControlInv == MutexInv /\ SessionInv /\ HistoryInv /\ CurInv

\* A session that is cut short leaves its mark.
LEMMA CutForces ==
  ASSUME StoreTypeOK, CutShort
  PROVE  forced'
  BY DEF StoreTypeOK, CutShort, forced

LEMMA ControlProcess ==
  ASSUME TypeOK, ControlInv, Process
  PROVE  ControlInv'
  <1> USE DEF ControlInv, cmdVars, recvVars, history, storeVars, AtRest, Ending, Receiving
  <1>1. CASE Enter
    BY <1>1 DEF Enter, NextReceive, MutexInv, SessionInv, HistoryInv, forced, CurInv
  <1>2. ASSUME NEW m \in network, ReceiveData(m)
        PROVE  ControlInv'
    <2>1. FragmentOf(m).run = m.run /\ m.run # 0 /\ NoFragment.run = 0
      BY DEF TypeOK, Message, FragmentOf, NoFragment
    <2>2. cur' # NoFragment
      BY <1>2, <2>1 DEF ReceiveData
    <2>3. QED
      BY <1>2, <2>2 DEF ReceiveData, MutexInv, SessionInv, HistoryInv, forced, CurInv
  <1>3. ASSUME NEW m \in network, ReceiveEOD(m)
        PROVE  ControlInv'
    BY <1>3 DEF ReceiveEOD, AfterFragment, NextReceive, MutexInv, SessionInv, HistoryInv, forced, CurInv
  <1>4. CASE ReceiveNothing
    BY <1>4 DEF ReceiveNothing, MutexInv, SessionInv, HistoryInv, forced, CurInv
  <1>5. CASE Timeout
    <2>1. rejected' => forced'
      BY <1>5, CutForces DEF Timeout, TimeoutIf, HistoryInv, forced, TypeOK
    <2>2. QED
      BY <1>5, <2>1 DEF Timeout, TimeoutIf, NextReceive, MutexInv, SessionInv, HistoryInv, CurInv
  <1>6. CASE InsertFragment
    BY <1>6 DEF InsertFragment, InsertAccepted, Insert, AfterFragment, NextReceive,
                MutexInv, SessionInv, HistoryInv, forced, CurInv
  <1>7. CASE RejectFragment
    <2>1. forced'
      BY <1>7, CutForces DEF RejectFragment, TypeOK
    <2>2. QED
      BY <1>7, <2>1 DEF RejectFragment, AfterFragment, MutexInv, SessionInv, HistoryInv, CurInv
  <1>8. CASE FlushOne
    BY <1>8 DEF FlushOne, FlushEvent, threadVars, MutexInv, SessionInv, HistoryInv, forced, CurInv
  <1>9. CASE FlushAndUnlock
    BY <1>9 DEF FlushAndUnlock, FlushReturn, MutexInv, SessionInv, HistoryInv, forced, CurInv
  <1>10. CASE Exit
    BY <1>10 DEF Exit, MutexInv, SessionInv, HistoryInv, forced, CurInv
  <1>11. QED
    BY <1>1, <1>2, <1>3, <1>4, <1>5, <1>6, <1>7, <1>8, <1>9, <1>10 DEF Process

LEMMA ControlOrder ==
  ASSUME TypeOK, ControlInv, Order
  PROVE  ControlInv'
  <1> USE DEF ControlInv, Goto, recvVars, threadVars, storeVars, history, netVars, AtRest, Ending, Receiving
  <1>1. CASE Start
    BY <1>1 DEF Start, MutexInv, SessionInv, HistoryInv, forced, CurInv
  <1>2. CASE Resume
    BY <1>2 DEF Resume, MutexInv, SessionInv, HistoryInv, forced, CurInv
  <1>3. CASE Stop
    BY <1>3 DEF Stop, MutexInv, SessionInv, HistoryInv, forced, CurInv
  <1>4. CASE Pause
    BY <1>4 DEF Pause, MutexInv, SessionInv, HistoryInv, forced, CurInv
  <1>5. CASE Shutdown
    BY <1>5 DEF Shutdown, Enqueue, MutexInv, SessionInv, HistoryInv, forced, CurInv
  <1>6. QED
    BY <1>1, <1>2, <1>3, <1>4, <1>5 DEF Order

LEMMA ControlCommand ==
  ASSUME TypeOK, ControlInv, Command
  PROVE  ControlInv'
  <1> USE DEF ControlInv, Goto, Lock, recvVars, threadVars, storeVars, history, netVars, AtRest, Ending, Receiving
  <1>0. run_id \in Nat /\ subrun_id \in Nat /\ session \in Nat /\ MaxSession \in Nat
    BY EventStoreAssumption, EventBuilderAssumption DEF TypeOK, StoreTypeOK
  <1>1. CASE StartLocked
    BY <1>0, <1>1 DEF StartLocked, startRun, BeginSession, MutexInv, SessionInv, HistoryInv, forced, CurInv
  <1>2. CASE ResumeLocked
    BY <1>0, <1>2 DEF ResumeLocked, startSubrun, BeginSession, MutexInv, SessionInv, HistoryInv, forced, CurInv
  <1>3. CASE StopLocked
    BY <1>3 DEF StopLocked, MutexInv, SessionInv, HistoryInv, forced, CurInv
  <1>4. CASE PauseLocked
    BY <1>4 DEF PauseLocked, MutexInv, SessionInv, HistoryInv, forced, CurInv
  <1>5. CASE StopEndSubrun
    BY <1>5 DEF StopEndSubrun, EnqueueOrGiveUp, Enqueue, MutexInv, SessionInv, HistoryInv, forced, CurInv
  <1>6. CASE StopEndRun
    BY <1>6 DEF StopEndRun, EnqueueOrGiveUp, Enqueue, MutexInv, SessionInv, HistoryInv, forced, CurInv
  <1>7. CASE PauseEndSubrun
    BY <1>7 DEF PauseEndSubrun, EnqueueOrGiveUp, Enqueue, MutexInv, SessionInv, HistoryInv, forced, CurInv
  <1>8. CASE Joined
    BY <1>8 DEF Joined, MutexInv, SessionInv, HistoryInv, forced, CurInv
  <1>9. CASE ShutdownJoined
    BY <1>9 DEF ShutdownJoined, MutexInv, SessionInv, HistoryInv, forced, CurInv
  <1>10. QED
    BY <1>1, <1>2, <1>3, <1>4, <1>5, <1>6, <1>7, <1>8, <1>9 DEF Command

LEMMA ControlStep ==
  ASSUME TypeOK, ControlInv, [Next]_vars
  PROVE  ControlInv'
  <1>1. ASSUME UNCHANGED controlVars
        PROVE  ControlInv'
    BY <1>1 DEF controlVars, ControlInv, MutexInv, SessionInv, HistoryInv, forced, CurInv
  <1>2. ASSUME NEW s \in Sender, SenderBegin(s) \/ SenderSend(s) \/ SenderEnd(s)
        PROVE  UNCHANGED controlVars
    BY <1>2 DEF SenderBegin, SenderSend, SenderEnd, controlVars, storeVars, cmdVars, threadVars,
                recvVars, history
  <1>3. CASE Reader
    BY <1>1, <1>3 DEF Reader, Dequeue, controlVars, storeVars, cmdVars, threadVars, recvVars, history
  <1>4. CASE Terminated \/ UNCHANGED vars
    BY <1>1, <1>4 DEF Terminated, vars, controlVars, storeVars, cmdVars, threadVars, recvVars, history
  <1>5. QED
    BY <1>1, <1>2, <1>3, <1>4, ControlProcess, ControlOrder, ControlCommand DEF Next

-----------------------------------------------------------------------------
(* The senders.                                                            *)

LEMMA SenderStep ==
  ASSUME TypeOK, ControlInv, SenderInv, [Next]_vars
  PROVE  SenderInv'
  <1>0. /\ run_id \in Nat /\ run_id >= 1 /\ session \in Nat
        /\ \A s \in Sender : /\ sender[s].session \in Nat /\ sender[s].run \in Nat
                             /\ sender[s].count \in Nat /\ sender[s].seq \in Nat
                             /\ sender[s].on \in BOOLEAN
    BY EventStoreAssumption, EventBuilderAssumption DEF TypeOK, StoreTypeOK
  <1>1. ASSUME UNCHANGED <<sender, session, run_id>>
        PROVE  SenderInv'
    BY <1>1 DEF SenderInv
  <1>2. ASSUME sender' = sender, session' = session + 1,
               run_id' \in {run_id, run_id + 1}
        PROVE  SenderInv'
    BY <1>0, <1>2 DEF SenderInv
  <1>3. ASSUME NEW s \in Sender, SenderBegin(s)
        PROVE  SenderInv'
    <2>1. /\ \A t \in Sender \ {s} : sender'[t] = sender[t]
          /\ sender'[s].session = sender[s].session + 1 /\ sender'[s].run = run_id
          /\ sender'[s].count = 0 /\ sender'[s].seq \in Nat
          /\ UNCHANGED <<session, run_id>> /\ sender[s].session < session
      BY <1>0, <1>3 DEF SenderBegin, TypeOK, storeVars, cmdVars
    <2>2. QED
      BY <1>0, <2>1 DEF SenderInv
  <1>4. ASSUME NEW s \in Sender, SenderSend(s)
        PROVE  SenderInv'
    <2>1. /\ \A t \in Sender \ {s} : sender'[t] = sender[t]
          /\ sender'[s].session = sender[s].session /\ sender'[s].run = sender[s].run
          /\ sender'[s].count = sender[s].count + 1 /\ sender'[s].seq = sender[s].seq + 1
          /\ sender'[s].on = sender[s].on /\ sender[s].on
          /\ UNCHANGED <<session, run_id>>
      BY <1>4 DEF SenderSend, TypeOK, storeVars, cmdVars
    <2>2. QED
      BY <1>0, <2>1 DEF SenderInv
  <1>5. ASSUME NEW s \in Sender, SenderEnd(s)
        PROVE  SenderInv'
    <2>1. /\ \A t \in Sender \ {s} : sender'[t] = sender[t]
          /\ sender'[s].session = sender[s].session /\ sender'[s].run = sender[s].run
          /\ sender'[s].count = sender[s].count /\ sender'[s].seq = sender[s].seq
          /\ sender'[s].on = FALSE
          /\ UNCHANGED <<session, run_id>>
      BY <1>5 DEF SenderEnd, TypeOK, storeVars, cmdVars
    <2>2. QED
      BY <1>0, <2>1 DEF SenderInv
  <1>6. CASE StartLocked \/ ResumeLocked
    <2>1. session = 0 => run_id = 1
      BY DEF ControlInv, SessionInv
    <2>2. QED
      BY <1>2, <1>6, <2>1 DEF StartLocked, ResumeLocked, startRun, startSubrun, BeginSession, netVars
  <1>7. CASE Process
    <2>1. UNCHANGED <<sender, session, run_id>>
      BY <1>7 DEF Process, Enter, ReceiveData, ReceiveEOD, ReceiveNothing, Timeout, TimeoutIf, InsertFragment,
         InsertAccepted, Insert, RejectFragment, FlushOne, FlushEvent, FlushAndUnlock, FlushReturn,
         Exit, storeVars, cmdVars, netVars
    <2>2. QED
      BY <1>1, <2>1
  <1>8. CASE Order \/ Reader \/ Terminated \/ UNCHANGED vars
    <2>1. UNCHANGED <<sender, session, run_id>>
      BY <1>8 DEF Order, Start, Resume, Stop, Pause, Shutdown, Enqueue, Reader, Dequeue, Terminated,
         vars, storeVars, cmdVars, netVars
    <2>2. QED
      BY <1>1, <2>1
  <1>9. CASE Command
    <2>1. StartLocked \/ ResumeLocked \/ UNCHANGED <<sender, session, run_id>>
      BY <1>9 DEF Command, StopLocked, PauseLocked, StopEndSubrun, StopEndRun, PauseEndSubrun,
         Joined, ShutdownJoined, EnqueueOrGiveUp, Enqueue, storeVars, netVars
    <2>2. QED
      BY <1>1, <1>6, <2>1
  <1>10. QED
    BY <1>3, <1>4, <1>5, <1>7, <1>8, <1>9 DEF Next

-----------------------------------------------------------------------------
(* The operations of the store, as far as this module needs them.          *)

LEMMA KeyType ==
  ASSUME NEW seq \in 1 .. MaxSeq, lastFlushedSeqID \in 0 .. MaxSeq
  PROVE  Key(seq) \in 0 .. 2 ^ Width - 1
  <1> DEFINE x == seq - (1 + lastFlushedSeqID)
             M == 2 ^ Width
  <1>1. M \in Nat \ {0} /\ SeqIDModulus \in Nat \ {0} /\ x \in Int
    BY EventStoreAssumption
  <1> HIDE DEF x, M
  <1>2. x % M \in Nat
    BY <1>1
  <1>3. ((x % M) \div SeqIDModulus) + 1 \in Int
    BY <1>1, <1>2
  <1>4. (((x % M) \div SeqIDModulus) + 1) % M \in 0 .. M - 1
    BY <1>1, <1>3
  <1>5. QED
    BY <1>4 DEF Key, x, M

LEMMA EnqueuedType ==
  ASSUME StoreTypeOK
  PROVE  /\ Enqueued \in Seq(Item)
         /\ DOMAIN Enqueued = 1 .. Len(Enqueued) /\ Len(Enqueued) \in Nat
         /\ \A i \in DOMAIN Enqueued : Enqueued[i] \in Item
  <1>1. popped \in Seq(Item) /\ queue \in Seq(Item)
    BY DEF StoreTypeOK
  <1>2. Enqueued \in Seq(Item)
    BY <1>1, ConcatProperties DEF Enqueued
  <1>3. QED
    BY <1>2, LenProperties, ElementOfSeq

\* An item added at the end changes nothing before it.
LEMMA EnqueuedAppend ==
  ASSUME StoreTypeOK, NEW e \in Item, queue' = Append(queue, e), popped' = popped
  PROVE  /\ DOMAIN Enqueued' = DOMAIN Enqueued \cup {Len(Enqueued) + 1}
         /\ Len(Enqueued) + 1 \notin DOMAIN Enqueued
         /\ \A i \in DOMAIN Enqueued : Enqueued'[i] = Enqueued[i]
         /\ Enqueued'[Len(Enqueued) + 1] = e
  <1>1. popped \in Seq(Item) /\ queue \in Seq(Item) /\ Enqueued \in Seq(Item)
    BY EnqueuedType DEF StoreTypeOK
  <1>2. Enqueued' = popped \o (queue \o <<e>>)
    BY <1>1, AppendIsConcat DEF Enqueued
  <1>3. Enqueued' = Enqueued \o <<e>>
    BY <1>1, <1>2, ConcatAssociative DEF Enqueued
  <1>4. Enqueued' = Append(Enqueued, e)
    BY <1>1, <1>3, AppendIsConcat
  <1>5. /\ Append(Enqueued, e) \in Seq(Item)
        /\ Len(Append(Enqueued, e)) = Len(Enqueued) + 1
        /\ \A i \in 1 .. Len(Enqueued) : Append(Enqueued, e)[i] = Enqueued[i]
        /\ Append(Enqueued, e)[Len(Enqueued) + 1] = e
    BY <1>1, AppendProperties
  <1>6. DOMAIN Append(Enqueued, e) = 1 .. Len(Enqueued) + 1
    BY <1>5, LenProperties
  <1>7. DOMAIN Enqueued = 1 .. Len(Enqueued) /\ Len(Enqueued) \in Nat
    BY <1>1, LenProperties
  <1>8. QED
    BY <1>4, <1>5, <1>6, <1>7

\* The events among what was put on the queue, when one more item is.
\* What the reader takes was on the queue before.
LEMMA EnqueuedDequeue ==
  ASSUME StoreTypeOK, Dequeue
  PROVE  Enqueued' = Enqueued
  <1>1. popped \in Seq(Item) /\ queue \in Seq(Item) /\ queue # <<>>
    BY DEF StoreTypeOK, Dequeue
  <1>2. Head(queue) \in Item /\ Tail(queue) \in Seq(Item)
    BY <1>1, HeadTailProperties
  <1>3. queue = <<Head(queue)>> \o Tail(queue)
    <2> DEFINE s == <<Head(queue)>> \o Tail(queue)
    <2>1. <<Head(queue)>> \in Seq(Item) /\ Len(<<Head(queue)>>) = 1 /\ <<Head(queue)>>[1] = Head(queue)
      BY <1>2
    <2>2. /\ s \in Seq(Item) /\ Len(s) = 1 + Len(Tail(queue))
          /\ \A i \in 1 .. 1 + Len(Tail(queue)) : s[i] = IF i <= 1 THEN Head(queue) ELSE Tail(queue)[i - 1]
      BY <1>2, <2>1, ConcatProperties
    <2>3. /\ Len(Tail(queue)) = Len(queue) - 1 /\ Len(queue) \in Nat
          /\ \A i \in 1 .. Len(Tail(queue)) : Tail(queue)[i] = queue[i + 1]
          /\ Head(queue) = queue[1]
      BY <1>1, HeadTailProperties, LenProperties
    <2>4. Len(s) = Len(queue) /\ \A i \in 1 .. Len(queue) : s[i] = queue[i]
      BY <2>2, <2>3
    <2> HIDE DEF s
    <2>5. s = queue
      BY <1>1, <2>2, <2>4, SeqEqual
    <2>6. QED
      BY <2>5 DEF s
  <1> DEFINE h == <<Head(queue)>>
             t == Tail(queue)
  <1>4. h \in Seq(Item) /\ t \in Seq(Item) /\ queue = h \o t
    BY <1>2, <1>3
  <1>5. Enqueued' = (popped \o h) \o t
    BY <1>1, <1>2, AppendIsConcat DEF Enqueued, Dequeue
  <1> HIDE DEF h, t
  <1>6. (popped \o h) \o t = popped \o (h \o t)
    BY <1>1, <1>4, ConcatAssociative
  <1>7. QED
    BY <1>4, <1>5, <1>6 DEF Enqueued

\* The RawEvents are those put on the queue and those in the map.
LEMMA RawEventsAre ==
  ASSUME NEW ev
  PROVE  ev \in RawEvents <=> \/ \E i \in EnqueuedEvents : ev = Enqueued[i]
                              \/ \E k \in DOMAIN events : ev = events[k]
  BY DEF RawEvents, Range
LEMMA EventWithIs ==
  ASSUME StoreTypeOK, MapInv, NEW f \in Fragment
  PROVE  /\ EventWith(f) \in Item /\ EventWith(f).kind = "event"
         /\ Key(f.seq) \in DOMAIN events =>
              /\ EventWith(f).frags = events[Key(f.seq)].frags \cup {f}
              /\ EventWith(f).run = events[Key(f.seq)].run
              /\ EventWith(f).subrun = events[Key(f.seq)].subrun
         /\ Key(f.seq) \notin DOMAIN events =>
              EventWith(f).frags = {f} /\ EventWith(f).run = run_id /\ EventWith(f).subrun = subrun_id
  <1> DEFINE k == Key(f.seq)
             found == IF k \in DOMAIN events THEN events[k] ELSE RawEvent(f.seq)
  <1>1. f.seq \in Nat /\ run_id \in Nat /\ subrun_id \in Nat
    BY EventStoreAssumption DEF StoreTypeOK, Fragment
  <1>2. RawEvent(f.seq) \in Item /\ RawEvent(f.seq).kind = "event"
    BY <1>1 DEF RawEvent, Item
  <1>3. k \in DOMAIN events => events[k] \in Item /\ events[k].kind = "event"
    BY DEF StoreTypeOK, MapInv
  <1>4. found \in Item /\ found.kind = "event"
    BY <1>2, <1>3
  <1>5. EventWith(f) = [found EXCEPT !.frags = @ \cup {f}]
    BY DEF EventWith
  <1>6. RawEvent(f.seq).run = run_id /\ RawEvent(f.seq).subrun = subrun_id /\ RawEvent(f.seq).frags = {}
    BY DEF RawEvent
  <1> HIDE DEF found, k
  <1>7. /\ EventWith(f) \in Item /\ EventWith(f).kind = "event"
        /\ EventWith(f).frags = found.frags \cup {f}
        /\ EventWith(f).run = found.run /\ EventWith(f).subrun = found.subrun
    BY <1>4, <1>5 DEF Item
  <1>8. QED
    BY <1>6, <1>7 DEF found, k

LEMMA InsertIs ==
  ASSUME NEW f \in Fragment, InsertAccepted(f)
  PROVE  /\ events' = [k \in DOMAIN events' |-> events'[k]]
         /\ UNCHANGED <<run_id, subrun_id, lastFlushedSeqID, popped>>
         /\ ~Full
         /\ highestSeqIDSeen' \in {f.seq, highestSeqIDSeen}
         /\ \/ /\ Completes(f)
               /\ DOMAIN events' = DOMAIN events \ {Key(f.seq)}
               /\ \A j \in DOMAIN events' : events'[j] = events[j]
               /\ queue' = Append(queue, EventWith(f))
            \/ /\ DOMAIN events' = DOMAIN events \cup {Key(f.seq)}
               /\ events'[Key(f.seq)] = EventWith(f)
               /\ \A j \in DOMAIN events' \ {Key(f.seq)} : events'[j] = events[j]
               /\ queue' = queue
  BY DEF InsertAccepted, Insert, Restrict

LEMMA FlushEventIs ==
  ASSUME FlushEvent
  PROVE  \E k \in DOMAIN events :
           /\ events' = [j \in DOMAIN events' |-> events'[j]]
           /\ DOMAIN events' = DOMAIN events \ {k}
           /\ \A j \in DOMAIN events' : events'[j] = events[j]
           /\ queue' = Append(queue, events[k])
           /\ ~Full
           /\ UNCHANGED <<run_id, subrun_id, lastFlushedSeqID, highestSeqIDSeen, popped>>
  BY DEF FlushEvent, Restrict

\* The queue stays within its size.
LEMMA QueueType ==
  ASSUME StoreTypeOK, ~Full, NEW e \in Item, queue' = Append(queue, e)
  PROVE  queue' \in Seq(Item) /\ Len(queue') <= QueueSize
  <1>1. queue \in Seq(Item) /\ Len(queue) \in Nat /\ ~(Len(queue) >= QueueSize)
    BY LenProperties DEF StoreTypeOK, Full
  <1>2. Append(queue, e) \in Seq(Item) /\ Len(Append(queue, e)) = Len(queue) + 1
    BY <1>1, AppendProperties
  <1>3. QED
    BY <1>1, <1>2, EventStoreAssumption

LEMMA MarkerType ==
  ASSUME StoreTypeOK, NEW kind \in {"endSubrun", "endRun", "endOfData", "init"}
  PROVE  Marker(kind) \in Item /\ Marker(kind).kind = kind
  BY EventStoreAssumption DEF Marker, Item, StoreTypeOK

\* Every operation keeps the types of the store.
LEMMA InsertType ==
  ASSUME StoreTypeOK, MapInv, NEW f \in Fragment, InsertAccepted(f)
  PROVE  StoreTypeOK'
  <1>1. EventWith(f) \in Item
    BY EventWithIs
  <1>2. Key(f.seq) \in 0 .. 2 ^ Width - 1 /\ f.seq \in 0 .. MaxSeq
    BY KeyType, EventStoreAssumption DEF StoreTypeOK, Fragment
  <1>3. queue' \in Seq(Item) /\ Len(queue') <= QueueSize
    BY <1>1, InsertIs, QueueType DEF StoreTypeOK
  <1>4. DOMAIN events' \subseteq 0 .. 2 ^ Width - 1 /\ \A j \in DOMAIN events' : events'[j] \in Item
    <2>1. DOMAIN events' \subseteq DOMAIN events \cup {Key(f.seq)}
      BY InsertIs
    <2>2. \A j \in DOMAIN events' : events'[j] = EventWith(f) \/ (j \in DOMAIN events /\ events'[j] = events[j])
      BY InsertIs
    <2>3. QED
      BY <1>1, <1>2, <2>1, <2>2 DEF StoreTypeOK
  <1>5. QED
    BY <1>2, <1>3, <1>4, InsertIs DEF StoreTypeOK

LEMMA FlushEventType ==
  ASSUME StoreTypeOK, FlushEvent
  PROVE  StoreTypeOK'
  <1>1. PICK k \in DOMAIN events :
           /\ events' = [j \in DOMAIN events' |-> events'[j]]
           /\ DOMAIN events' = DOMAIN events \ {k}
           /\ \A j \in DOMAIN events' : events'[j] = events[j]
           /\ queue' = Append(queue, events[k])
           /\ ~Full
           /\ UNCHANGED <<run_id, subrun_id, lastFlushedSeqID, highestSeqIDSeen, popped>>
    BY FlushEventIs
  <1>2. queue' \in Seq(Item) /\ Len(queue') <= QueueSize
    BY <1>1, QueueType DEF StoreTypeOK
  <1>3. DOMAIN events' \subseteq 0 .. 2 ^ Width - 1 /\ \A j \in DOMAIN events' : events'[j] \in Item
    BY <1>1 DEF StoreTypeOK
  <1>4. QED
    BY <1>1, <1>2, <1>3 DEF StoreTypeOK

LEMMA EnqueueType ==
  ASSUME StoreTypeOK, NEW kind \in {"endSubrun", "endRun", "endOfData", "init"}, Enqueue(kind)
  PROVE  StoreTypeOK'
  <1>1. queue' \in Seq(Item) /\ Len(queue') <= QueueSize
    BY MarkerType, QueueType DEF Enqueue
  <1>2. UNCHANGED <<run_id, subrun_id, events, lastFlushedSeqID, highestSeqIDSeen, popped>>
    BY DEF Enqueue
  <1>3. QED
    BY <1>1, <1>2 DEF StoreTypeOK

LEMMA DequeueType ==
  ASSUME StoreTypeOK, Dequeue
  PROVE  StoreTypeOK'
  <1>1. queue \in Seq(Item) /\ queue # <<>> /\ popped \in Seq(Item)
    BY DEF StoreTypeOK, Dequeue
  <1>2. /\ Head(queue) \in Item /\ Tail(queue) \in Seq(Item) /\ Len(Tail(queue)) = Len(queue) - 1
        /\ Len(queue) \in Nat
    BY <1>1, HeadTailProperties, LenProperties
  <1>3. Append(popped, Head(queue)) \in Seq(Item)
    BY <1>1, <1>2, AppendProperties
  <1>4. queue' \in Seq(Item) /\ Len(queue') <= QueueSize /\ popped' \in Seq(Item)
    BY <1>2, <1>3, EventStoreAssumption DEF Dequeue, StoreTypeOK
  <1>5. UNCHANGED <<run_id, subrun_id, events, lastFlushedSeqID, highestSeqIDSeen>>
    BY DEF Dequeue
  <1>6. QED
    BY <1>4, <1>5 DEF StoreTypeOK

LEMMA StoreStarts ==
  ASSUME StoreInit
  PROVE  StoreTypeOK
  BY EventStoreAssumption DEF StoreInit, StoreTypeOK

-----------------------------------------------------------------------------
(* What a step of the event builder does to the store.                     *)

\* No event is added, and what ends a session does not come back.
Quiet ==
  /\ pc \in {"exit", "none"} => pc' \in {"exit", "none"}
  /\ pc' \in {"exit", "none"} => pc \in {"exit", "none"} \/ rejected'
  /\ (rejected => rejected') /\ (forced => forced') /\ UNCHANGED flushFailed

MarkerStep ==
  /\ \E kind \in {"endSubrun", "endRun", "endOfData"} :
       Enqueue(kind) /\ (kind = "endSubrun" => cmd \in Ending)
  /\ UNCHANGED <<pc, cutRun, rejected, flushFailed>>

LEMMA StoreSteps ==
  ASSUME StoreTypeOK, [Next]_vars
  PROVE  \/ InsertFragment \/ FlushOne \/ FlushAndUnlock
         \/ StartLocked \/ ResumeLocked
         \/ MarkerStep \/ Reader
         \/ UNCHANGED storeVars /\ Quiet
  <1>1. ASSUME NEW s \in Sender, SenderBegin(s) \/ SenderSend(s) \/ SenderEnd(s)
        PROVE  UNCHANGED storeVars /\ Quiet
    <2>1. UNCHANGED storeVars /\ UNCHANGED <<pc, cutRun, rejected, flushFailed>>
      BY <1>1 DEF SenderBegin, SenderSend, SenderEnd, threadVars, history
    <2>2. QED
      BY <2>1 DEF Quiet, forced
  <1>2. CASE Process
    <2>1. CASE Enter
      BY <2>1 DEF Enter, NextReceive, Quiet, forced, history
    <2>2. ASSUME NEW m \in network, ReceiveData(m)
          PROVE  UNCHANGED storeVars /\ Quiet
      BY <2>2 DEF ReceiveData, Quiet, forced, history
    <2>3. ASSUME NEW m \in network, ReceiveEOD(m)
          PROVE  UNCHANGED storeVars /\ Quiet
      BY <2>3 DEF ReceiveEOD, AfterFragment, NextReceive, Quiet, forced, history
    <2>4. CASE ReceiveNothing
      BY <2>4 DEF ReceiveNothing, Quiet, forced, history
    <2>5. CASE Timeout
      BY <2>5, CutForces DEF Timeout, TimeoutIf, NextReceive, Quiet, forced
    <2>6. CASE RejectFragment
      BY <2>6, CutForces DEF RejectFragment, AfterFragment, Quiet
    <2>7. CASE Exit
      BY <2>7 DEF Exit, Quiet, forced, history
    <2>8. QED
      BY <1>2, <2>1, <2>2, <2>3, <2>4, <2>5, <2>6, <2>7 DEF Process
  <1>3. CASE Order
    <2>1. CASE Start \/ Resume \/ Stop \/ Pause
      BY <2>1 DEF Start, Resume, Stop, Pause, Quiet, forced, threadVars, history
    <2>2. CASE Shutdown
      BY <2>2 DEF Shutdown, MarkerStep, Quiet, forced, threadVars, history
    <2>3. QED
      BY <1>3, <2>1, <2>2 DEF Order
  <1>4. CASE Command
    <2>1. CASE StopLocked \/ PauseLocked \/ Joined \/ ShutdownJoined
      BY <2>1 DEF StopLocked, PauseLocked, Joined, ShutdownJoined, Quiet, forced, threadVars, history
    <2>2. CASE StopEndSubrun \/ StopEndRun \/ PauseEndSubrun
      BY <2>2 DEF StopEndSubrun, StopEndRun, PauseEndSubrun, Goto, EnqueueOrGiveUp, MarkerStep, Ending,
                  Quiet, forced, threadVars, history
    <2>3. QED
      BY <1>4, <2>1, <2>2 DEF Command
  <1>5. CASE Terminated \/ UNCHANGED vars
    BY <1>5 DEF Terminated, vars, Quiet, forced, threadVars, history
  <1>6. QED
    BY <1>1, <1>2, <1>3, <1>4, <1>5 DEF Next

-----------------------------------------------------------------------------
(* Types.                                                                  *)

LEMMA StoreTypeStep ==
  ASSUME IInv, [Next]_vars
  PROVE  StoreTypeOK'
  <1>0. StoreTypeOK /\ MapInv
    BY DEF IInv, TypeOK
  <1>1. CASE InsertFragment
    <2>1. cur \in Fragment
      BY <1>1 DEF IInv, TypeOK, CurInv, InsertFragment
    <2>2. QED
      BY <1>0, <1>1, <2>1, InsertType DEF InsertFragment
  <1>2. CASE FlushOne
    BY <1>0, <1>2, FlushEventType DEF FlushOne
  <1>3. CASE FlushAndUnlock
    BY <1>0, <1>3 DEF FlushAndUnlock, FlushReturn, StoreTypeOK
  <1>4. CASE StartLocked
    <2>1. run_id' \in 1 .. MaxRun /\ subrun_id' \in Nat /\ 0 \in 0 .. MaxSeq
      BY <1>0, <1>4, EventStoreAssumption DEF StartLocked, Goto, startRun, IInv, SessionInv, StoreTypeOK
    <2>2. QED
      BY <1>0, <1>4, <2>1 DEF StartLocked, startRun, StoreTypeOK
  <1>5. CASE ResumeLocked
    BY <1>0, <1>5 DEF ResumeLocked, startSubrun, StoreTypeOK
  <1>6. CASE MarkerStep
    BY <1>0, <1>6, EnqueueType DEF MarkerStep
  <1>7. CASE Reader
    BY <1>0, <1>7, DequeueType DEF Reader
  <1>8. CASE UNCHANGED storeVars
    BY <1>0, <1>8 DEF StoreTypeOK, storeVars
  <1>9. QED
    BY <1>0, <1>1, <1>2, <1>3, <1>4, <1>5, <1>6, <1>7, <1>8, StoreSteps

\* What the senders are.
SenderType == [session : 0 .. MaxSession, run : 0 .. MaxRun, seq : 0 .. MaxSeq,
               count : 0 .. MaxSeq, on : BOOLEAN]

LEMMA SenderTypeStep ==
  ASSUME IInv, [Next]_vars
  PROVE  sender' \in [Sender -> SenderType] /\ network' \subseteq Message /\ NetInv'
  <1>0. /\ sender \in [Sender -> SenderType] /\ network \subseteq Message /\ NetInv
        /\ run_id \in 1 .. MaxRun /\ session \in 0 .. MaxSession
        /\ MaxRun \in Nat /\ MaxSession \in Nat /\ MaxSeq \in Nat
    BY EventStoreAssumption, EventBuilderAssumption DEF IInv, TypeOK, StoreTypeOK, SenderType
  <1>1. ASSUME NEW s \in Sender, SenderBegin(s)
        PROVE  sender' \in [Sender -> SenderType] /\ network' = network
    <2> DEFINE r == [session |-> sender[s].session + 1, run |-> run_id, on |-> TRUE, count |-> 0,
                     seq |-> IF sender[s].run = run_id THEN sender[s].seq ELSE 0]
    <2>1. r \in SenderType
      BY <1>0, <1>1 DEF SenderBegin, SenderType
    <2>2. sender' = [sender EXCEPT ![s] = r] /\ network' = network
      BY <1>1 DEF SenderBegin
    <2> HIDE DEF r
    <2>3. QED
      BY <1>0, <2>1, <2>2
  <1>2. ASSUME NEW m \in Message, network' = network \cup {m}, m.eod \/ m.n >= 1
        PROVE  network' \subseteq Message /\ NetInv'
    <2>1. IsFiniteSet(network')
      BY <1>0, <1>2, FS_AddElement DEF NetInv
    <2>2. QED
      BY <1>0, <1>2, <2>1 DEF NetInv
  <1>3. ASSUME NEW s \in Sender, SenderSend(s)
        PROVE  sender' \in [Sender -> SenderType] /\ network' \subseteq Message /\ NetInv'
    <2>1. sender[s] \in SenderType /\ sender[s].count <= sender[s].seq
      BY <1>0 DEF IInv, SenderInv
    <2>2. sender[s].seq + 1 \in 1 .. MaxSeq /\ sender[s].count + 1 \in 0 .. MaxSeq
      BY <1>0, <1>3, <2>1 DEF SenderSend, SenderType
    <2>3. sender' = [sender EXCEPT ![s].seq = @ + 1, ![s].count = @ + 1]
      BY <1>3 DEF SenderSend
    <2>4. sender' \in [Sender -> SenderType]
      <3> DEFINE first == [sender EXCEPT ![s].seq = @ + 1]
      <3>1. first \in [Sender -> SenderType] /\ first[s].count = sender[s].count
        BY <1>0, <2>1, <2>2 DEF SenderType
      <3>2. sender' = [first EXCEPT ![s].count = @ + 1]
        BY <1>0, <2>3
      <3> HIDE DEF first
      <3>3. QED
        BY <1>0, <2>2, <3>1, <3>2 DEF SenderType
    <2>5. sender[s].session >= 1 /\ sender[s].run >= 1
      BY <1>3 DEF SenderSend, IInv, SenderInv
    <2>6. network' \subseteq Message /\ NetInv'
      <3> DEFINE m == [src |-> s, session |-> sender[s].session, eod |-> FALSE, run |-> sender[s].run,
                       n |-> sender[s].seq + 1]
      <3>1. m \in Message /\ m.n >= 1
        BY <1>0, <2>1, <2>2, <2>5 DEF Message, SenderType
      <3>2. network' = network \cup {m}
        BY <1>3 DEF SenderSend, Sent
      <3> HIDE DEF m
      <3>3. QED
        BY <1>2, <3>1, <3>2
    <2>7. QED
      BY <2>4, <2>6
  <1>4. ASSUME NEW s \in Sender, SenderEnd(s)
        PROVE  sender' \in [Sender -> SenderType] /\ network' \subseteq Message /\ NetInv'
    <2>1. sender' \in [Sender -> SenderType]
      BY <1>0, <1>4 DEF SenderEnd, SenderType
    <2>2. sender[s].session >= 1 /\ sender[s].run >= 1
      BY <1>4 DEF SenderEnd, IInv, SenderInv
    <2>3. network' \subseteq Message /\ NetInv'
      <3> DEFINE m == [src |-> s, session |-> sender[s].session, eod |-> TRUE, run |-> sender[s].run,
                       n |-> sender[s].count]
      <3>1. m \in Message /\ m.eod
        BY <1>0, <2>2 DEF Message, SenderType
      <3>2. network' = network \cup {m}
        BY <1>4 DEF SenderEnd, Sent
      <3> HIDE DEF m
      <3>3. QED
        BY <1>2, <3>1, <3>2
    <2>4. QED
      BY <2>1, <2>3
  <1>5. CASE sender' = sender /\ network' \subseteq network
    BY <1>0, <1>5, FS_Subset DEF NetInv
  <1>6. CASE Process
    <2>1. sender' = sender /\ network' \subseteq network
      BY <1>6 DEF Process, Enter, ReceiveData, ReceiveEOD, ReceiveNothing, Timeout, TimeoutIf, InsertFragment,
         RejectFragment, FlushOne, FlushAndUnlock, Exit, netVars
    <2>2. QED
      BY <1>5, <2>1
  <1>7. CASE Order \/ Command \/ Reader \/ Terminated \/ UNCHANGED vars
    <2>1. UNCHANGED netVars
      BY <1>7 DEF Order, Start, Resume, Stop, Pause, Shutdown, Command, StartLocked, ResumeLocked,
         BeginSession, StopLocked, PauseLocked, StopEndSubrun, StopEndRun, PauseEndSubrun, Joined,
         ShutdownJoined, Reader, Terminated, vars
    <2>2. QED
      BY <1>5, <2>1 DEF netVars
  <1>8. QED
    BY <1>0, <1>1, <1>3, <1>4, <1>6, <1>7 DEF Next, NetInv

\* The two threads.
CommandType ==
  /\ cmd \in Idle \cup {"start_lock", "resume_lock", "stop_lock", "stop_endSubrun",
        "stop_endRun", "stop_join", "pause_lock", "pause_endSubrun", "pause_join", "shutdown_join"}
  /\ session \in 0 .. MaxSession
  /\ flush_mutex \in {"free", "session", "command"}

FlagType ==
  /\ stop_requested \in BOOLEAN /\ pause_requested \in BOOLEAN /\ run_is_paused \in BOOLEAN
  /\ cutRun \in 0 .. MaxRun /\ rejected \in BOOLEAN /\ flushFailed \in BOOLEAN

CountType ==
  /\ fragments_received \in [Sender -> Nat]
  /\ fragments_sent \in [Sender -> 0 .. MaxSeq + 1]
  /\ eods \in [Sender -> Nat]
  /\ eod_fragments_received \in Nat

ThreadType ==
  /\ pc \in {"none", "enter", "recv", "insert", "flush", "exit"}
  /\ recvTimeout \in {"inrun", "endrun", "pause"}
  /\ cur \in Fragment \cup {NoFragment}

LEMMA TypeParts ==
  ASSUME TypeOK
  PROVE  CommandType /\ FlagType /\ CountType /\ ThreadType
  BY DEF TypeOK, CommandType, FlagType, CountType, ThreadType

LEMMA ProcessType ==
  ASSUME IInv, Process
  PROVE  CommandType' /\ FlagType' /\ CountType' /\ ThreadType'
  <1>0. TypeOK /\ CommandType /\ FlagType /\ CountType /\ ThreadType
    BY TypeParts DEF IInv
  <1> USE DEF cmdVars, recvVars, history, netVars, storeVars
  <1>1. CASE Enter
    <2>1. CommandType' /\ FlagType'
      BY <1>0, <1>1 DEF Enter, CommandType, FlagType
    <2>2. CountType'
      BY <1>0, <1>1, EventStoreAssumption DEF Enter, CountType
    <2>3. ThreadType'
      BY <1>0, <1>1 DEF Enter, NextReceive, ThreadType
    <2>4. QED
      BY <2>1, <2>2, <2>3
  <1>2. ASSUME NEW m \in network, ReceiveData(m)
        PROVE  CommandType' /\ FlagType' /\ CountType' /\ ThreadType'
    <2>0. m \in Message /\ ~m.eod /\ m.n >= 1 /\ m.src \in Sender
      BY <1>0, <1>2 DEF IInv, NetInv, ReceiveData, TypeOK, Message
    <2>1. CommandType' /\ FlagType'
      BY <1>0, <1>2 DEF ReceiveData, CommandType, FlagType
    <2>2. CountType'
      BY <1>0, <1>2, <2>0 DEF ReceiveData, Received, CountType
    <2>3. FragmentOf(m) \in Fragment
      BY <2>0 DEF FragmentOf, Fragment, Message, Sender
    <2>4. ThreadType'
      BY <1>0, <1>2, <2>3 DEF ReceiveData, ThreadType
    <2>5. QED
      BY <2>1, <2>2, <2>4
  <1>3. ASSUME NEW m \in network, ReceiveEOD(m)
        PROVE  CommandType' /\ FlagType' /\ CountType' /\ ThreadType'
    <2>0. m \in Message /\ m.src \in Sender /\ m.n \in 0 .. MaxSeq
      BY <1>0 DEF TypeOK, Message
    <2>1. CommandType' /\ FlagType'
      BY <1>0, <1>3 DEF ReceiveEOD, CommandType, FlagType
    <2>2. CountType'
      BY <1>0, <1>3, <2>0, EventStoreAssumption DEF ReceiveEOD, Received, CountType
    <2>3. ThreadType'
      BY <1>0, <1>3 DEF ReceiveEOD, AfterFragment, NextReceive, ThreadType
    <2>4. QED
      BY <2>1, <2>2, <2>3
  <1>4. CASE ReceiveNothing
    BY <1>0, <1>4 DEF ReceiveNothing, CommandType, FlagType, CountType, ThreadType
  <1>5. CASE Timeout
    <2>1. CommandType' /\ CountType'
      BY <1>0, <1>5 DEF Timeout, TimeoutIf, CommandType, CountType
    <2>2. ThreadType'
      BY <1>0, <1>5 DEF Timeout, TimeoutIf, NextReceive, ThreadType
    <2>3. FlagType'
      BY <1>0, <1>5 DEF Timeout, TimeoutIf, CutShort, FlagType, TypeOK, StoreTypeOK
    <2>4. QED
      BY <2>1, <2>2, <2>3
  <1>6. CASE InsertFragment
    <2>1. CommandType' /\ FlagType' /\ CountType'
      BY <1>0, <1>6 DEF InsertFragment, CommandType, FlagType, CountType
    <2>2. ThreadType'
      BY <1>0, <1>6 DEF InsertFragment, AfterFragment, NextReceive, ThreadType
    <2>3. QED
      BY <2>1, <2>2
  <1>7. CASE RejectFragment
    <2>1. CommandType' /\ FlagType' /\ CountType'
      BY <1>0, <1>7 DEF RejectFragment, CutShort, CommandType, FlagType, CountType, TypeOK, StoreTypeOK
    <2>2. ThreadType'
      BY <1>0, <1>7 DEF RejectFragment, AfterFragment, NextReceive, ThreadType
    <2>3. QED
      BY <2>1, <2>2
  <1>8. CASE FlushOne
    BY <1>0, <1>8 DEF FlushOne, threadVars, CommandType, FlagType, CountType, ThreadType
  <1>9. CASE FlushAndUnlock
    <2>1. flushFailed' \in BOOLEAN /\ UNCHANGED <<cutRun, rejected>>
      BY <1>9 DEF FlushAndUnlock
    <2>2. CommandType' /\ CountType' /\ ThreadType'
      BY <1>0, <1>9 DEF FlushAndUnlock, CommandType, CountType, ThreadType
    <2>3. FlagType'
      BY <1>0, <1>9, <2>1 DEF FlushAndUnlock, FlagType
    <2>4. QED
      BY <2>2, <2>3
  <1>10. CASE Exit
    BY <1>0, <1>10 DEF Exit, CommandType, FlagType, CountType, ThreadType
  <1>11. QED
    BY <1>1, <1>2, <1>3, <1>4, <1>5, <1>6, <1>7, <1>8, <1>9, <1>10 DEF Process

LEMMA CommandsType ==
  ASSUME IInv, Order \/ Command
  PROVE  CommandType' /\ FlagType' /\ CountType' /\ ThreadType'
  <1>0. CommandType /\ FlagType /\ CountType /\ ThreadType /\ SessionInv
        /\ session \in Nat /\ MaxSession \in Nat
    BY TypeParts, EventBuilderAssumption DEF IInv, TypeOK
  <1> USE DEF Goto, Lock, threadVars, recvVars, history, netVars, storeVars
  <1>1. CASE Start
    <2>1. FlagType'
      BY <1>0, <1>1 DEF Start, FlagType
    <2>2. CommandType' /\ CountType' /\ ThreadType'
      BY <1>0, <1>1 DEF Start, CommandType, CountType, ThreadType, Idle
    <2>3. QED
      BY <2>1, <2>2
  <1>2. CASE Resume
    <2>1. FlagType'
      BY <1>0, <1>2 DEF Resume, FlagType
    <2>2. CommandType' /\ CountType' /\ ThreadType'
      BY <1>0, <1>2 DEF Resume, CommandType, CountType, ThreadType, Idle
    <2>3. QED
      BY <2>1, <2>2
  <1>3. CASE Stop
    <2>1. FlagType'
      BY <1>0, <1>3 DEF Stop, FlagType
    <2>2. CommandType' /\ CountType' /\ ThreadType'
      BY <1>0, <1>3 DEF Stop, CommandType, CountType, ThreadType, Idle
    <2>3. QED
      BY <2>1, <2>2
  <1>4. CASE Pause
    <2>1. FlagType'
      BY <1>0, <1>4 DEF Pause, FlagType
    <2>2. CommandType' /\ CountType' /\ ThreadType'
      BY <1>0, <1>4 DEF Pause, CommandType, CountType, ThreadType, Idle
    <2>3. QED
      BY <2>1, <2>2
  <1>5. CASE Shutdown
    <2>1. FlagType'
      BY <1>0, <1>5 DEF Shutdown, FlagType
    <2>2. CommandType' /\ CountType' /\ ThreadType'
      BY <1>0, <1>5 DEF Shutdown, CommandType, CountType, ThreadType, Idle
    <2>3. QED
      BY <2>1, <2>2
  <1>6. CASE StartLocked \/ ResumeLocked
    <2>1. cmd' = "Running" /\ session' = session + 1 /\ flush_mutex' = "session" /\ pc' = "enter"
          /\ run_is_paused' = FALSE
          /\ UNCHANGED <<stop_requested, pause_requested, recvTimeout, cur, recvVars, history>>
      BY <1>6 DEF StartLocked, ResumeLocked, BeginSession
    <2>2. session < MaxSession
      BY <1>0, <1>6 DEF StartLocked, ResumeLocked, SessionInv
    <2>3. FlagType'
      BY <1>0, <2>1 DEF FlagType
    <2>4. CommandType' /\ CountType' /\ ThreadType'
      BY <1>0, <2>1, <2>2 DEF CommandType, CountType, ThreadType, Idle
    <2>5. QED
      BY <2>3, <2>4
  <1>7. CASE StopLocked \/ PauseLocked
    <2>1. FlagType'
      BY <1>0, <1>7 DEF StopLocked, PauseLocked, FlagType
    <2>2. CommandType' /\ CountType' /\ ThreadType'
      BY <1>0, <1>7 DEF StopLocked, PauseLocked, CommandType, CountType, ThreadType, Idle
    <2>3. QED
      BY <2>1, <2>2
  <1>8. CASE StopEndSubrun
    <2>1. FlagType'
      BY <1>0, <1>8 DEF StopEndSubrun, FlagType
    <2>2. CommandType' /\ CountType' /\ ThreadType'
      BY <1>0, <1>8 DEF StopEndSubrun, CommandType, CountType, ThreadType, Idle
    <2>3. QED
      BY <2>1, <2>2
  <1>9. CASE StopEndRun \/ PauseEndSubrun
    <2>1. FlagType'
      BY <1>0, <1>9 DEF StopEndRun, PauseEndSubrun, FlagType
    <2>2. CommandType' /\ CountType' /\ ThreadType'
      BY <1>0, <1>9 DEF StopEndRun, PauseEndSubrun, CommandType, CountType, ThreadType, Idle
    <2>3. QED
      BY <2>1, <2>2
  <1>10. CASE Joined \/ ShutdownJoined
    <2>1. FlagType'
      BY <1>0, <1>10 DEF Joined, ShutdownJoined, FlagType
    <2>2. CommandType' /\ CountType' /\ ThreadType'
      BY <1>0, <1>10 DEF Joined, ShutdownJoined, CommandType, CountType, ThreadType, Idle
    <2>3. QED
      BY <2>1, <2>2
  <1>11. QED
    BY <1>1, <1>2, <1>3, <1>4, <1>5, <1>6, <1>7, <1>8, <1>9, <1>10 DEF Order, Command

LEMMA TypeStep ==
  ASSUME IInv, [Next]_vars
  PROVE  TypeOK'
  <1>1. CommandType' /\ FlagType' /\ CountType' /\ ThreadType'
    <2>0. CommandType /\ FlagType /\ CountType /\ ThreadType
      BY TypeParts DEF IInv
    <2>1. ASSUME UNCHANGED <<cmdVars, flush_mutex, threadVars, history>>
          PROVE  CommandType' /\ FlagType' /\ CountType' /\ ThreadType'
      BY <2>0, <2>1 DEF cmdVars, threadVars, recvVars, history, CommandType, FlagType, CountType, ThreadType
    <2>2. ASSUME NEW s \in Sender, SenderBegin(s) \/ SenderSend(s) \/ SenderEnd(s)
          PROVE  UNCHANGED <<cmdVars, flush_mutex, threadVars, history>>
      BY <2>2 DEF SenderBegin, SenderSend, SenderEnd
    <2>3. Reader \/ Terminated \/ UNCHANGED vars => UNCHANGED <<cmdVars, flush_mutex, threadVars, history>>
      BY DEF Reader, Terminated, vars
    <2>4. QED
      BY <2>1, <2>2, <2>3, ProcessType, CommandsType DEF Next
  <1>2. StoreTypeOK' /\ sender' \in [Sender -> SenderType] /\ network' \subseteq Message
    BY StoreTypeStep, SenderTypeStep
  <1>3. QED
    BY <1>1, <1>2 DEF TypeOK, CommandType, FlagType, CountType, ThreadType, SenderType

-----------------------------------------------------------------------------
(* RawEvents, wherever they are.                                           *)

LEMMA InStoreIs ==
  ASSUME NEW g
  PROVE  InStore(g) <=> \/ \E i \in EnqueuedEvents : g \in Enqueued[i].frags
                        \/ \E k \in DOMAIN events : g \in events[k].frags
  BY RawEventsAre DEF InStore

\* Inserting changes one RawEvent, or makes one, and no fragment leaves the store.
LEMMA InsertRaw ==
  ASSUME StoreTypeOK, MapInv, NEW f \in Fragment, InsertAccepted(f)
  PROVE  /\ \A ev \in RawEvents' : ev \in RawEvents \/ ev = EventWith(f)
         /\ EventWith(f) \in RawEvents'
         /\ \A ev \in RawEvents : ev \in RawEvents' \/ ev.frags \subseteq EventWith(f).frags
         /\ f \in EventWith(f).frags
  <1> DEFINE k == Key(f.seq)
             e == EventWith(f)
  <1>1. /\ e \in Item /\ e.kind = "event" /\ f \in e.frags
        /\ k \in DOMAIN events => events[k].frags \subseteq e.frags
    BY EventWithIs
  <1>2. CASE /\ DOMAIN events' = DOMAIN events \ {k}
             /\ \A j \in DOMAIN events' : events'[j] = events[j]
             /\ queue' = Append(queue, e) /\ popped' = popped
    <2>1. /\ \A i \in EnqueuedEvents : i \in EnqueuedEvents' /\ Enqueued'[i] = Enqueued[i]
          /\ \A i \in EnqueuedEvents' \ EnqueuedEvents : Enqueued'[i] = e
          /\ \E i \in EnqueuedEvents' : Enqueued'[i] = e
      BY <1>1, <1>2, EnqueuedAppend DEF EnqueuedEvents
    <2>2. \A ev : ev \in RawEvents' <=> \/ \E i \in EnqueuedEvents' : ev = Enqueued'[i]
                                        \/ \E j \in DOMAIN events' : ev = events'[j]
      BY DEF RawEvents, Range
    <2> HIDE DEF k, e
    <2>3. /\ \A ev \in RawEvents' : ev \in RawEvents \/ ev = e
          /\ e \in RawEvents'
      BY <1>2, <2>1, <2>2, RawEventsAre
    <2>4. \A ev \in RawEvents : ev \in RawEvents' \/ ev.frags \subseteq e.frags
      BY <1>1, <1>2, <2>1, <2>2, RawEventsAre
    <2>5. QED
      BY <1>1, <2>3, <2>4 DEF k, e
  <1>3. CASE /\ DOMAIN events' = DOMAIN events \cup {k}
             /\ events'[k] = e
             /\ \A j \in DOMAIN events' \ {k} : events'[j] = events[j]
             /\ queue' = queue /\ popped' = popped
    <2>1. EnqueuedEvents' = EnqueuedEvents /\ Enqueued' = Enqueued
      BY <1>3 DEF EnqueuedEvents, Enqueued
    <2>2. \A ev : ev \in RawEvents' <=> \/ \E i \in EnqueuedEvents : ev = Enqueued[i]
                                        \/ \E j \in DOMAIN events' : ev = events'[j]
      BY <2>1 DEF RawEvents, Range
    <2> HIDE DEF k, e
    <2>3. /\ \A ev \in RawEvents' : ev \in RawEvents \/ ev = e
          /\ e \in RawEvents'
      BY <1>3, <2>2, RawEventsAre
    <2>4. \A ev \in RawEvents : ev \in RawEvents' \/ ev.frags \subseteq e.frags
      BY <1>1, <1>3, <2>2, RawEventsAre
    <2>5. QED
      BY <1>1, <2>3, <2>4 DEF k, e
  <1>4. QED
    BY <1>2, <1>3, InsertIs

\* Flushing moves RawEvents, markers add none, and the reader takes none away.
LEMMA FlushEventRaw ==
  ASSUME StoreTypeOK, MapInv, FlushEvent
  PROVE  RawEvents' = RawEvents
  <1>1. PICK k \in DOMAIN events :
           /\ DOMAIN events' = DOMAIN events \ {k}
           /\ \A j \in DOMAIN events' : events'[j] = events[j]
           /\ queue' = Append(queue, events[k])
           /\ popped' = popped
    BY FlushEventIs
  <1>2. events[k] \in Item /\ events[k].kind = "event"
    BY DEF StoreTypeOK, MapInv
  <1>3. /\ \A i \in EnqueuedEvents : i \in EnqueuedEvents' /\ Enqueued'[i] = Enqueued[i]
        /\ \A i \in EnqueuedEvents' \ EnqueuedEvents : Enqueued'[i] = events[k]
        /\ \E i \in EnqueuedEvents' : Enqueued'[i] = events[k]
    BY <1>1, <1>2, EnqueuedAppend DEF EnqueuedEvents
  <1>4. \A ev : ev \in RawEvents' <=> \/ \E i \in EnqueuedEvents' : ev = Enqueued'[i]
                                      \/ \E j \in DOMAIN events' : ev = events'[j]
    BY DEF RawEvents, Range
  <1>5. ASSUME NEW ev \in RawEvents'
        PROVE  ev \in RawEvents
    BY <1>1, <1>3, <1>4, RawEventsAre
  <1>6. ASSUME NEW ev \in RawEvents
        PROVE  ev \in RawEvents'
    BY <1>1, <1>3, <1>4, RawEventsAre
  <1>7. QED
    BY <1>5, <1>6

LEMMA EnqueueRaw ==
  ASSUME StoreTypeOK, NEW kind \in {"endSubrun", "endRun", "endOfData", "init"}, Enqueue(kind)
  PROVE  RawEvents' = RawEvents
  <1>1. Marker(kind) \in Item /\ Marker(kind).kind # "event"
    BY MarkerType
  <1>2. queue' = Append(queue, Marker(kind)) /\ popped' = popped /\ events' = events
    BY DEF Enqueue
  <1>3. EnqueuedEvents' = EnqueuedEvents /\ \A i \in EnqueuedEvents : Enqueued'[i] = Enqueued[i]
    BY <1>1, <1>2, EnqueuedAppend DEF EnqueuedEvents
  <1>4. \A ev : ev \in RawEvents' <=> \/ \E i \in EnqueuedEvents' : ev = Enqueued'[i]
                                      \/ \E j \in DOMAIN events' : ev = events'[j]
    BY DEF RawEvents, Range
  <1>5. ASSUME NEW ev
        PROVE  ev \in RawEvents' <=> ev \in RawEvents
    BY <1>2, <1>3, <1>4, RawEventsAre
  <1>6. QED
    BY <1>5

LEMMA SameRaw ==
  ASSUME UNCHANGED <<events, queue, popped>>
  PROVE  RawEvents' = RawEvents /\ Enqueued' = Enqueued
  BY DEF RawEvents, Enqueued, EnqueuedEvents, Range

LEMMA DequeueRaw ==
  ASSUME StoreTypeOK, Dequeue
  PROVE  RawEvents' = RawEvents /\ events' = events
  <1>1. Enqueued' = Enqueued /\ events' = events
    BY EnqueuedDequeue DEF Dequeue
  <1>2. QED
    BY <1>1 DEF RawEvents, EnqueuedEvents, Range

-----------------------------------------------------------------------------
(* The events, by run and subrun.                                          *)

LEMMA MapStep ==
  ASSUME IInv, [Next]_vars
  PROVE  MapInv'
  <1>0. StoreTypeOK /\ MapInv
    BY DEF IInv, TypeOK
  <1>1. CASE InsertFragment
    <2>1. pc' \notin {"exit", "none"}
      BY <1>1 DEF InsertFragment, AfterFragment, NextReceive
    <2>2. cur \in Fragment /\ InsertAccepted(cur)
      BY <1>1 DEF IInv, TypeOK, CurInv, InsertFragment
    <2>3. EventWith(cur).kind = "event"
      BY <1>0, <2>2, EventWithIs
    <2>4. /\ events' = [k \in DOMAIN events' |-> events'[k]]
          /\ \A j \in DOMAIN events' : events'[j] = EventWith(cur)
                                       \/ (j \in DOMAIN events /\ events'[j] = events[j])
      BY <2>2, InsertIs
    <2>5. QED
      BY <1>0, <2>1, <2>3, <2>4 DEF MapInv
  <1>2. CASE FlushOne
    <2>1. pc' = "flush" /\ FlushEvent
      BY <1>2 DEF FlushOne, threadVars
    <2>2. QED
      BY <1>0, <2>1, FlushEventIs DEF MapInv
  <1>3. CASE FlushAndUnlock
    BY <1>0, <1>3 DEF FlushAndUnlock, FlushReturn, MapInv
  <1>4. CASE StartLocked \/ ResumeLocked
    <2>1. pc' = "enter" /\ events' = events
      BY <1>4 DEF StartLocked, ResumeLocked, BeginSession, startRun, startSubrun
    <2>2. QED
      BY <1>0, <2>1 DEF MapInv
  <1>5. CASE MarkerStep
    <2>1. events' = events /\ UNCHANGED <<pc, rejected, flushFailed>>
      BY <1>5 DEF MarkerStep, Enqueue
    <2>2. QED
      BY <1>0, <2>1 DEF MapInv
  <1>6. CASE Reader
    BY <1>0, <1>6 DEF Reader, Dequeue, threadVars, history, MapInv
  <1>7. CASE UNCHANGED storeVars /\ Quiet
    BY <1>0, <1>7 DEF Quiet, storeVars, MapInv
  <1>8. QED
    BY <1>0, <1>1, <1>2, <1>3, <1>4, <1>5, <1>6, <1>7, StoreSteps

\* An item of the subrun, or an earlier one, at the end of what was enqueued.
LEMMA PastAppend ==
  ASSUME StoreTypeOK, \A i \in DOMAIN Enqueued : Past(Enqueued[i]), NEW e \in Item, Past(e),
         queue' = Append(queue, e), popped' = popped, UNCHANGED <<run_id, subrun_id>>
  PROVE  \A i \in DOMAIN Enqueued' : Past(Enqueued[i])'
  BY EnqueuedAppend DEF Past

\* A new run or subrun comes after all others.
LEMMA PastBegin ==
  ASSUME StoreTypeOK, SessionInv, StartLocked \/ ResumeLocked, NEW e \in Item, Past(e)
  PROVE  /\ e.run < run_id' \/ (e.run = run_id' /\ e.subrun < subrun_id')
         /\ events' = events /\ Enqueued' = Enqueued
  <1>1. /\ run_id \in Nat /\ subrun_id \in Nat /\ e.run \in Nat /\ e.subrun \in Nat
    BY EventStoreAssumption DEF StoreTypeOK, Item
  <1>2. \/ run_id' = run_id + 1
        \/ run_id' = run_id /\ subrun_id' = subrun_id + 1
    BY <1>1 DEF StartLocked, ResumeLocked, startRun, startSubrun, SessionInv
  <1>3. events' = events /\ Enqueued' = Enqueued
    BY DEF StartLocked, ResumeLocked, startRun, startSubrun, Enqueued
  <1>4. QED
    BY <1>1, <1>2, <1>3 DEF Past

LEMMA NotAheadStep ==
  ASSUME IInv, [Next]_vars
  PROVE  NotAhead'
  <1>0. /\ StoreTypeOK /\ MapInv /\ NotAhead /\ SessionInv
        /\ run_id \in Nat /\ subrun_id \in Nat
        /\ \A i \in DOMAIN Enqueued : Enqueued[i] \in Item
        /\ \A k \in DOMAIN events : events[k] \in Item
    BY EventStoreAssumption, EnqueuedType DEF IInv, TypeOK, StoreTypeOK
  <1>1. CASE InsertFragment
    <2>1. cur \in Fragment /\ InsertAccepted(cur)
      BY <1>1 DEF IInv, TypeOK, CurInv, InsertFragment
    <2>2. EventWith(cur) \in Item /\ UNCHANGED <<run_id, subrun_id, popped>>
      BY <1>0, <2>1, EventWithIs, InsertIs
    <2>3. Past(EventWith(cur))
      BY <1>0, <2>1, EventWithIs DEF NotAhead, Past
    <2>4. \A j \in DOMAIN events' : events'[j] = EventWith(cur)
                                    \/ (j \in DOMAIN events /\ events'[j] = events[j])
      BY <2>1, InsertIs
    <2>5. \A j \in DOMAIN events' : Past(events[j])'
      BY <1>0, <2>2, <2>3, <2>4 DEF NotAhead, Past
    <2>6. CASE queue' = queue
      BY <1>0, <2>2, <2>5, <2>6 DEF NotAhead, Past, Enqueued
    <2>7. CASE queue' = Append(queue, EventWith(cur))
      BY <1>0, <2>2, <2>3, <2>5, <2>7, PastAppend DEF NotAhead
    <2>8. QED
      BY <2>1, <2>6, <2>7, InsertIs
  <1>2. CASE FlushOne
    <2>1. PICK k \in DOMAIN events :
             /\ DOMAIN events' = DOMAIN events \ {k}
             /\ \A j \in DOMAIN events' : events'[j] = events[j]
             /\ queue' = Append(queue, events[k])
             /\ UNCHANGED <<run_id, subrun_id, popped>>
      BY <1>2, FlushEventIs DEF FlushOne
    <2>2. \A j \in DOMAIN events' : Past(events[j])'
      BY <1>0, <2>1 DEF NotAhead, Past
    <2>3. \A i \in DOMAIN Enqueued' : Past(Enqueued[i])'
      BY <1>0, <2>1, PastAppend DEF NotAhead
    <2>4. QED
      BY <2>2, <2>3 DEF NotAhead
  <1>3. CASE FlushAndUnlock \/ UNCHANGED storeVars
    <2>1. UNCHANGED <<run_id, subrun_id, events, queue, popped>>
      BY <1>3 DEF FlushAndUnlock, FlushReturn, storeVars
    <2>2. QED
      BY <1>0, <2>1, SameRaw DEF NotAhead, Past
  <1>4. CASE StartLocked \/ ResumeLocked
    <2>1. events' = events /\ Enqueued' = Enqueued
      BY <1>4 DEF StartLocked, ResumeLocked, startRun, startSubrun, Enqueued
    <2>2. run_id' \in Nat /\ subrun_id' \in Nat
      BY <1>0, <1>4, EventStoreAssumption DEF StartLocked, ResumeLocked, startRun, startSubrun
    <2>3. ASSUME NEW e \in Item, Past(e)
          PROVE  e.run < run_id' \/ (e.run = run_id' /\ e.subrun <= subrun_id')
      <3>1. e.subrun \in Nat
        BY DEF Item
      <3>2. QED
        BY <1>0, <1>4, <2>2, <2>3, <3>1, PastBegin
    <2>4. QED
      BY <1>0, <2>1, <2>3 DEF NotAhead, Past
  <1>5. CASE MarkerStep
    <2>1. PICK kind \in {"endSubrun", "endRun", "endOfData"} : Enqueue(kind)
      BY <1>5 DEF MarkerStep
    <2>2. Marker(kind) \in Item /\ Marker(kind).run = run_id /\ Marker(kind).subrun = subrun_id
      BY <1>0, MarkerType DEF Marker
    <2>3. queue' = Append(queue, Marker(kind)) /\ UNCHANGED <<run_id, subrun_id, popped, events>>
      BY <2>1 DEF Enqueue
    <2>4. Past(Marker(kind))
      BY <1>0, <2>2 DEF Past
    <2>5. \A i \in DOMAIN Enqueued' : Past(Enqueued[i])'
      BY <1>0, <2>2, <2>3, <2>4, PastAppend DEF NotAhead
    <2>6. QED
      BY <1>0, <2>3, <2>5 DEF NotAhead, Past
  <1>6. CASE Reader
    <2>1. Enqueued' = Enqueued /\ UNCHANGED <<events, run_id, subrun_id>>
      BY <1>0, <1>6, EnqueuedDequeue DEF Reader, Dequeue
    <2>2. QED
      BY <1>0, <2>1 DEF NotAhead, Past
  <1>7. QED
    BY <1>0, <1>1, <1>2, <1>3, <1>4, <1>5, <1>6, StoreSteps

\* A history that is clean after a step was clean before.
LEMMA CleanBefore ==
  ASSUME StoreTypeOK, [Next]_vars
  PROVE  (rejected => rejected') /\ (forced => forced') /\ (flushFailed => flushFailed')
  <1> DEFINE Clean == (rejected => rejected') /\ (forced => forced') /\ (flushFailed => flushFailed')
  <1>1. ASSUME UNCHANGED <<rejected, cutRun>>, flushFailed => flushFailed'
        PROVE  Clean
    BY <1>1 DEF forced
  <1>2. InsertFragment \/ FlushOne \/ Reader => UNCHANGED <<rejected, cutRun, flushFailed>>
    BY DEF InsertFragment, FlushOne, Reader, history
  <1>3. FlushAndUnlock => UNCHANGED <<rejected, cutRun>> /\ (flushFailed => flushFailed')
    <2>1. FlushAndUnlock => UNCHANGED <<rejected, cutRun>>
      BY DEF FlushAndUnlock
    <2>2. FlushAndUnlock => (flushFailed => flushFailed')
      BY DEF FlushAndUnlock
    <2>3. QED
      BY <2>1, <2>2
  <1>4. StartLocked \/ ResumeLocked => UNCHANGED <<rejected, cutRun, flushFailed>>
    BY DEF StartLocked, ResumeLocked, BeginSession, history
  <1>5. MarkerStep => UNCHANGED <<rejected, cutRun, flushFailed>>
    BY DEF MarkerStep
  <1>6. Quiet => Clean
    <2>1. Quiet => (rejected => rejected') /\ (forced => forced')
      BY DEF Quiet
    <2>2. Quiet => flushFailed' = flushFailed
      BY DEF Quiet
    <2>3. QED
      BY <2>1, <2>2
  <1>7. UNCHANGED <<rejected, cutRun, flushFailed>> => Clean
    BY DEF forced
  <1> HIDE DEF Clean
  <1>8. Clean
    BY <1>1, <1>2, <1>3, <1>4, <1>5, <1>6, <1>7, StoreSteps
  <1>9. QED
    BY <1>8 DEF Clean

\* An event may follow if its subrun has not been ended; a marker always may.
LEMMA MarkersAppend ==
  ASSUME StoreTypeOK, MarkersCloseSubruns, NEW e \in Item, queue' = Append(queue, e), popped' = popped,
         e.kind = "event" =>
           \A i \in DOMAIN Enqueued :
             ~(Enqueued[i].kind = "endSubrun" /\ Enqueued[i].run = e.run /\ Enqueued[i].subrun = e.subrun)
  PROVE  MarkersCloseSubruns'
  <1>1. /\ DOMAIN Enqueued' = DOMAIN Enqueued \cup {Len(Enqueued) + 1}
        /\ \A i \in DOMAIN Enqueued : Enqueued'[i] = Enqueued[i]
        /\ Enqueued'[Len(Enqueued) + 1] = e
    BY EnqueuedAppend
  <1>2. DOMAIN Enqueued = 1 .. Len(Enqueued) /\ Len(Enqueued) \in Nat
    BY EnqueuedType
  <1> SUFFICES ASSUME NEW i \in DOMAIN Enqueued', NEW j \in DOMAIN Enqueued',
                      Enqueued'[i].kind = "endSubrun", Enqueued'[j].kind = "event",
                      Enqueued'[i].run = Enqueued'[j].run, Enqueued'[i].subrun = Enqueued'[j].subrun
               PROVE  j < i
    BY DEF MarkersCloseSubruns
  <1>3. CASE i \in DOMAIN Enqueued /\ j \in DOMAIN Enqueued
    BY <1>1, <1>3 DEF MarkersCloseSubruns
  <1>4. CASE i = Len(Enqueued) + 1 /\ j \in DOMAIN Enqueued
    BY <1>2, <1>4
  <1>5. CASE j = Len(Enqueued) + 1
    BY <1>1, <1>5
  <1>6. QED
    BY <1>1, <1>3, <1>4, <1>5

\* The subrun is still open after an event of it is enqueued.
LEMMA OpenAppend ==
  ASSUME StoreTypeOK, NEW e \in Item, queue' = Append(queue, e), popped' = popped,
         UNCHANGED <<run_id, subrun_id>>, ~Closed, e.kind # "endSubrun"
  PROVE  ~Closed'
  BY EnqueuedAppend DEF Closed

LEMMA SubrunStep ==
  ASSUME IInv, [Next]_vars, ~rejected', ~flushFailed'
  PROVE  SubrunInv'
  <1>0. /\ StoreTypeOK /\ MapInv /\ NotAhead /\ SessionInv /\ SubrunInv /\ ~rejected /\ ~flushFailed
        /\ \A i \in DOMAIN Enqueued : Enqueued[i] \in Item
        /\ \A k \in DOMAIN events : events[k] \in Item /\ events[k].kind = "event"
        /\ pc \in {"exit", "none"} => DOMAIN events = {}
    BY CleanBefore, EnqueuedType DEF IInv, TypeOK, StoreTypeOK, MapInv
  <1>1. CASE InsertFragment
    <2>1. cur \in Fragment /\ InsertAccepted(cur) /\ ~Closed
      BY <1>0, <1>1 DEF IInv, TypeOK, CurInv, InsertFragment, SubrunInv
    <2>2. /\ EventWith(cur) \in Item /\ UNCHANGED <<run_id, subrun_id, popped>>
          /\ EventWith(cur).run = run_id /\ EventWith(cur).subrun = subrun_id
          /\ EventWith(cur).kind = "event"
      BY <1>0, <2>1, EventWithIs, InsertIs DEF SubrunInv
    <2>3. \A j \in DOMAIN events' : events'[j] = EventWith(cur)
                                    \/ (j \in DOMAIN events /\ events'[j] = events[j])
      BY <2>1, InsertIs
    <2>4. \A j \in DOMAIN events' : events'[j].run = run_id' /\ events'[j].subrun = subrun_id'
      BY <1>0, <2>2, <2>3 DEF SubrunInv
    <2>5. CASE queue' = queue
      BY <1>0, <2>1, <2>2, <2>4, <2>5 DEF SubrunInv, Closed, MarkersCloseSubruns, Enqueued
    <2>6. CASE queue' = Append(queue, EventWith(cur))
      <3>1. ~Closed'
        BY <1>0, <2>1, <2>2, <2>6, OpenAppend
      <3>2. MarkersCloseSubruns'
        BY <1>0, <2>1, <2>2, <2>6, MarkersAppend DEF SubrunInv, Closed
      <3>3. QED
        BY <2>4, <3>1, <3>2 DEF SubrunInv
    <2>7. QED
      BY <2>1, <2>5, <2>6, InsertIs
  <1>2. CASE FlushOne
    <2>1. PICK k \in DOMAIN events :
             /\ DOMAIN events' = DOMAIN events \ {k}
             /\ \A j \in DOMAIN events' : events'[j] = events[j]
             /\ queue' = Append(queue, events[k])
             /\ UNCHANGED <<run_id, subrun_id, popped>>
      BY <1>2, FlushEventIs DEF FlushOne
    <2>2. ~Closed
      BY <1>0, <1>2 DEF FlushOne, SubrunInv
    <2>3. \A j \in DOMAIN events' : events'[j].run = run_id' /\ events'[j].subrun = subrun_id'
      BY <1>0, <2>1 DEF SubrunInv
    <2>4. events[k] \in Item /\ events[k].kind = "event" /\ events[k].run = run_id /\ events[k].subrun = subrun_id
      BY <1>0 DEF SubrunInv
    <2>5. ~Closed'
      BY <1>0, <2>1, <2>2, <2>4, OpenAppend
    <2>6. MarkersCloseSubruns'
      BY <1>0, <2>1, <2>2, <2>4, MarkersAppend DEF SubrunInv, Closed
    <2>7. QED
      BY <2>3, <2>5, <2>6 DEF SubrunInv
  <1>3. CASE FlushAndUnlock
    <2>1. UNCHANGED <<run_id, subrun_id, events, queue, popped>> /\ pc' = "exit"
      BY <1>3 DEF FlushAndUnlock, FlushReturn
    <2>2. Enqueued' = Enqueued
      BY <2>1, SameRaw
    <2>3. QED
      BY <1>0, <2>1, <2>2 DEF SubrunInv, Closed, MarkersCloseSubruns
  <1>4. CASE StartLocked \/ ResumeLocked
    <2>1. events' = events /\ Enqueued' = Enqueued
      BY <1>4 DEF StartLocked, ResumeLocked, startRun, startSubrun, Enqueued
    <2>2. DOMAIN events = {}
      BY <1>0, <1>4 DEF StartLocked, ResumeLocked, Goto, IInv, MutexInv, AtRest
    <2>3. ASSUME NEW i \in DOMAIN Enqueued
          PROVE  ~(Enqueued[i].run = run_id' /\ Enqueued[i].subrun = subrun_id')
      <3>1. Enqueued[i] \in Item /\ Past(Enqueued[i])
        BY <1>0 DEF NotAhead
      <3>2. Enqueued[i].run \in Nat /\ Enqueued[i].subrun \in Nat
        BY <3>1 DEF Item
      <3>3. /\ run_id' \in Nat /\ subrun_id' \in Nat
        BY <1>0, <1>4, EventStoreAssumption DEF StartLocked, ResumeLocked, startRun, startSubrun, StoreTypeOK
      <3>4. QED
        BY <1>0, <1>4, <3>1, <3>2, <3>3, PastBegin
    <2>4. ~Closed'
      BY <2>1, <2>3 DEF Closed
    <2>5. QED
      BY <1>0, <2>1, <2>2, <2>4 DEF SubrunInv, MarkersCloseSubruns
  <1>5. CASE MarkerStep
    <2>1. PICK kind \in {"endSubrun", "endRun", "endOfData"} :
             Enqueue(kind) /\ (kind = "endSubrun" => cmd \in Ending)
      BY <1>5 DEF MarkerStep
    <2>2. Marker(kind) \in Item /\ Marker(kind).kind = kind
      BY <1>0, MarkerType
    <2>3. /\ queue' = Append(queue, Marker(kind))
          /\ UNCHANGED <<run_id, subrun_id, popped, events, pc>>
      BY <1>5, <2>1 DEF Enqueue, MarkerStep
    <2>4. MarkersCloseSubruns'
      BY <1>0, <2>2, <2>3, MarkersAppend DEF SubrunInv
    <2>5. CASE kind = "endSubrun"
      <3>1. flush_mutex = "command" /\ pc \notin Receiving \cup {"flush"}
        BY <1>0, <2>1, <2>5 DEF IInv, MutexInv, Ending
      <3>2. pc' \in {"exit", "none"}
        BY <2>3, <3>1 DEF IInv, TypeOK, Receiving
      <3>3. QED
        BY <1>0, <2>3, <2>4, <3>2 DEF SubrunInv
    <2>6. CASE kind # "endSubrun"
      <3>1. ~Closed => ~Closed'
        BY <1>0, <2>2, <2>3, <2>6, OpenAppend
      <3>2. QED
        BY <1>0, <2>3, <2>4, <3>1 DEF SubrunInv
    <2>7. QED
      BY <2>5, <2>6
  <1>6. CASE Reader
    <2>1. Enqueued' = Enqueued /\ UNCHANGED <<events, run_id, subrun_id, pc>>
      BY <1>0, <1>6, EnqueuedDequeue DEF Reader, Dequeue, threadVars
    <2>2. QED
      BY <1>0, <2>1 DEF SubrunInv, Closed, MarkersCloseSubruns
  <1>7. CASE UNCHANGED storeVars /\ Quiet
    <2>1. Enqueued' = Enqueued /\ UNCHANGED <<events, run_id, subrun_id>>
      BY <1>7, SameRaw DEF storeVars
    <2>2. pc \in {"exit", "none"} => pc' \in {"exit", "none"}
      BY <1>7 DEF Quiet
    <2>3. QED
      BY <1>0, <2>1, <2>2 DEF SubrunInv, Closed, MarkersCloseSubruns
  <1>8. QED
    BY <1>0, <1>1, <1>2, <1>3, <1>4, <1>5, <1>6, <1>7, StoreSteps

\* Only a timeout or back-pressure cuts a session short.
LEMMA CutBy ==
  ASSUME [Next]_vars
  PROVE  cutRun' = cutRun \/ (CutShort /\ (Timeout \/ RejectFragment))
  <1>1. ASSUME NEW s \in Sender, SenderBegin(s) \/ SenderSend(s) \/ SenderEnd(s)
        PROVE  cutRun' = cutRun
    BY <1>1 DEF SenderBegin, SenderSend, SenderEnd, history
  <1>2. Process => cutRun' = cutRun \/ (CutShort /\ (Timeout \/ RejectFragment))
    BY DEF Process, Enter, ReceiveData, ReceiveEOD, ReceiveNothing, Timeout, TimeoutIf, InsertFragment,
       RejectFragment, FlushOne, FlushAndUnlock, Exit, history
  <1>3. Order \/ Command \/ Reader \/ Terminated \/ UNCHANGED vars => cutRun' = cutRun
    BY DEF Order, Start, Resume, Stop, Pause, Shutdown, Command, StartLocked, ResumeLocked,
       BeginSession, StopLocked, PauseLocked, StopEndSubrun, StopEndRun, PauseEndSubrun, Joined,
       ShutdownJoined, Reader, Terminated, vars, history
  <1>4. QED
    BY <1>1, <1>2, <1>3 DEF Next

\* A fragment of an event of the run, or a leftover.
OwnOrLeftover(f, run) == f.run = run \/ (forced /\ f.run \in cutRun .. run - 1)

\* Fragments stay leftovers.
LEMMA OwnKept ==
  ASSUME [Next]_vars, NEW f, NEW run, OwnOrLeftover(f, run)
  PROVE  OwnOrLeftover(f, run)'
  <1>1. cutRun' = cutRun \/ ~forced
    BY CutBy DEF CutShort
  <1>2. QED
    BY <1>1 DEF OwnOrLeftover, forced

LEMMA OwnRunStep ==
  ASSUME IInv, [Next]_vars, ~rejected', ~flushFailed'
  PROVE  \A ev \in RawEvents' : \A f \in ev.frags : OwnOrLeftover(f, ev.run)'
  <1>0. /\ TypeOK /\ StoreTypeOK /\ MapInv /\ ~flushFailed /\ ~rejected
        /\ \A ev \in RawEvents : \A f \in ev.frags : OwnOrLeftover(f, ev.run)
    BY CleanBefore DEF IInv, TypeOK, OwnRun, OwnOrLeftover
  <1>1. \A ev \in RawEvents : \A f \in ev.frags : OwnOrLeftover(f, ev.run)'
    BY <1>0, OwnKept
  <1>2. CASE InsertFragment
    <2>1. cur \in Fragment /\ InsertAccepted(cur) /\ pc = "insert" /\ run_id \in Nat
      BY <1>0, <1>2 DEF TypeOK, StoreTypeOK, IInv, CurInv, InsertFragment
    <2>2. OwnOrLeftover(cur, run_id)
      <3>1. CASE forced
        <4>1. cur.run \in cutRun .. run_id /\ cutRun \in Nat
          BY <2>1, <3>1 DEF IInv, LeftoverInv, TypeOK
        <4>2. QED
          BY <2>1, <3>1, <4>1 DEF OwnOrLeftover
      <3>2. CASE ~forced
        BY <2>1, <3>2 DEF IInv, UncutInv, OwnOrLeftover
      <3>3. QED
        BY <3>1, <3>2
    <2>3. \A k \in DOMAIN events : events[k].run = run_id
      BY <1>0 DEF IInv, SubrunInv
    <2>4. \A f \in EventWith(cur).frags : OwnOrLeftover(f, EventWith(cur).run)
      <3>1. CASE Key(cur.seq) \in DOMAIN events
        <4>1. events[Key(cur.seq)] \in RawEvents
          BY <3>1, RawEventsAre
        <4>2. QED
          BY <1>0, <2>1, <2>2, <2>3, <3>1, <4>1, EventWithIs
      <3>2. CASE Key(cur.seq) \notin DOMAIN events
        BY <1>0, <2>1, <2>2, <3>2, EventWithIs
      <3>3. QED
        BY <3>1, <3>2
    <2>5. ASSUME NEW ev \in RawEvents', NEW f \in ev.frags
          PROVE  OwnOrLeftover(f, ev.run)'
      <3>1. ev \in RawEvents \/ ev = EventWith(cur)
        BY <1>0, <2>1, InsertRaw
      <3>2. OwnOrLeftover(f, ev.run)
        BY <1>0, <2>4, <3>1
      <3>3. QED
        BY <1>0, <3>2, OwnKept
    <2>6. QED
      BY <2>5
  <1>3. CASE FlushOne
    BY <1>0, <1>1, <1>3, FlushEventRaw DEF FlushOne
  <1>4. CASE FlushAndUnlock \/ StartLocked \/ ResumeLocked \/ UNCHANGED storeVars
    <2>1. UNCHANGED <<events, queue, popped>>
      BY <1>4 DEF FlushAndUnlock, FlushReturn, StartLocked, ResumeLocked, startRun, startSubrun, storeVars
    <2>2. QED
      BY <1>1, <2>1, SameRaw
  <1>5. CASE MarkerStep
    BY <1>0, <1>1, <1>5, EnqueueRaw DEF MarkerStep
  <1>6. CASE Reader
    BY <1>0, <1>1, <1>6, DequeueRaw DEF Reader
  <1>7. QED
    BY <1>0, <1>2, <1>3, <1>4, <1>5, <1>6, StoreSteps

-----------------------------------------------------------------------------
(* The accounts of a session.                                              *)

LEMMA PendingFinite ==
  ASSUME NEW net, IsFiniteSet(net), NEW s
  PROVE  IsFiniteSet({m \in net : m.src = s}) /\ Cardinality({m \in net : m.src = s}) \in Nat
  <1>1. {m \in net : m.src = s} \subseteq net
    OBVIOUS
  <1>2. IsFiniteSet({m \in net : m.src = s})
    BY <1>1, FS_Subset
  <1>3. QED
    BY <1>2, FS_CardinalityType

LEMMA PendingAdd ==
  ASSUME IsFiniteSet(network), NEW m, m \notin network, network' = network \cup {m}
  PROVE  /\ Cardinality(Pending(m.src)') = Cardinality(Pending(m.src)) + 1
         /\ \A t \in Sender \ {m.src} : Pending(t)' = Pending(t)
  <1>1. IsFiniteSet(Pending(m.src)) /\ m \notin Pending(m.src)
    BY PendingFinite DEF Pending
  <1>2. Pending(m.src)' = Pending(m.src) \cup {m}
    BY DEF Pending
  <1>3. Cardinality(Pending(m.src) \cup {m}) = Cardinality(Pending(m.src)) + 1
    BY <1>1, FS_AddElement
  <1>4. \A t \in Sender \ {m.src} : Pending(t)' = Pending(t)
    BY DEF Pending
  <1>5. QED
    BY <1>2, <1>3, <1>4

LEMMA PendingRemove ==
  ASSUME IsFiniteSet(network), NEW m \in network, network' = network \ {m}
  PROVE  /\ Cardinality(Pending(m.src)') + 1 = Cardinality(Pending(m.src))
         /\ Cardinality(Pending(m.src)') \in Nat
         /\ \A t \in Sender \ {m.src} : Pending(t)' = Pending(t)
         /\ \A t \in Sender : Pending(t)' \subseteq Pending(t)
  <1>1. IsFiniteSet(Pending(m.src)) /\ m \in Pending(m.src) /\ Cardinality(Pending(m.src)) \in Nat
    BY PendingFinite DEF Pending
  <1>2. Pending(m.src)' = Pending(m.src) \ {m}
    BY DEF Pending
  <1>3. Cardinality(Pending(m.src) \ {m}) = Cardinality(Pending(m.src)) - 1
        /\ IsFiniteSet(Pending(m.src) \ {m})
    BY <1>1, FS_RemoveElement
  <1>4. Cardinality(Pending(m.src) \ {m}) \in Nat
    BY <1>3, FS_CardinalityType
  <1>5. \A t \in Sender \ {m.src} : Pending(t)' = Pending(t)
    BY DEF Pending
  <1>6. \A t \in Sender : Pending(t)' \subseteq Pending(t)
    BY DEF Pending
  <1>7. QED
    BY <1>1, <1>2, <1>3, <1>4, <1>5, <1>6

\* As many EODs as senders, none of which has sent two.
LEMMA EveryEOD ==
  ASSUME NEW eod, \A s \in Sender : eod[s] \in {0, 1},
         Cardinality({s \in Sender : eod[s] = 1}) = FragmentIDs
  PROVE  \A s \in Sender : eod[s] = 1
  <1> DEFINE E == {s \in Sender : eod[s] = 1}
  <1>1. IsFiniteSet(Sender) /\ Cardinality(Sender) = FragmentIDs
    BY FS_Interval, EventStoreAssumption DEF Sender
  <1>2. E \subseteq Sender
    OBVIOUS
  <1>3. E = Sender
    BY <1>1, <1>2, FS_Subset
  <1>4. QED
    BY <1>3

\* No message is left when none is left of any sender.
LEMMA NoneLeft ==
  ASSUME NEW net, IsFiniteSet(net), \A m \in net : m.src \in Sender,
         \A s \in Sender : Cardinality({m \in net : m.src = s}) = 0
  PROVE  net = {}
  <1>1. \A s \in Sender : {m \in net : m.src = s} = {}
    BY PendingFinite, FS_EmptySet
  <1>2. QED
    BY <1>1

\* What the invariants give a step of a session that is not cut short.
LEMMA Uncut ==
  ASSUME IInv, [Next]_vars, ~forced'
  PROVE  /\ ~forced /\ UncutInv /\ ~rejected
         /\ IsFiniteSet(network) /\ network \subseteq Message /\ \A m \in network : m.src \in Sender
         /\ session \in Nat /\ run_id \in Nat
         /\ \A s \in Sender : /\ sender[s].session \in Nat /\ sender[s].run \in Nat
                              /\ sender[s].count \in Nat /\ sender[s].seq \in Nat
                              /\ sender[s].on \in BOOLEAN
                              /\ fragments_received[s] \in Nat /\ fragments_sent[s] \in Nat
                              /\ eods[s] \in Nat
                              /\ Cardinality(Pending(s)) \in Nat
  <1>1. ~forced /\ UncutInv /\ ~rejected /\ IsFiniteSet(network)
    BY CleanBefore DEF IInv, HistoryInv, NetInv, TypeOK
  <1>2. TypeOK
    BY DEF IInv
  <1>3. network \subseteq Message /\ \A m \in network : m.src \in Sender
    BY <1>2 DEF TypeOK, Message
  <1>4. session \in Nat /\ run_id \in Nat
    BY <1>2, EventStoreAssumption, EventBuilderAssumption DEF TypeOK, StoreTypeOK
  <1>5. ASSUME NEW s \in Sender
        PROVE  /\ sender[s].session \in Nat /\ sender[s].run \in Nat
               /\ sender[s].count \in Nat /\ sender[s].seq \in Nat
               /\ sender[s].on \in BOOLEAN
    BY <1>2, EventStoreAssumption, EventBuilderAssumption DEF TypeOK
  <1>6. ASSUME NEW s \in Sender
        PROVE  fragments_received[s] \in Nat /\ fragments_sent[s] \in Nat /\ eods[s] \in Nat
    BY <1>2, EventStoreAssumption DEF TypeOK
  <1>7. \A s \in Sender : Cardinality(Pending(s)) \in Nat
    BY <1>1, PendingFinite DEF Pending
  <1>8. QED
    BY <1>1, <1>3, <1>4, <1>5, <1>6, <1>7

\* A sender begins, sends, ends.
LEMMA AccountBegin ==
  ASSUME IInv, [Next]_vars, ~forced', NEW s \in Sender, SenderBegin(s)
  PROVE  pc \in Receiving /\ AccountInv'
  <1> USE Uncut
  <1>1. /\ \A t \in Sender \ {s} : sender'[t] = sender[t]
        /\ sender'[s].session = sender[s].session + 1 /\ sender'[s].on = TRUE
        /\ sender'[s].count = 0
        /\ sender[s].session < session
        /\ UNCHANGED <<session, run_id, pc, network, recvVars>>
    BY DEF SenderBegin, IInv, TypeOK, storeVars, cmdVars, threadVars
  <1>2. pc \in Receiving /\ AccountInv
    BY <1>1 DEF UncutInv, Complete
  <1>3. sender[s].session = session - 1 /\ Pending(s) = {}
    BY <1>1, <1>2 DEF AccountInv, MessageInv, Pending
  <1>4. Cardinality(Pending(s)) = 0 /\ SentBy(s) = 0 /\ Cardinality(Pending(s)) + Got(s) = SentBy(s)
    <2>1. Cardinality(Pending(s)) = 0
      BY <1>3, FS_EmptySet
    <2>2. sender[s].session # session
      BY <1>1
    <2>3. QED
      BY <1>2, <2>1, <2>2 DEF SentBy, AccountInv
  <1>5. /\ \A t \in Sender : Pending(t)' = Pending(t) /\ Got(t)' = Got(t)
        /\ \A t \in Sender \ {s} : SentBy(t)' = SentBy(t)
    BY <1>1 DEF Pending, Got, SentBy, recvVars
  <1>6. SentBy(s)' = 0
    BY <1>1, <1>3 DEF SentBy
  <1>7. \A t \in Sender : Cardinality(Pending(t)') + Got(t)' = SentBy(t)'
    BY <1>2, <1>4, <1>5, <1>6 DEF AccountInv
  <1>8. MessageInv'
    <2>1. \A m \in network : m.src \in Sender \ {s}
      BY <1>3 DEF Pending
    <2>2. QED
      BY <1>1, <1>2, <2>1 DEF AccountInv, MessageInv
  <1>9. pc # "enter" => EODInv'
    <2>1. pc # "enter" => eods[s] # 1
      BY <1>1, <1>2 DEF AccountInv, EODInv
    <2>2. QED
      BY <1>1, <1>2, <1>5, <2>1 DEF AccountInv, EODInv, recvVars
  <1>10. \A t \in Sender : sender'[t].session \in {session', session' - 1}
                           /\ (sender'[t].on => sender'[t].session = session')
    BY <1>1, <1>2, <1>3 DEF AccountInv
  <1>11. pc' = pc /\ (pc = "enter" => eod_fragments_received' = 0)
    BY <1>1, <1>2 DEF AccountInv, recvVars
  <1>12. QED
    BY <1>2, <1>7, <1>8, <1>9, <1>10, <1>11 DEF AccountInv

LEMMA AccountSend ==
  ASSUME IInv, [Next]_vars, ~forced', NEW s \in Sender, SenderSend(s)
  PROVE  pc \in Receiving /\ AccountInv'
  <1> USE Uncut
  <1>1. /\ \A t \in Sender \ {s} : sender'[t] = sender[t]
        /\ sender'[s].session = sender[s].session /\ sender'[s].on = sender[s].on /\ sender[s].on
        /\ sender'[s].count = sender[s].count + 1 /\ sender'[s].seq = sender[s].seq + 1
        /\ UNCHANGED <<session, run_id, pc, recvVars>>
    BY DEF SenderSend, IInv, TypeOK, storeVars, cmdVars, threadVars
  <1>2. pc \in Receiving /\ AccountInv
    BY <1>1 DEF UncutInv, Complete
  <1>3. sender[s].session = session /\ session >= 1 /\ sender[s].run = run_id
    BY <1>1, <1>2 DEF AccountInv, IInv, SenderInv
  <1> DEFINE m == [src |-> s, session |-> sender[s].session, eod |-> FALSE, run |-> sender[s].run,
                   n |-> sender[s].seq + 1]
  <1>4. /\ network' = network \cup {m}
        /\ m.src = s /\ m.session = session /\ ~m.eod /\ m.run = run_id /\ m.n = sender[s].seq + 1
    BY <1>3 DEF SenderSend, Sent
  <1> HIDE DEF m
  <1>5. \A x \in network : x.src = s => ~x.eod /\ x.n <= sender[s].seq
    BY <1>1, <1>2 DEF AccountInv, MessageInv
  <1>6. m \notin network
    BY <1>4, <1>5
  <1>7. /\ Cardinality(Pending(s)') = Cardinality(Pending(s)) + 1
        /\ \A t \in Sender \ {s} : Pending(t)' = Pending(t)
    BY <1>4, <1>6, PendingAdd
  <1>8. /\ \A t \in Sender : Got(t)' = Got(t)
        /\ \A t \in Sender \ {s} : SentBy(t)' = SentBy(t)
        /\ SentBy(s)' = sender[s].count + 1 /\ SentBy(s) = sender[s].count
        /\ Got(s) \in Nat
    BY <1>1, <1>3 DEF Got, SentBy, recvVars
  <1>9. \A t \in Sender : Cardinality(Pending(t)') + Got(t)' = SentBy(t)'
    <2>1. Cardinality(Pending(s)) + Got(s) = SentBy(s)
      BY <1>2 DEF AccountInv
    <2>2. QED
      BY <1>2, <1>7, <1>8, <2>1 DEF AccountInv
  <1>10. MessageInv'
    BY <1>1, <1>2, <1>3, <1>4, <1>5 DEF AccountInv, MessageInv
  <1>11. pc # "enter" => EODInv'
    <2>1. pc # "enter" => eods[s] # 1
      BY <1>1, <1>2 DEF AccountInv, EODInv
    <2>2. QED
      BY <1>1, <1>2, <1>7, <2>1 DEF AccountInv, EODInv, recvVars
  <1>12. \A t \in Sender : sender'[t].session \in {session', session' - 1}
                           /\ (sender'[t].on => sender'[t].session = session')
    BY <1>1, <1>2, <1>3 DEF AccountInv
  <1>13. pc' = pc /\ (pc = "enter" => eod_fragments_received' = 0)
    BY <1>1, <1>2 DEF AccountInv, recvVars
  <1>14. QED
    BY <1>2, <1>9, <1>10, <1>11, <1>12, <1>13 DEF AccountInv

LEMMA AccountEnd ==
  ASSUME IInv, [Next]_vars, ~forced', NEW s \in Sender, SenderEnd(s)
  PROVE  pc \in Receiving /\ AccountInv'
  <1> USE Uncut
  <1>1. /\ \A t \in Sender \ {s} : sender'[t] = sender[t]
        /\ sender'[s].session = sender[s].session /\ sender'[s].on = FALSE /\ sender[s].on
        /\ sender'[s].count = sender[s].count /\ sender'[s].seq = sender[s].seq
        /\ UNCHANGED <<session, run_id, pc, recvVars>>
    BY DEF SenderEnd, IInv, TypeOK, storeVars, cmdVars, threadVars
  <1>2. pc \in Receiving /\ AccountInv
    BY <1>1 DEF UncutInv, Complete
  <1>3. sender[s].session = session /\ session >= 1 /\ sender[s].run = run_id
    BY <1>1, <1>2 DEF AccountInv, IInv, SenderInv
  <1> DEFINE m == [src |-> s, session |-> sender[s].session, eod |-> TRUE, run |-> sender[s].run,
                   n |-> sender[s].count]
  <1>4. /\ network' = network \cup {m}
        /\ m.src = s /\ m.session = session /\ m.eod /\ m.run = run_id /\ m.n = sender[s].count
    BY <1>3 DEF SenderEnd, Sent
  <1> HIDE DEF m
  <1>5. \A x \in network : x.src = s => ~x.eod
    BY <1>1, <1>2 DEF AccountInv, MessageInv
  <1>6. m \notin network
    BY <1>4, <1>5
  <1>7. /\ Cardinality(Pending(s)') = Cardinality(Pending(s)) + 1
        /\ \A t \in Sender \ {s} : Pending(t)' = Pending(t)
    BY <1>4, <1>6, PendingAdd
  <1>8. /\ \A t \in Sender : Got(t)' = Got(t)
        /\ \A t \in Sender \ {s} : SentBy(t)' = SentBy(t)
        /\ SentBy(s)' = sender[s].count + 1 /\ SentBy(s) = sender[s].count
        /\ Got(s) \in Nat
    BY <1>1, <1>3 DEF Got, SentBy, recvVars
  <1>9. \A t \in Sender : Cardinality(Pending(t)') + Got(t)' = SentBy(t)'
    <2>1. Cardinality(Pending(s)) + Got(s) = SentBy(s)
      BY <1>2 DEF AccountInv
    <2>2. QED
      BY <1>2, <1>7, <1>8, <2>1 DEF AccountInv
  <1>10. MessageInv'
    BY <1>1, <1>2, <1>3, <1>4, <1>5 DEF AccountInv, MessageInv
  <1>11. pc # "enter" => EODInv'
    <2>1. pc # "enter" => eods[s] # 1
      BY <1>1, <1>2 DEF AccountInv, EODInv
    <2>2. QED
      BY <1>1, <1>2, <1>7, <2>1 DEF AccountInv, EODInv, recvVars
  <1>12. \A t \in Sender : sender'[t].session \in {session', session' - 1}
                           /\ (sender'[t].on => sender'[t].session = session')
    BY <1>1, <1>2, <1>3 DEF AccountInv
  <1>13. pc' = pc /\ (pc = "enter" => eod_fragments_received' = 0)
    BY <1>1, <1>2 DEF AccountInv, recvVars
  <1>14. QED
    BY <1>2, <1>9, <1>10, <1>11, <1>12, <1>13 DEF AccountInv

\* The parts of AccountInv in a session that has been entered.
Entered ==
  /\ \A s \in Sender : sender[s].session \in {session, session - 1}
                       /\ (sender[s].on => sender[s].session = session)
  /\ \A s \in Sender : Cardinality(Pending(s)) + fragments_received[s] = SentBy(s)
  /\ MessageInv
  /\ EODInv

LEMMA EnteredIs ==
  ASSUME AccountInv, pc # "enter"
  PROVE  Entered
  BY DEF Entered, AccountInv, Got

\* The session is over when the announced number of fragments has come of everyone.
LEMMA AllReceived ==
  ASSUME IInv, [Next]_vars, ~forced', Entered,
         \A s \in Sender : eods[s] = 1 /\ fragments_received[s] = fragments_sent[s]
  PROVE  Complete
  <1> USE Uncut
  <1>1. ASSUME NEW s \in Sender
        PROVE  sender[s].session = session /\ ~sender[s].on /\ Cardinality(Pending(s)) = 0
    <2>1. sender[s].session = session /\ ~sender[s].on /\ fragments_sent[s] = sender[s].count + 1
      BY DEF Entered, EODInv
    <2>2. SentBy(s) = sender[s].count + 1
      BY <2>1 DEF SentBy
    <2>3. Cardinality(Pending(s)) + fragments_received[s] = SentBy(s)
      BY DEF Entered
    <2>4. QED
      BY <2>1, <2>2, <2>3
  <1>2. network = {}
    BY <1>1, NoneLeft DEF Pending
  <1>3. QED
    BY <1>1, <1>2 DEF Complete

LEMMA AccountEnter ==
  ASSUME IInv, [Next]_vars, ~forced', Enter
  PROVE  AccountInv'
  <1> USE Uncut
  <1>1. /\ AccountInv /\ eod_fragments_received = 0
    BY DEF UncutInv, AccountInv, Enter, Receiving
  <1>2. /\ pc' = "recv" /\ UNCHANGED <<sender, network, session, run_id, eod_fragments_received>>
        /\ \A s \in Sender : fragments_received'[s] = 0 /\ eods'[s] = 0
    BY DEF Enter, NextReceive, netVars, cmdVars, storeVars
  <1>3. \A s \in Sender : Pending(s)' = Pending(s) /\ SentBy(s)' = SentBy(s) /\ Got(s)' = 0 /\ Got(s) = 0
    BY <1>2 DEF Pending, SentBy, Got, Enter
  <1>4. EODInv'
    <2>1. {s \in Sender : eods'[s] = 1} = {}
      BY <1>2
    <2>2. Cardinality({s \in Sender : eods'[s] = 1}) = 0
      BY <2>1, FS_EmptySet
    <2>3. QED
      BY <1>1, <1>2, <2>2 DEF EODInv
  <1>5. MessageInv'
    BY <1>1, <1>2 DEF AccountInv, MessageInv
  <1>6. \A s \in Sender : Cardinality(Pending(s)') + Got(s)' = SentBy(s)'
    BY <1>1, <1>3 DEF AccountInv
  <1>7. QED
    BY <1>1, <1>2, <1>4, <1>5, <1>6 DEF AccountInv

LEMMA AccountData ==
  ASSUME IInv, [Next]_vars, ~forced', NEW m \in network, ReceiveData(m)
  PROVE  AccountInv' /\ cur'.run = run_id'
  <1> USE Uncut
  <1>1. AccountInv /\ Entered
    BY EnteredIs DEF UncutInv, ReceiveData, Receiving
  <1>2. /\ pc' = "insert" /\ UNCHANGED <<sender, session, run_id, fragments_sent, eods, eod_fragments_received>>
        /\ network' = network \ {m}
        /\ \A s \in Sender \ {m.src} : fragments_received'[s] = fragments_received[s]
        /\ fragments_received'[m.src] = fragments_received[m.src] + 1
        /\ cur' = FragmentOf(m)
    BY DEF ReceiveData, Received, cmdVars, storeVars, IInv, TypeOK
  <1>3. /\ Cardinality(Pending(m.src)') + 1 = Cardinality(Pending(m.src))
        /\ Cardinality(Pending(m.src)') \in Nat
        /\ \A t \in Sender \ {m.src} : Pending(t)' = Pending(t)
        /\ \A t \in Sender : Pending(t)' \subseteq Pending(t)
    BY <1>2, PendingRemove
  <1>4. \A s \in Sender : SentBy(s)' = SentBy(s) /\ Got(s)' = fragments_received'[s]
    BY <1>2 DEF SentBy, Got
  <1>5. \A s \in Sender : Cardinality(Pending(s)') + Got(s)' = SentBy(s)'
    BY <1>1, <1>2, <1>3, <1>4 DEF Entered
  <1>6. MessageInv'
    BY <1>1, <1>2 DEF Entered, MessageInv
  <1>7. EODInv'
    BY <1>1, <1>2, <1>3 DEF Entered, EODInv
  <1>8. cur'.run = run_id'
    BY <1>1, <1>2 DEF Entered, MessageInv, FragmentOf
  <1>9. QED
    BY <1>1, <1>2, <1>5, <1>6, <1>7, <1>8 DEF AccountInv, Entered

LEMMA AccountEOD ==
  ASSUME IInv, [Next]_vars, ~forced', NEW m \in network, ReceiveEOD(m)
  PROVE  (pc' \in Receiving => AccountInv') /\ (pc' \notin Receiving => Complete') /\ pc' # "insert"
  <1> USE Uncut
  <1> DEFINE s == m.src
  <1>1. AccountInv /\ Entered /\ s \in Sender
    BY EnteredIs DEF UncutInv, ReceiveEOD, Receiving
  <1>2. /\ UNCHANGED <<sender, session, run_id>>
        /\ network' = network \ {m} /\ m.eod
        /\ \A t \in Sender \ {s} : /\ fragments_received'[t] = fragments_received[t]
                                   /\ fragments_sent'[t] = fragments_sent[t] /\ eods'[t] = eods[t]
        /\ fragments_received'[s] = fragments_received[s] + 1
        /\ fragments_sent'[s] = m.n + 1 /\ eods'[s] = eods[s] + 1
        /\ eod_fragments_received' = eod_fragments_received + 1
    BY DEF ReceiveEOD, Received, cmdVars, storeVars, netVars, IInv, TypeOK
  <1>3. /\ pc' \in {"recv", "flush"}
        /\ pc' = "flush" => eod_fragments_received' = FragmentIDs /\ fragments_received' = fragments_sent'
    BY DEF ReceiveEOD, AfterFragment, NextReceive
  <1>4. /\ Cardinality(Pending(s)') + 1 = Cardinality(Pending(s))
        /\ Cardinality(Pending(s)') \in Nat
        /\ \A t \in Sender \ {s} : Pending(t)' = Pending(t)
        /\ \A t \in Sender : Pending(t)' \subseteq Pending(t)
    BY <1>2, PendingRemove
  <1>5. m \in Pending(s) /\ eods[s] = 0 /\ eods'[s] = 1
    <2>1. m \in Pending(s)
      BY DEF Pending
    <2>2. QED
      BY <1>1, <1>2, <2>1 DEF Entered, EODInv
  <1>6. /\ sender[s].session = session /\ ~sender[s].on /\ m.n = sender[s].count
        /\ m.session = session /\ m.run = run_id
    BY <1>1, <1>2 DEF Entered, MessageInv
  <1>7. \A x \in Pending(s)' : ~x.eod
    <2>1. SUFFICES ASSUME NEW x \in Pending(s)', x.eod
                   PROVE  FALSE
      OBVIOUS
    <2>2. x \in network /\ x.src = s /\ x # m
      BY <1>2 DEF Pending
    <2>3. x.n = m.n /\ x.session = m.session /\ x.run = m.run
      BY <1>1, <1>6, <2>1, <2>2 DEF Entered, MessageInv
    <2>4. x \in Message /\ m \in Message
      BY <2>2
    <2>5. x.eod = m.eod
      BY <1>2, <2>1, <2>4 DEF Message
    <2>6. QED
      BY <2>2, <2>3, <2>4, <2>5 DEF Message
  <1> HIDE DEF s
  <1>8. \A t \in Sender : Cardinality(Pending(t)') + fragments_received'[t] = SentBy(t)'
    <2>1. \A t \in Sender : SentBy(t)' = SentBy(t)
      BY <1>2 DEF SentBy
    <2>2. QED
      BY <1>1, <1>2, <1>4, <2>1 DEF Entered
  <1>9. MessageInv'
    BY <1>1, <1>2 DEF Entered, MessageInv
  <1>10. eod_fragments_received' = Cardinality({t \in Sender : eods'[t] = 1})
    <2> DEFINE E == {t \in Sender : eods[t] = 1}
    <2>1. {t \in Sender : eods'[t] = 1} = E \cup {s} /\ s \notin E
      BY <1>1, <1>2, <1>5
    <2>2. IsFiniteSet(E)
      <3>1. IsFiniteSet(Sender)
        BY FS_Interval, EventStoreAssumption DEF Sender
      <3>2. E \subseteq Sender
        OBVIOUS
      <3>3. QED
        BY <3>1, <3>2, FS_Subset
    <2>3. Cardinality(E \cup {s}) = Cardinality(E) + 1
      BY <2>1, <2>2, FS_AddElement
    <2>4. eod_fragments_received = Cardinality(E)
      BY <1>1 DEF Entered, EODInv
    <2>5. QED
      BY <1>2, <2>1, <2>3, <2>4
  <1>11. \A t \in Sender :
           /\ eods'[t] \in {0, 1}
           /\ eods'[t] = 1 => /\ sender'[t].session = session' /\ ~sender'[t].on
                              /\ fragments_sent'[t] = sender'[t].count + 1
                              /\ \A x \in Pending(t)' : ~x.eod
    <2>1. ASSUME NEW t \in Sender \ {s}
          PROVE  /\ eods'[t] \in {0, 1}
                 /\ eods'[t] = 1 => /\ sender'[t].session = session' /\ ~sender'[t].on
                                    /\ fragments_sent'[t] = sender'[t].count + 1
                                    /\ \A x \in Pending(t)' : ~x.eod
      BY <1>1, <1>2, <1>4 DEF Entered, EODInv
    <2>2. /\ eods'[s] = 1 /\ sender'[s].session = session' /\ ~sender'[s].on
          /\ fragments_sent'[s] = sender'[s].count + 1
      BY <1>2, <1>5, <1>6
    <2>3. QED
      BY <1>7, <2>1, <2>2
  <1>12. EODInv'
    BY <1>10, <1>11 DEF EODInv
  <1>13. CASE pc' = "recv"
    <2>1. \A t \in Sender : Cardinality(Pending(t)') + Got(t)' = SentBy(t)'
      BY <1>8, <1>13 DEF Got
    <2>2. QED
      BY <1>1, <1>2, <1>9, <1>12, <1>13, <2>1 DEF AccountInv, Entered, Receiving
  <1>14. CASE pc' = "flush"
    <2>1. \A t \in Sender : eods'[t] = 1
      BY <1>3, <1>10, <1>11, <1>14, EveryEOD
    <2>2. ASSUME NEW t \in Sender
          PROVE  /\ sender'[t].session = session' /\ ~sender'[t].on
                 /\ Cardinality(Pending(t)') = 0
      <3>1. /\ sender'[t].session = session' /\ ~sender'[t].on
            /\ fragments_sent'[t] = sender'[t].count + 1
        BY <1>11, <2>1
      <3>2. SentBy(t)' = sender'[t].count + 1
        BY <3>1 DEF SentBy
      <3>3. fragments_received'[t] = fragments_sent'[t] /\ sender'[t].count \in Nat
        BY <1>2, <1>3, <1>14
      <3>4. Cardinality(Pending(t)') \in Nat
        BY <1>4
      <3>5. QED
        BY <1>8, <3>1, <3>2, <3>3, <3>4
    <2>3. network' = {}
      <3>1. IsFiniteSet(network') /\ \A x \in network' : x.src \in Sender
        BY <1>2, FS_RemoveElement
      <3>2. QED
        BY <2>2, <3>1, NoneLeft DEF Pending
    <2>4. QED
      BY <1>14, <2>2, <2>3 DEF Complete, Receiving
  <1>15. QED
    BY <1>3, <1>13, <1>14

LEMMA AccountNothing ==
  ASSUME IInv, [Next]_vars, ~forced', ReceiveNothing
  PROVE  pc' = "flush" /\ Complete'
  <1> USE Uncut
  <1>1. AccountInv /\ Entered
    BY EnteredIs DEF UncutInv, ReceiveNothing, Receiving
  <1>2. \A s \in Sender : eods[s] = 1 /\ fragments_received[s] = fragments_sent[s]
    <2>1. \A s \in Sender : eods[s] # 0 /\ fragments_received[s] - eods[s] = fragments_sent[s] - 1
      BY DEF ReceiveNothing, Done
    <2>2. \A s \in Sender : eods[s] \in {0, 1}
      BY <1>1 DEF Entered, EODInv
    <2>3. QED
      BY <2>1, <2>2
  <1>3. Complete
    BY <1>1, <1>2, AllReceived
  <1>4. pc' = "flush" /\ UNCHANGED <<sender, network, session>>
    BY DEF ReceiveNothing, netVars, cmdVars
  <1>5. QED
    BY <1>3, <1>4 DEF Complete

LEMMA AccountInsert ==
  ASSUME IInv, [Next]_vars, ~forced', InsertFragment
  PROVE  (pc' \in Receiving => AccountInv') /\ (pc' \notin Receiving => Complete') /\ pc' # "insert"
  <1> USE Uncut
  <1>1. AccountInv /\ Entered
    BY EnteredIs DEF UncutInv, InsertFragment, Receiving
  <1>2. UNCHANGED <<sender, network, session, run_id, recvVars>>
    BY DEF InsertFragment, InsertAccepted, Insert, netVars, cmdVars
  <1>3. /\ pc' \in {"recv", "flush"}
        /\ pc' = "flush" => eod_fragments_received = FragmentIDs /\ fragments_received = fragments_sent
    BY DEF InsertFragment, AfterFragment, NextReceive
  <1>4. CASE pc' = "recv"
    <2>1. /\ \A s \in Sender : Pending(s)' = Pending(s) /\ SentBy(s)' = SentBy(s)
          /\ \A s \in Sender : Got(s)' = fragments_received[s]
      BY <1>2, <1>4 DEF Pending, SentBy, Got, recvVars
    <2>2. MessageInv'
      BY <1>1, <1>2 DEF Entered, MessageInv
    <2>3. EODInv'
      BY <1>1, <1>2, <2>1 DEF Entered, EODInv, recvVars
    <2>4. QED
      BY <1>1, <1>2, <1>4, <2>1, <2>2, <2>3 DEF AccountInv, Entered, Receiving
  <1>5. CASE pc' = "flush"
    <2>1. \A s \in Sender : eods[s] \in {0, 1}
      BY <1>1 DEF Entered, EODInv
    <2>2. Cardinality({s \in Sender : eods[s] = 1}) = FragmentIDs
      BY <1>1, <1>3, <1>5 DEF Entered, EODInv
    <2>3. \A s \in Sender : eods[s] = 1
      BY <2>1, <2>2, EveryEOD
    <2>4. Complete
      BY <1>1, <1>3, <1>5, <2>3, AllReceived
    <2>5. QED
      BY <1>2, <1>5, <2>4 DEF Complete, Receiving
  <1>6. QED
    BY <1>3, <1>4, <1>5

LEMMA AccountTimeout ==
  ASSUME IInv, [Next]_vars, ~forced', Timeout
  PROVE  AccountInv' /\ pc' = "recv"
  <1> USE Uncut
  <1>1. AccountInv /\ Entered
    BY EnteredIs DEF UncutInv, Timeout, TimeoutIf, Receiving
  <1>2. UNCHANGED <<sender, network, session, run_id, recvVars>> /\ pc' = "recv"
    BY CutForces DEF Timeout, TimeoutIf, NextReceive, storeVars, netVars, cmdVars, IInv, TypeOK
  <1>3. /\ \A s \in Sender : Pending(s)' = Pending(s) /\ SentBy(s)' = SentBy(s)
        /\ \A s \in Sender : Got(s)' = fragments_received[s]
    BY <1>2 DEF Pending, SentBy, Got, recvVars
  <1>4. MessageInv'
    BY <1>1, <1>2 DEF Entered, MessageInv
  <1>5. EODInv'
    BY <1>1, <1>2, <1>3 DEF Entered, EODInv, recvVars
  <1>6. QED
    BY <1>1, <1>2, <1>3, <1>4, <1>5 DEF AccountInv, Entered, Receiving

\* Another session: nothing is left of the last one.
LEMMA AccountSession ==
  ASSUME IInv, [Next]_vars, ~forced', StartLocked \/ ResumeLocked
  PROVE  AccountInv' /\ pc' = "enter"
  <1> USE Uncut
  <1>1. pc = "none" /\ eod_fragments_received = 0 /\ Complete
    BY DEF StartLocked, ResumeLocked, Goto, IInv, MutexInv, AtRest, SessionInv, UncutInv, Receiving
  <1>2. pc' = "enter" /\ session' = session + 1 /\ UNCHANGED <<sender, network, recvVars>>
    BY DEF StartLocked, ResumeLocked, BeginSession, netVars
  <1>3. ASSUME NEW s \in Sender
        PROVE  Cardinality(Pending(s)') + Got(s)' = SentBy(s)'
    <2>1. Pending(s)' = {}
      BY <1>1, <1>2 DEF Pending, Complete
    <2>2. Cardinality(Pending(s)') = 0
      BY <2>1, FS_EmptySet
    <2>3. Got(s)' = 0 /\ SentBy(s)' = 0
      BY <1>1, <1>2 DEF Got, SentBy, Complete
    <2>4. QED
      BY <2>2, <2>3
  <1>4. MessageInv'
    BY <1>1, <1>2 DEF Complete, MessageInv
  <1>5. QED
    BY <1>1, <1>2, <1>3, <1>4 DEF AccountInv, Complete, recvVars

LEMMA AccountSame ==
  ASSUME IInv, [Next]_vars, ~forced', UNCHANGED <<pc, session, run_id, sender, fragments_received, fragments_sent, eods>>,
         network' = network, eod_fragments_received' = eod_fragments_received \/ pc \notin Receiving
  PROVE  (pc' \in Receiving => AccountInv') /\ (pc' \notin Receiving => Complete')
  <1> USE Uncut
  <1>1. CASE pc \in Receiving
    <2>1. AccountInv
      BY <1>1 DEF UncutInv
    <2>2. \A s \in Sender : Pending(s)' = Pending(s) /\ SentBy(s)' = SentBy(s) /\ Got(s)' = Got(s)
      BY DEF Pending, SentBy, Got
    <2>3. MessageInv'
      BY <2>1 DEF AccountInv, MessageInv
    <2>4. pc # "enter" => EODInv'
      BY <1>1, <2>1, <2>2 DEF AccountInv, EODInv
    <2>5. QED
      BY <1>1, <2>1, <2>2, <2>3, <2>4 DEF AccountInv
  <1>2. CASE pc \notin Receiving
    BY <1>2 DEF UncutInv, Complete
  <1>3. QED
    BY <1>1, <1>2

LEMMA AccountStep ==
  ASSUME IInv, [Next]_vars, ~forced'
  PROVE  /\ pc' \in Receiving => AccountInv'
         /\ pc' \notin Receiving => Complete'
         /\ pc' = "insert" => cur'.run = run_id'
  <1> DEFINE Same == /\ UNCHANGED <<pc, session, run_id, sender, fragments_received, fragments_sent, eods, cur>>
                     /\ network' = network
                     /\ eod_fragments_received' = eod_fragments_received \/ pc \notin Receiving
             Goal == /\ pc' \in Receiving => AccountInv'
                     /\ pc' \notin Receiving => Complete'
                     /\ pc' = "insert" => cur'.run = run_id'
  <1>0. UncutInv /\ ~rejected
    BY Uncut
  <1>1. Same => Goal
    BY <1>0, AccountSame DEF UncutInv
  <1>2. ASSUME NEW s \in Sender, SenderBegin(s) \/ SenderSend(s) \/ SenderEnd(s)
        PROVE  Goal
    <2>1. UNCHANGED <<pc, cur, run_id>>
      BY <1>2 DEF SenderBegin, SenderSend, SenderEnd, threadVars, storeVars
    <2>2. pc \in Receiving /\ AccountInv'
      BY <1>2, AccountBegin, AccountSend, AccountEnd
    <2>3. QED
      BY <1>0, <2>1, <2>2 DEF UncutInv
  <1>3. CASE Process
    <2>1. CASE Enter
      <3>1. pc' = "recv"
        BY <2>1 DEF Enter, NextReceive
      <3>2. QED
        BY <2>1, <3>1, AccountEnter DEF Receiving
    <2>2. ASSUME NEW m \in network, ReceiveData(m)
          PROVE  Goal
      <3>1. pc' = "insert"
        BY <2>2 DEF ReceiveData
      <3>2. QED
        BY <2>2, <3>1, AccountData DEF Receiving
    <2>3. ASSUME NEW m \in network, ReceiveEOD(m)
          PROVE  Goal
      BY <2>3, AccountEOD
    <2>4. CASE ReceiveNothing
      BY <2>4, AccountNothing DEF Receiving
    <2>5. CASE Timeout
      BY <2>5, AccountTimeout DEF Receiving
    <2>6. CASE InsertFragment
      BY <2>6, AccountInsert
    <2>7. ~RejectFragment
      BY CutForces DEF RejectFragment, IInv, TypeOK
    <2>8. CASE FlushOne
      <3>1. Same
        BY <2>8 DEF FlushOne, FlushEvent, cmdVars, threadVars, recvVars, netVars
      <3>2. QED
        BY <1>1, <3>1
    <2>9. CASE FlushAndUnlock \/ Exit
      <3>1. pc' \in {"exit", "none"} /\ pc \notin Receiving /\ UNCHANGED <<session, sender>>
            /\ network' \subseteq network
        BY <2>9 DEF FlushAndUnlock, Exit, Receiving, cmdVars, netVars
      <3>2. Complete'
        BY <1>0, <3>1 DEF UncutInv, Complete
      <3>3. QED
        BY <3>1, <3>2 DEF Receiving
    <2>10. QED
      BY <1>3, <2>1, <2>2, <2>3, <2>4, <2>5, <2>6, <2>7, <2>8, <2>9 DEF Process
  <1>4. CASE StartLocked \/ ResumeLocked
    BY <1>4, AccountSession DEF Receiving
  <1>5. CASE Order
    <2>1. pc = "none" \/ UNCHANGED eod_fragments_received
      BY <1>5 DEF Order, Start, Resume, Stop, Pause, Shutdown, Goto, IInv, MutexInv, AtRest,
                  threadVars, recvVars
    <2>2. UNCHANGED <<pc, session, run_id, sender, fragments_received, fragments_sent, eods, cur, network>>
      BY <1>5 DEF Order, Start, Resume, Stop, Pause, Shutdown, Enqueue, threadVars, recvVars, netVars,
                  storeVars
    <2>3. QED
      BY <1>1, <2>1, <2>2 DEF Receiving
  <1>6. CASE Command
    <2>1. StartLocked \/ ResumeLocked \/ Same
      BY <1>6 DEF Command, StopLocked, PauseLocked, StopEndSubrun, StopEndRun, PauseEndSubrun,
         Joined, ShutdownJoined, EnqueueOrGiveUp, Enqueue, threadVars, recvVars, netVars, storeVars
    <2>2. QED
      BY <1>1, <1>4, <2>1
  <1>7. CASE Reader \/ Terminated \/ UNCHANGED vars
    <2>1. Same
      BY <1>7 DEF Reader, Dequeue, Terminated, vars, cmdVars, threadVars, recvVars, netVars, storeVars
    <2>2. QED
      BY <1>1, <2>1
  <1>8. QED
    BY <1>2, <1>3, <1>5, <1>6, <1>7 DEF Next

-----------------------------------------------------------------------------
(* What was sent is accounted for.                                         *)

LEMMA InStoreKept ==
  ASSUME IInv, [Next]_vars, NEW g, InStore(g)
  PROVE  InStore(g)'
  <1>0. StoreTypeOK /\ MapInv
    BY DEF IInv, TypeOK
  <1>1. CASE InsertFragment
    <2>1. cur \in Fragment /\ InsertAccepted(cur)
      BY <1>1 DEF IInv, TypeOK, CurInv, InsertFragment
    <2>2. QED
      BY <1>0, <2>1, InsertRaw DEF InStore
  <1>2. CASE FlushOne
    BY <1>0, <1>2, FlushEventRaw DEF FlushOne, InStore
  <1>3. CASE FlushAndUnlock \/ StartLocked \/ ResumeLocked \/ UNCHANGED storeVars
    <2>1. UNCHANGED <<events, queue, popped>>
      BY <1>3 DEF FlushAndUnlock, FlushReturn, StartLocked, ResumeLocked, startRun, startSubrun, storeVars
    <2>2. QED
      BY <2>1, SameRaw DEF InStore
  <1>4. CASE MarkerStep
    BY <1>0, <1>4, EnqueueRaw DEF MarkerStep, InStore
  <1>5. CASE Reader
    BY <1>0, <1>5, DequeueRaw DEF Reader, InStore
  <1>6. QED
    BY <1>0, <1>1, <1>2, <1>3, <1>4, <1>5, StoreSteps

\* A fragment that is accounted for stays so while the run lasts.
LEMMA AccountedKept ==
  ASSUME IInv, [Next]_vars, ~forced', run_id' = run_id, NEW s \in Sender, NEW n \in Nat, Accounted(s, n)
  PROVE  Accounted(s, n)'
  <1> DEFINE f == [run |-> run_id, seq |-> n, id |-> s]
  <1>0. UncutInv /\ ~rejected /\ CurInv
    BY Uncut DEF IInv
  <1>1. CASE InStore(f)
    <2>1. InStore(f)'
      BY <1>1, InStoreKept
    <2>2. QED
      BY <2>1 DEF Accounted
  <1>2. CASE cur = f /\ ~InStore(f)
    <2>1. f.run = run_id /\ run_id \in 1 .. MaxRun
      BY DEF IInv, TypeOK, StoreTypeOK
    <2>2. cur # NoFragment
      BY <1>2, <2>1, EventStoreAssumption DEF NoFragment
    <2>3. pc = "insert"
      BY <1>0, <2>2 DEF CurInv
    <2>4. InsertFragment \/ cur' = cur
      <3>1. ASSUME NEW t \in Sender, SenderBegin(t) \/ SenderSend(t) \/ SenderEnd(t)
            PROVE  cur' = cur
        BY <3>1 DEF SenderBegin, SenderSend, SenderEnd, threadVars
      <3>2. Process => InsertFragment \/ RejectFragment
        BY <2>3 DEF Process, Enter, ReceiveData, ReceiveEOD, ReceiveNothing, Timeout, TimeoutIf, FlushOne,
           FlushAndUnlock, Exit
      <3>3. ~RejectFragment
        BY CutForces DEF RejectFragment, IInv, TypeOK
      <3>4. Order => cur' = cur
        BY DEF Order, Start, Resume, Stop, Pause, Shutdown, threadVars
      <3>5. Command => cur' = cur
        BY DEF Command, StartLocked, ResumeLocked, BeginSession, StopLocked, PauseLocked, StopEndSubrun,
           StopEndRun, PauseEndSubrun, Joined, ShutdownJoined, threadVars
      <3>6. Reader \/ Terminated \/ UNCHANGED vars => cur' = cur
        BY DEF Reader, Terminated, vars, threadVars
      <3>7. QED
        BY <3>1, <3>2, <3>3, <3>4, <3>5, <3>6 DEF Next
    <2>5. CASE InsertFragment
      <3>1. cur \in Fragment /\ InsertAccepted(cur) /\ StoreTypeOK /\ MapInv
        BY <2>5, <2>2 DEF IInv, TypeOK, InsertFragment
      <3>2. \E ev \in RawEvents' : cur \in ev.frags
        <4>1. EventWith(cur) \in RawEvents' /\ cur \in EventWith(cur).frags
          BY <3>1, InsertRaw
        <4>2. QED
          BY <4>1
      <3>3. \E ev \in RawEvents' : [run |-> run_id', seq |-> n, id |-> s] \in ev.frags
        BY <1>2, <3>2
      <3>4. QED
        BY <3>3 DEF Accounted, InStore
    <2>6. CASE cur' = cur
      BY <1>2, <2>6 DEF Accounted
    <2>7. QED
      BY <2>4, <2>5, <2>6
  <1>3. CASE OnItsWay(s, n)
    <2>1. PICK x \in network : ~x.eod /\ x.src = s /\ x.n = n /\ x.run = run_id
      BY <1>3 DEF OnItsWay
    <2>2. x \in network' => Accounted(s, n)'
      BY <2>1 DEF Accounted, OnItsWay
    <2>3. CASE network \subseteq network'
      BY <2>2, <2>3
    <2>4. ASSUME NEW m \in network, ReceiveData(m)
          PROVE  Accounted(s, n)'
      <3>1. network' = network \ {m} /\ cur' = FragmentOf(m)
        BY <2>4 DEF ReceiveData
      <3>2. CASE m = x
        BY <2>1, <3>1, <3>2 DEF FragmentOf, Accounted
      <3>3. QED
        BY <2>2, <3>1, <3>2
    <2>5. ASSUME NEW m \in network, ReceiveEOD(m)
          PROVE  Accounted(s, n)'
      BY <2>1, <2>2, <2>5 DEF ReceiveEOD
    <2>6. ~Exit
      BY <1>0 DEF Exit, UncutInv, Receiving, Complete
    <2>7. ASSUME NEW t \in Sender, SenderBegin(t) \/ SenderSend(t) \/ SenderEnd(t)
          PROVE  network \subseteq network'
      BY <2>7 DEF SenderBegin, SenderSend, SenderEnd, Sent
    <2>8. Enter \/ ReceiveNothing \/ Timeout \/ InsertFragment \/ RejectFragment \/ FlushOne \/ FlushAndUnlock
          => network' = network
      BY DEF Enter, ReceiveNothing, Timeout, TimeoutIf, InsertFragment, RejectFragment, FlushOne, FlushAndUnlock, netVars
    <2>9. Order \/ Command \/ Reader \/ Terminated \/ UNCHANGED vars => network' = network
      BY DEF Order, Start, Resume, Stop, Pause, Shutdown, Command, StartLocked, ResumeLocked,
         BeginSession, StopLocked, PauseLocked, StopEndSubrun, StopEndRun, PauseEndSubrun, Joined,
         ShutdownJoined, Reader, Terminated, vars, netVars
    <2>10. QED
      BY <2>3, <2>4, <2>5, <2>6, <2>7, <2>8, <2>9 DEF Next, Process
  <1>4. QED
    BY <1>1, <1>2, <1>3 DEF Accounted

LEMMA AccountedStep ==
  ASSUME IInv, [Next]_vars, ~forced', NEW s \in Sender, sender'[s].run = run_id', NEW n \in 1 .. sender'[s].seq
  PROVE  Accounted(s, n)'
  <1> USE Uncut
  <1>0. \A m \in 1 .. sender[s].seq : sender[s].run = run_id => Accounted(s, m)
    BY DEF UncutInv
  <1>1. ASSUME run_id' = run_id, sender'[s].run = sender[s].run, sender'[s].seq = sender[s].seq
        PROVE  Accounted(s, n)'
    BY <1>0, <1>1, AccountedKept
  <1>2. ASSUME NEW t \in Sender, SenderBegin(t)
        PROVE  Accounted(s, n)'
    <2>1. run_id' = run_id
      BY <1>2 DEF SenderBegin, storeVars
    <2>2. CASE t = s
      <3>1. sender'[s].seq = IF sender[s].run = run_id THEN sender[s].seq ELSE 0
        BY <1>2, <2>2 DEF SenderBegin, IInv, TypeOK
      <3>2. sender[s].run = run_id /\ n \in 1 .. sender[s].seq
        BY <3>1
      <3>3. QED
        BY <1>0, <2>1, <3>2, AccountedKept
    <2>3. CASE t # s
      <3>1. sender'[s] = sender[s]
        BY <1>2, <2>3 DEF SenderBegin, IInv, TypeOK
      <3>2. QED
        BY <1>1, <2>1, <3>1
    <2>4. QED
      BY <2>2, <2>3
  <1>3. ASSUME NEW t \in Sender, SenderSend(t)
        PROVE  Accounted(s, n)'
    <2>1. run_id' = run_id
      BY <1>3 DEF SenderSend, storeVars
    <2>2. CASE t = s
      <3>1. sender'[s].run = sender[s].run /\ sender'[s].seq = sender[s].seq + 1
        BY <1>3, <2>2 DEF SenderSend, IInv, TypeOK
      <3>2. CASE n \in 1 .. sender[s].seq
        BY <1>0, <2>1, <3>1, <3>2, AccountedKept
      <3>3. CASE n = sender[s].seq + 1
        <4> DEFINE m == [src |-> s, session |-> sender[s].session, eod |-> FALSE, run |-> sender[s].run, n |-> n]
        <4>1. m \in network'
          BY <1>3, <2>2, <3>3 DEF SenderSend, Sent
        <4>2. ~m.eod /\ m.src = s /\ m.n = n /\ m.run = run_id'
          BY <2>1, <3>1
        <4> HIDE DEF m
        <4>3. OnItsWay(s, n)'
          BY <4>1, <4>2 DEF OnItsWay
        <4>4. QED
          BY <4>3 DEF Accounted
      <3>4. QED
        BY <3>1, <3>2, <3>3
    <2>3. CASE t # s
      <3>1. sender'[s] = sender[s]
        BY <1>3, <2>3 DEF SenderSend, IInv, TypeOK
      <3>2. QED
        BY <1>1, <2>1, <3>1
    <2>4. QED
      BY <2>2, <2>3
  <1>4. ASSUME NEW t \in Sender, SenderEnd(t)
        PROVE  Accounted(s, n)'
    <2>1. run_id' = run_id
      BY <1>4 DEF SenderEnd, storeVars
    <2>2. sender'[s].run = sender[s].run /\ sender'[s].seq = sender[s].seq
      BY <1>4 DEF SenderEnd, IInv, TypeOK
    <2>3. QED
      BY <1>1, <2>1, <2>2
  <1>5. CASE StartLocked
    <2>1. sender' = sender /\ run_id' = IF session = 0 THEN 1 ELSE run_id + 1
      BY <1>5 DEF StartLocked, startRun, BeginSession, netVars
    <2>2. sender[s].run <= run_id /\ sender[s].session <= session
          /\ (sender[s].session = 0 => sender[s].run = 0)
      BY DEF IInv, SenderInv
    <2>3. QED
      BY <2>1, <2>2
  <1>6. CASE Process \/ Order \/ Reader \/ Terminated \/ UNCHANGED vars
    <2>1. sender' = sender /\ run_id' = run_id
      BY <1>6 DEF Process, Enter, ReceiveData, ReceiveEOD, ReceiveNothing, Timeout, TimeoutIf, InsertFragment,
         InsertAccepted, Insert, RejectFragment, FlushOne, FlushEvent, FlushAndUnlock, FlushReturn, Exit,
         Order, Start, Resume, Stop, Pause, Shutdown, Enqueue, Reader, Dequeue, Terminated, vars,
         netVars, storeVars
    <2>2. QED
      BY <1>1, <2>1
  <1>7. CASE Command
    <2>1. StartLocked \/ (sender' = sender /\ run_id' = run_id)
      BY <1>7 DEF Command, ResumeLocked, startSubrun, BeginSession, StopLocked, PauseLocked, StopEndSubrun,
         StopEndRun, PauseEndSubrun, Joined, ShutdownJoined, EnqueueOrGiveUp, Enqueue, netVars, storeVars
    <2>2. QED
      BY <1>1, <1>5, <2>1
  <1>8. QED
    BY <1>2, <1>3, <1>4, <1>6, <1>7 DEF Next

-----------------------------------------------------------------------------
(* What is left when a session is cut short.                               *)

\* At the first cut, everything that is left is of the run at hand.
LEMMA LeftoverBegins ==
  ASSUME IInv, [Next]_vars, ~forced, forced'
  PROVE  LeftoverInv'
  <1>1. CutShort /\ (Timeout \/ RejectFragment)
    BY CutBy DEF forced
  <1>2. /\ cutRun' = run_id /\ UNCHANGED <<run_id, network, sender>>
        /\ pc \in Receiving /\ pc' # "insert"
    BY <1>1 DEF CutShort, Timeout, TimeoutIf, RejectFragment, AfterFragment, NextReceive, Receiving,
       storeVars, netVars
  <1>3. /\ \A m \in network : m.run = run_id
        /\ \A s \in Sender : sender[s].on => sender[s].run = run_id
    <2>1. AccountInv /\ SenderInv
      BY <1>2 DEF IInv, UncutInv
    <2>2. QED
      BY <2>1 DEF AccountInv, MessageInv, SenderInv
  <1>4. run_id \in Nat
    BY DEF IInv, TypeOK, StoreTypeOK
  <1>5. QED
    BY <1>2, <1>3, <1>4 DEF LeftoverInv

\* From then on, only later runs are added.
LEMMA LeftoverStep ==
  ASSUME IInv, [Next]_vars
  PROVE  LeftoverInv'
  <1>1. CASE ~forced'
    BY <1>1 DEF LeftoverInv
  <1>2. CASE ~forced /\ forced'
    BY <1>2, LeftoverBegins
  <1>3. CASE forced
    <2>1. cutRun' = cutRun
      BY <1>3, CutBy DEF CutShort
    <2>2. /\ cutRun <= run_id
          /\ \A m \in network : m.run \in cutRun .. run_id
          /\ \A s \in Sender : sender[s].on => sender[s].run >= cutRun
          /\ pc = "insert" => cur.run \in cutRun .. run_id
      BY <1>3 DEF IInv, LeftoverInv
    <2>3. /\ run_id \in Nat /\ cutRun \in Nat
          /\ \A s \in Sender : sender[s].run \in Nat /\ sender[s].run <= run_id
          /\ \A m \in network : m.run \in Nat
      BY EventStoreAssumption DEF IInv, TypeOK, StoreTypeOK, SenderInv, Message
    <2>4. ASSUME /\ run_id <= run_id' /\ run_id' \in Nat
                 /\ \A m \in network' : m \in network \/ m.run \in cutRun .. run_id
                 /\ \A s \in Sender : sender'[s].on => sender'[s].run >= cutRun
                 /\ pc' = "insert" => cur'.run \in cutRun .. run_id
          PROVE  LeftoverInv'
      <3>1. cutRun <= run_id' /\ \A m \in network' : m.run \in cutRun .. run_id'
        <4>1. \A m \in network' : m.run \in cutRun .. run_id
          BY <2>2, <2>4
        <4>2. QED
          BY <2>2, <2>3, <2>4, <4>1
      <3>2. pc' = "insert" => cur'.run \in cutRun .. run_id'
        BY <2>2, <2>3, <2>4
      <3>3. QED
        BY <2>1, <2>4, <3>1, <3>2 DEF LeftoverInv
    <2>5. ASSUME NEW s \in Sender, SenderBegin(s) \/ SenderSend(s) \/ SenderEnd(s)
          PROVE  LeftoverInv'
      <3>1. UNCHANGED <<run_id, pc, cur>>
        BY <2>5 DEF SenderBegin, SenderSend, SenderEnd, storeVars, threadVars
      <3>2. \A t \in Sender : sender'[t].on => sender'[t].run >= cutRun
        <4>1. /\ \A t \in Sender \ {s} : sender'[t] = sender[t]
              /\ sender'[s].on => sender'[s].run = run_id \/ (sender[s].on /\ sender'[s].run = sender[s].run)
          <5>1. CASE SenderBegin(s)
            BY <5>1 DEF SenderBegin, IInv, TypeOK
          <5>2. CASE SenderSend(s)
            BY <5>2 DEF SenderSend, IInv, TypeOK
          <5>3. CASE SenderEnd(s)
            BY <5>3 DEF SenderEnd, IInv, TypeOK
          <5>4. QED
            BY <2>5, <5>1, <5>2, <5>3
        <4>2. QED
          BY <2>2, <2>3, <4>1
      <3>3. \A m \in network' : m \in network \/ m.run \in cutRun .. run_id
        BY <2>2, <2>3, <2>5 DEF SenderBegin, SenderSend, SenderEnd, Sent
      <3>4. QED
        BY <2>2, <2>3, <2>4, <3>1, <3>2, <3>3
    <2>6. ASSUME NEW m \in network, ReceiveData(m)
          PROVE  LeftoverInv'
      <3>1. cur'.run = m.run /\ network' \subseteq network /\ UNCHANGED <<run_id, sender>>
        BY <2>6 DEF ReceiveData, FragmentOf, storeVars
      <3>2. QED
        BY <2>2, <2>3, <2>4, <3>1
    <2>7. CASE Process /\ \A m \in network : ~ReceiveData(m)
      <3>1. network' \subseteq network /\ UNCHANGED <<run_id, sender>>
        BY <2>7 DEF Process, Enter, ReceiveEOD, ReceiveNothing, Timeout, TimeoutIf, InsertFragment,
           InsertAccepted, Insert, RejectFragment, FlushOne, FlushEvent, FlushAndUnlock, FlushReturn,
           Exit, netVars, storeVars
      <3>2. pc' # "insert"
        BY <2>7 DEF Process, Enter, ReceiveEOD, ReceiveNothing, Timeout, TimeoutIf, InsertFragment,
           RejectFragment, FlushOne, FlushAndUnlock, Exit, AfterFragment, NextReceive, threadVars
      <3>3. QED
        BY <2>2, <2>3, <2>4, <3>1, <3>2
    <2>8. CASE StartLocked \/ ResumeLocked
      <3>1. pc' = "enter" /\ UNCHANGED <<network, sender>>
        BY <2>8 DEF StartLocked, ResumeLocked, BeginSession, netVars
      <3>2. run_id' \in {run_id, run_id + 1}
        <4>1. session = 0 => run_id = 1
          BY DEF IInv, SessionInv
        <4>2. QED
          BY <2>8, <4>1 DEF StartLocked, ResumeLocked, startRun, startSubrun
      <3>3. QED
        BY <2>2, <2>3, <2>4, <3>1, <3>2
    <2>9. CASE Order \/ Reader \/ Terminated \/ UNCHANGED vars
      <3>1. UNCHANGED <<run_id, network, sender, pc, cur>>
        BY <2>9 DEF Order, Start, Resume, Stop, Pause, Shutdown, Enqueue, Reader, Dequeue, Terminated,
           vars, storeVars, netVars, threadVars
      <3>2. QED
        BY <2>2, <2>3, <2>4, <3>1
    <2>10. CASE Command
      <3>1. StartLocked \/ ResumeLocked \/ UNCHANGED <<run_id, network, sender, pc, cur>>
        BY <2>10 DEF Command, StopLocked, PauseLocked, StopEndSubrun, StopEndRun, PauseEndSubrun,
           Joined, ShutdownJoined, EnqueueOrGiveUp, Enqueue, storeVars, netVars, threadVars
      <3>2. QED
        BY <2>2, <2>3, <2>4, <2>8, <3>1
    <2>11. QED
      BY <2>5, <2>6, <2>7, <2>9, <2>10 DEF Next, Process
  <1>4. QED
    BY <1>1, <1>2, <1>3

-----------------------------------------------------------------------------
(* The invariant holds.                                                    *)

LEMMA Begin == Init => IInv
  <1> SUFFICES ASSUME Init PROVE IInv
    OBVIOUS
  <1> USE DEF Init
  <1>1. StoreTypeOK /\ run_id = 1 /\ subrun_id = 0 /\ DOMAIN events = {} /\ queue = <<>> /\ popped = <<>>
        /\ events = [k \in {} |-> 0]
    BY StoreStarts DEF StoreInit
  <1>2. Enqueued = <<>> /\ DOMAIN Enqueued = {}
    BY <1>1 DEF Enqueued
  <1>3. RawEvents = {}
    BY <1>1, <1>2, RawEventsAre DEF EnqueuedEvents
  <1>4. TypeOK
    <2>1. /\ fragments_received \in [Sender -> Nat] /\ fragments_sent \in [Sender -> 0 .. MaxSeq + 1]
          /\ eods \in [Sender -> Nat] /\ eod_fragments_received \in Nat /\ session \in 0 .. MaxSession
      BY EventStoreAssumption, EventBuilderAssumption
    <2>2. sender \in [Sender -> [session : 0 .. MaxSession, run : 0 .. MaxRun, seq : 0 .. MaxSeq,
                                 count : 0 .. MaxSeq, on : BOOLEAN]]
      BY EventStoreAssumption, EventBuilderAssumption
    <2>3. /\ stop_requested \in BOOLEAN /\ pause_requested \in BOOLEAN /\ run_is_paused \in BOOLEAN
          /\ rejected \in BOOLEAN /\ flushFailed \in BOOLEAN
      OBVIOUS
    <2>4. cutRun \in 0 .. MaxRun
      BY EventStoreAssumption
    <2>5. QED
      BY <1>1, <2>1, <2>2, <2>3, <2>4 DEF TypeOK, Idle
  <1>5. NetInv
    BY FS_EmptySet DEF NetInv
  <1>6. MutexInv /\ SessionInv /\ HistoryInv /\ CurInv
    BY <1>1 DEF MutexInv, SessionInv, HistoryInv, forced, CurInv, AtRest, Ending, Receiving
  <1>7. SenderInv
    BY <1>1 DEF SenderInv
  <1>8. MapInv
    BY <1>1 DEF MapInv
  <1>9. UncutInv /\ LeftoverInv
    BY <1>1 DEF UncutInv, Complete, Receiving, LeftoverInv, forced
  <1>10. NotAhead /\ SubrunInv
    BY <1>1, <1>2 DEF NotAhead, SubrunInv, Closed, MarkersCloseSubruns
  <1>11. OwnRun
    BY <1>3 DEF OwnRun
  <1>12. QED
    BY <1>4, <1>5, <1>6, <1>7, <1>8, <1>9, <1>10, <1>11 DEF IInv

LEMMA Step == IInv /\ [Next]_vars => IInv'
  <1> SUFFICES ASSUME IInv, [Next]_vars PROVE IInv'
    OBVIOUS
  <1>1. TypeOK' /\ NetInv' /\ MapInv' /\ NotAhead'
    BY TypeStep, SenderTypeStep, MapStep, NotAheadStep
  <1>2. MutexInv' /\ SessionInv' /\ HistoryInv' /\ CurInv'
    BY ControlStep DEF ControlInv, IInv
  <1>3. SenderInv'
    BY SenderStep DEF ControlInv, IInv
  <1>4. ASSUME ~forced'
        PROVE  UncutInv'
    <2>1. /\ pc' \in Receiving => AccountInv'
          /\ pc' \notin Receiving => Complete'
          /\ pc' = "insert" => cur'.run = run_id'
      BY <1>4, AccountStep
    <2>2. \A s \in Sender : sender'[s].run = run_id' => \A n \in 1 .. sender'[s].seq : Accounted(s, n)'
      BY <1>4, AccountedStep
    <2>3. QED
      BY <2>1, <2>2 DEF UncutInv
  <1>5. LeftoverInv'
    BY LeftoverStep
  <1>6. ASSUME ~rejected', ~flushFailed'
        PROVE  SubrunInv'
    BY <1>6, SubrunStep
  <1>7. OwnRun'
    BY OwnRunStep DEF OwnRun, OwnOrLeftover
  <1>8. QED
    BY <1>1, <1>2, <1>3, <1>4, <1>5, <1>6, <1>7 DEF IInv

\* The invariant of the threads, the mutex, the accounts and the store.
THEOREM Inductive == Spec => []IInv
  <1>1. Init => IInv
    BY Begin
  <1>2. IInv /\ [Next]_vars => IInv'
    BY Step
  <1>3. QED
    BY <1>1, <1>2, PTL DEF Spec

\* Every variable keeps its type.
THEOREM TypeCorrect == Spec => []TypeOK
  <1>1. IInv => TypeOK
    BY DEF IInv
  <1>2. QED
    BY <1>1, Inductive, PTL

\* The event store is used by one of the two threads at a time, and the session's
\* thread holds flush_mutex_ until it has flushed, whatever the number of senders
\* and sessions, unless back-pressure has cut a session short.
THEOREM StoreIsNotShared == Spec => []StoreNotShared
  <1>1. IInv => StoreNotShared
    <2> SUFFICES ASSUME IInv, ~rejected
                 PROVE  /\ pc \in {"enter", "recv", "insert", "flush"} => flush_mutex = "session"
                        /\ cmd \in {"stop_endSubrun", "stop_endRun", "pause_endSubrun"} => pc \in {"exit", "none"}
      BY DEF StoreNotShared
    <2>1. MutexInv /\ pc \in {"none", "enter", "recv", "insert", "flush", "exit"}
      BY DEF IInv, TypeOK
    <2>2. QED
      BY <2>1 DEF MutexInv, Ending, Receiving
  <1>2. QED
    BY <1>1, Inductive, PTL

\* start and resume find flush_mutex_ unlocked and the last thread gone.
THEOREM StartsAtOnce == Spec => []StartNeverBlocks
  <1>1. IInv => StartNeverBlocks
    <2> SUFFICES ASSUME IInv, cmd \in {"start_lock", "resume_lock"}
                 PROVE  flush_mutex = "free" /\ pc = "none"
      BY DEF StartNeverBlocks
    <2>1. MutexInv /\ flush_mutex \in {"free", "session", "command"}
      BY DEF IInv, TypeOK
    <2>2. QED
      BY <2>1 DEF MutexInv, AtRest, Ending, Receiving
  <1>2. QED
    BY <1>1, Inductive, PTL

\* Unless a session was cut short, stop and pause end the subrun only when every
\* fragment that any sender has sent in the run is clocked in, all senders have
\* ended the session and events_ is empty.
THEOREM BlocksUntilClockedIn == Spec => []BlockedUntilClockedIn
  <1>1. IInv => BlockedUntilClockedIn
    <2> SUFFICES ASSUME IInv, cmd \in {"stop_endSubrun", "pause_endSubrun"}, ~forced
                 PROVE  /\ network = {}
                        /\ \A s \in Sender :
                             /\ sender[s].session = session
                             /\ ~sender[s].on
                             /\ \A n \in 1 .. sender[s].seq : InStore([run |-> run_id, seq |-> n, id |-> s])
                        /\ flushFailed \/ events = [k \in {} |-> 0]
      BY DEF BlockedUntilClockedIn
    <2>1. UncutInv /\ MutexInv /\ MapInv /\ SessionInv /\ SenderInv /\ CurInv /\ ~rejected
      BY DEF IInv, HistoryInv
    <2>2. pc \in {"exit", "none"}
      <3>1. pc \notin Receiving /\ pc # "flush"
        BY <2>1 DEF MutexInv, Ending
      <3>2. QED
        BY <3>1 DEF IInv, TypeOK, Receiving
    <2>3. Complete /\ cur = NoFragment /\ session # 0
      BY <2>1, <2>2 DEF UncutInv, Receiving, CurInv, SessionInv
    <2>4. flushFailed \/ events = [k \in {} |-> 0]
      BY <2>1, <2>2 DEF MapInv
    <2>5. ASSUME NEW s \in Sender, NEW n \in 1 .. sender[s].seq
          PROVE  InStore([run |-> run_id, seq |-> n, id |-> s])
      <3> DEFINE f == [run |-> run_id, seq |-> n, id |-> s]
      <3>1. sender[s].run = run_id
        BY <2>1, <2>3 DEF SenderInv, Complete, IInv, TypeOK
      <3>2. Accounted(s, n)
        BY <2>1, <3>1 DEF UncutInv
      <3>3. f # cur
        <4>1. f.run # 0 /\ NoFragment.run = 0
          BY DEF NoFragment, IInv, TypeOK, StoreTypeOK
        <4>2. QED
          BY <2>3, <4>1
      <3>4. ~OnItsWay(s, n)
        BY <2>3 DEF OnItsWay, Complete
      <3>5. QED
        BY <3>2, <3>3, <3>4 DEF Accounted
    <2>6. QED
      BY <2>3, <2>4, <2>5 DEF Complete
  <1>2. QED
    BY <1>1, Inductive, PTL

\* art sees no event of a subrun after the marker that ends it, even if stop or
\* pause timed out, unless back-pressure cut a session short or a flush failed.
THEOREM ClosesSubruns == Spec => []SubrunsClosed
  <1>1. IInv => SubrunsClosed
    BY DEF IInv, SubrunInv, SubrunsClosed
  <1>2. QED
    BY <1>1, Inductive, PTL

\* Unless back-pressure cut a session short or a flush failed, an event has
\* fragments of its own run only, or leftovers of runs from the first session that
\* the timeout of a stop or pause cut short: for any number of senders, runs and
\* sessions.
THEOREM KeepsRuns == Spec => []OwnRun
  <1>1. IInv => OwnRun
    BY DEF IInv
  <1>2. QED
    BY <1>1, Inductive, PTL
=============================================================================
