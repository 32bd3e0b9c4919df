---------------------------- MODULE EventBuilder ----------------------------
(***************************************************************************)
(* artdaq/Application/MPI2/EventBuilderCore, driven by EventBuilderApp:    *)
(* the thread that carries out the commands (start, stop, pause, resume,   *)
(* shutdown), the process_fragments thread of each data-taking session,    *)
(* the event store, the art reader, and the senders.                       *)
(*                                                                         *)
(* flush_mutex_ is locked by start and resume, unlocked by                 *)
(* process_fragments when the session is over, and locked by stop and      *)
(* pause before they end the subrun.  It therefore has no owning thread;   *)
(* holder tells on whose behalf it is locked.                              *)
(*                                                                         *)
(* RHandles is taken as module RHandles proves it to be: messages come in  *)
(* any order, each once, and a source is DONE when the announced number of *)
(* fragments has come.  Each session has a new RHandles; messages the last *)
(* one left in MPI come to it, except those it had matched, which are lost.*)
(* A sender has one message for each of its fragments and one EOD for each *)
(* session; it may be late with all of them.                               *)
(***************************************************************************)
EXTENDS EventStore

CONSTANT MaxSession  \* bound: data-taking sessions (start or resume)

ASSUME EventBuilderAssumption == MaxSession \in Nat

Sender == 1 .. FragmentIDs  \* ranks, less first_data_sender_rank_

VARIABLES
  cmd,                 \* the command thread, between and within commands
  stop_requested, pause_requested, run_is_paused,
  flush_mutex,         \* "free", "session" or "command": on whose behalf it is locked
  session,             \* number of process_fragments threads started
  pc,                  \* the process_fragments thread
  recvTimeout,         \* the timeout it chose: "inrun", "endrun" or "pause"
  cur,                 \* the fragment it is inserting
  fragments_received,  \* per sender, in this session
  fragments_sent,      \* per sender: announced by the EOD, plus one; 0 before
  eods,                    \* per sender: EODs, as RHandles counts them
  eod_fragments_received,  \* EODs of all senders
  network,             \* messages sent and not received
  sender,              \* per sender: its session, its next sequence ID, fragments sent, on/off
  cutRun,              \* run of the first session that was cut short; 0 if none (history)
  rejected,            \* some session was cut short by back-pressure (history)
  flushFailed          \* some flushData returned false (history)

cmdVars == <<cmd, stop_requested, pause_requested, run_is_paused, session>>
recvVars == <<fragments_received, fragments_sent, eods, eod_fragments_received>>
threadVars == <<pc, recvTimeout, cur, recvVars>>
netVars == <<network, sender>>
history == <<cutRun, rejected, flushFailed>>
vars == <<storeVars, cmdVars, flush_mutex, threadVars, netVars, history>>

\* Some session was cut short.
forced == cutRun # 0

NoFragment == [run |-> 0, seq |-> 0, id |-> 0]
Message == [src : Sender, session : 1 .. MaxSession, eod : BOOLEAN, run : 1 .. MaxRun,
            n : 0 .. MaxSeq]  \* sequence ID, or the count of an EOD
FragmentOf(m) == [run |-> m.run, seq |-> m.n, id |-> m.src]

Idle == {"Ready", "Running", "Paused", "Initialized", "Booted"}
TypeOK ==
  /\ StoreTypeOK
  /\ cmd \in Idle \cup {"start_lock", "resume_lock", "stop_lock", "stop_endSubrun",
        "stop_endRun", "stop_join", "pause_lock", "pause_endSubrun", "pause_join", "shutdown_join"}
  /\ stop_requested \in BOOLEAN /\ pause_requested \in BOOLEAN /\ run_is_paused \in BOOLEAN
  /\ flush_mutex \in {"free", "session", "command"}
  /\ session \in 0 .. MaxSession
  /\ pc \in {"none", "enter", "recv", "insert", "flush", "exit"}
  /\ recvTimeout \in {"inrun", "endrun", "pause"}
  /\ cur \in Fragment \cup {NoFragment}
  /\ fragments_received \in [Sender -> Nat]
  /\ fragments_sent \in [Sender -> 0 .. MaxSeq + 1]
  /\ eods \in [Sender -> Nat]
  /\ eod_fragments_received \in Nat
  /\ network \subseteq Message
  /\ sender \in [Sender -> [session : 0 .. MaxSession, run : 0 .. MaxRun, seq : 0 .. MaxSeq,
                            count : 0 .. MaxSeq, on : BOOLEAN]]
  /\ cutRun \in 0 .. MaxRun /\ rejected \in BOOLEAN /\ flushFailed \in BOOLEAN

Init ==
  /\ StoreInit
  /\ cmd = "Ready"
  /\ stop_requested = FALSE /\ pause_requested = FALSE /\ run_is_paused = FALSE
  /\ flush_mutex = "free"
  /\ session = 0
  /\ pc = "none"
  /\ recvTimeout = "inrun"
  /\ cur = NoFragment
  /\ fragments_received = [s \in Sender |-> 0]
  /\ fragments_sent = [s \in Sender |-> 0]
  /\ eods = [s \in Sender |-> 0]
  /\ eod_fragments_received = 0
  /\ network = {}
  /\ sender = [s \in Sender |-> [session |-> 0, run |-> 0, seq |-> 0, count |-> 0, on |-> FALSE]]
  /\ cutRun = 0 /\ rejected = FALSE /\ flushFailed = FALSE

-----------------------------------------------------------------------------
\* The senders (BoardReaderCore and SHandles), as far as this receiver sees them.

\* A sender that is behind enters the next session; the sequence IDs start again
\* when the run does.
SenderBegin(s) ==
  /\ ~sender[s].on
  /\ sender[s].session < session
  /\ sender' = [sender EXCEPT ![s] =
       [session |-> @.session + 1, run |-> run_id, on |-> TRUE, count |-> 0,
        seq |-> IF @.run = run_id THEN @.seq ELSE 0]]
  /\ UNCHANGED <<storeVars, cmdVars, flush_mutex, threadVars, network, history>>

Sent(s, eod, n) ==
  network' = network \cup
    {[src |-> s, session |-> sender[s].session, eod |-> eod, run |-> sender[s].run, n |-> n]}

SenderSend(s) ==
  /\ sender[s].on
  /\ sender[s].seq < MaxSeq
  /\ sender' = [sender EXCEPT ![s].seq = @ + 1, ![s].count = @ + 1]
  /\ Sent(s, FALSE, sender[s].seq + 1)
  /\ UNCHANGED <<storeVars, cmdVars, flush_mutex, threadVars, history>>

SenderEnd(s) ==
  /\ sender[s].on
  /\ sender' = [sender EXCEPT ![s].on = FALSE]
  /\ Sent(s, TRUE, sender[s].count)
  /\ UNCHANGED <<storeVars, cmdVars, flush_mutex, threadVars, history>>

-----------------------------------------------------------------------------
\* The process_fragments thread.

\* The top of the loop: which timeout, by what the command thread asks for.
NextReceive ==
  /\ pc' = "recv"
  /\ recvTimeout' = IF stop_requested THEN "endrun"
                    ELSE IF pause_requested THEN "pause" ELSE "inrun"

\* Entry: a new RHandles and new counts.
Enter ==
  /\ pc = "enter"
  /\ NextReceive
  /\ fragments_received' = [s \in Sender |-> 0]
  /\ fragments_sent' = [s \in Sender |-> 0]
  /\ eods' = [s \in Sender |-> 0]
  /\ UNCHANGED <<storeVars, cmdVars, flush_mutex, cur, eod_fragments_received, netVars, history>>

\* RHandles has an EOD of s and as many data fragments as the last one announced.
Done(s) ==
  /\ eods[s] # 0
  /\ fragments_received[s] - eods[s] = fragments_sent[s] - 1

\* Mutant: the fragments are not counted.
AfterFragmentUncounted(received, sent, eodCount, cont) ==
  IF eodCount = FragmentIDs
  THEN pc' = "flush" /\ UNCHANGED recvTimeout
  ELSE IF cont THEN NextReceive
  ELSE pc' = "exit" /\ UNCHANGED recvTimeout

\* What follows the handling of a fragment, cont being process_fragments: when all
\* EODs have come and all fragments are accounted for, the store is flushed.
AfterFragment(received, sent, eodCount, cont) ==
  IF eodCount = FragmentIDs /\ received = sent
  THEN pc' = "flush" /\ UNCHANGED recvTimeout
  ELSE IF cont THEN NextReceive
  ELSE pc' = "exit" /\ UNCHANGED recvTimeout

Received(m) == [fragments_received EXCEPT ![m.src] = @ + 1]

\* recvFragment returns a data fragment.
ReceiveData(m) ==
  /\ pc = "recv"
  /\ ~Done(m.src)
  /\ ~m.eod
  /\ network' = network \ {m}
  /\ fragments_received' = Received(m)
  /\ cur' = FragmentOf(m)
  /\ pc' = "insert"
  /\ UNCHANGED <<storeVars, cmdVars, flush_mutex, recvTimeout, fragments_sent, eods,
                 eod_fragments_received, sender, history>>

\* recvFragment returns an EOD.
ReceiveEOD(m) ==
  /\ pc = "recv"
  /\ ~Done(m.src)
  /\ m.eod
  /\ network' = network \ {m}
  /\ fragments_received' = Received(m)
  /\ fragments_sent' = [fragments_sent EXCEPT ![m.src] = m.n + 1]
  /\ eods' = [eods EXCEPT ![m.src] = @ + 1]
  /\ eod_fragments_received' = eod_fragments_received + 1
  /\ AfterFragment(fragments_received', fragments_sent', eod_fragments_received', TRUE)
  /\ UNCHANGED <<storeVars, cmdVars, flush_mutex, cur, sender, history>>

\* recvFragment returns MPI_ANY_SOURCE: all sources are DONE.
ReceiveNothing ==
  /\ pc = "recv"
  /\ \A s \in Sender : Done(s)
  /\ pc' = "flush"
  /\ UNCHANGED <<storeVars, cmdVars, flush_mutex, recvTimeout, cur, recvVars,
                 netVars, history>>

\* A session is cut short: the history keeps the run of the first one.
CutShort == cutRun' = IF forced THEN cutRun ELSE run_id

\* What a timeout does, if it ends the session when ends.  The history is of
\* timeouts of a stop or a pause, whether or not they end the session.
TimeoutIf(ends) ==
  /\ pc = "recv"
  /\ \E s \in Sender : ~Done(s)
  /\ IF ends THEN pc' = "flush" /\ UNCHANGED recvTimeout ELSE NextReceive
  /\ IF recvTimeout = "inrun" THEN UNCHANGED cutRun ELSE CutShort
  /\ UNCHANGED <<storeVars, cmdVars, flush_mutex, cur, recvVars, netVars,
                 rejected, flushFailed>>

\* Mutant: any timeout ends the session once a stop or pause is requested.
TimeoutAtOnce == TimeoutIf(stop_requested \/ pause_requested)

\* recvFragment times out.  A stop or pause is forced only if it was already
\* requested when the timeout was chosen.
Timeout == TimeoutIf(\/ stop_requested /\ recvTimeout = "endrun"
                     \/ pause_requested /\ recvTimeout = "pause")

\* The store accepts the fragment.
InsertFragment ==
  /\ pc = "insert"
  /\ InsertAccepted(cur)
  /\ cur' = NoFragment
  /\ AfterFragment(fragments_received, fragments_sent, eod_fragments_received, TRUE)
  /\ UNCHANGED <<cmdVars, flush_mutex, recvVars, netVars, history>>


\* The store rejects the fragment, the queue being full: it is offered again,
\* unless a stop or a pause is requested.  Then the fragment is dropped and the
\* mutex unlocked; but the accounting that follows is the same.
RejectFragment ==
  /\ pc = "insert"
  /\ Full
  /\ stop_requested \/ pause_requested
  /\ cur' = NoFragment
  /\ flush_mutex' = "free"
  /\ AfterFragment(fragments_received, fragments_sent, eod_fragments_received, FALSE)
  /\ CutShort
  /\ rejected' = TRUE
  /\ UNCHANGED <<storeVars, cmdVars, recvVars, netVars, flushFailed>>

FlushOne ==
  /\ pc = "flush"
  /\ FlushEvent
  /\ UNCHANGED <<cmdVars, flush_mutex, threadVars, netVars, history>>

\* flushData returns and the mutex is unlocked.
FlushAndUnlock ==
  /\ pc = "flush"
  /\ FlushReturn
  /\ flushFailed' = (flushFailed \/ DOMAIN events # {})
  /\ flush_mutex' = "free"
  /\ pc' = "exit"
  /\ UNCHANGED <<cmdVars, recvTimeout, cur, recvVars, netVars, cutRun, rejected>>

\* The RHandles is destroyed; messages it had matched but not returned are lost.
Exit ==
  /\ pc = "exit"
  /\ \E lost \in SUBSET network : network' = network \ lost
  /\ pc' = "none"
  /\ UNCHANGED <<storeVars, cmdVars, flush_mutex, recvTimeout, cur, recvVars,
                 sender, history>>

Process ==
  \/ Enter
  \/ \E m \in network : ReceiveData(m) \/ ReceiveEOD(m)
  \/ ReceiveNothing \/ Timeout
  \/ InsertFragment \/ RejectFragment
  \/ FlushOne \/ FlushAndUnlock \/ Exit

-----------------------------------------------------------------------------
\* The command thread.

Goto(from, to) == cmd = from /\ cmd' = to

Start ==
  /\ Goto("Ready", "start_lock")
  /\ run_id < MaxRun \/ session = 0
  /\ session < MaxSession
  /\ stop_requested' = FALSE /\ pause_requested' = FALSE /\ run_is_paused' = FALSE
  /\ eod_fragments_received' = 0
  /\ UNCHANGED <<storeVars, session, flush_mutex, pc, recvTimeout, cur,
                 fragments_received, fragments_sent, eods,
                 netVars, history>>

Resume ==
  /\ Goto("Paused", "resume_lock")
  /\ session < MaxSession
  /\ eod_fragments_received' = 0
  /\ pause_requested' = FALSE
  /\ UNCHANGED <<storeVars, session, stop_requested, run_is_paused, flush_mutex, pc, recvTimeout,
                 cur, fragments_received, fragments_sent, eods,
                 netVars, history>>

\* start and resume have the lock; then the process_fragments thread is started.
Lock(holder) == flush_mutex = "free" /\ flush_mutex' = holder

BeginSession ==
  /\ Lock("session")
  /\ session' = session + 1
  /\ pc' = "enter"
  /\ run_is_paused' = FALSE
  /\ UNCHANGED <<stop_requested, pause_requested, recvTimeout, cur, recvVars,
                 netVars, history>>

StartLocked ==
  /\ Goto("start_lock", "Running")
  /\ startRun(IF session = 0 THEN 1 ELSE run_id + 1)
  /\ BeginSession

ResumeLocked ==
  /\ Goto("resume_lock", "Running")
  /\ startSubrun
  /\ BeginSession

Stop ==
  /\ cmd \in {"Running", "Paused"}
  /\ cmd' = "stop_lock"
  /\ stop_requested' = TRUE
  /\ UNCHANGED <<storeVars, pause_requested, run_is_paused, session, flush_mutex, threadVars,
                 netVars, history>>

Pause ==
  /\ Goto("Running", "pause_lock")
  /\ pause_requested' = TRUE
  /\ UNCHANGED <<storeVars, stop_requested, run_is_paused, session, flush_mutex, threadVars,
                 netVars, history>>

\* Mutant: stop does not wait for the mutex.
StopAtOnce ==
  /\ Goto("stop_lock", IF run_is_paused THEN "stop_endRun" ELSE "stop_endSubrun")
  /\ UNCHANGED <<storeVars, stop_requested, pause_requested, run_is_paused, session, flush_mutex,
                 threadVars, netVars, history>>

StopLocked ==
  /\ Goto("stop_lock", IF run_is_paused THEN "stop_endRun" ELSE "stop_endSubrun")
  /\ Lock("command")
  /\ UNCHANGED <<storeVars, stop_requested, pause_requested, run_is_paused, session, threadVars,
                 netVars, history>>

PauseLocked ==
  /\ Goto("pause_lock", "pause_endSubrun")
  /\ Lock("command")
  /\ UNCHANGED <<storeVars, stop_requested, pause_requested, run_is_paused, session, threadVars,
                 netVars, history>>

\* A marker is tried three times; then the command goes on without it.
EnqueueOrGiveUp(kind) == Enqueue(kind) \/ (Full /\ UNCHANGED storeVars)

StopEndSubrun ==
  /\ Goto("stop_endSubrun", "stop_endRun")
  /\ EnqueueOrGiveUp("endSubrun")
  /\ UNCHANGED <<stop_requested, pause_requested, run_is_paused, session, flush_mutex, threadVars,
                 netVars, history>>

\* Mutant: the mutex stays locked.
StopEndRunLocked ==
  /\ Goto("stop_endRun", "stop_join")
  /\ EnqueueOrGiveUp("endRun")
  /\ run_is_paused' = FALSE
  /\ UNCHANGED <<stop_requested, pause_requested, session, flush_mutex, threadVars, netVars, history>>

\* The last marker, and the unlock.
StopEndRun ==
  /\ Goto("stop_endRun", "stop_join")
  /\ EnqueueOrGiveUp("endRun")
  /\ flush_mutex' = "free"
  /\ run_is_paused' = FALSE
  /\ UNCHANGED <<stop_requested, pause_requested, session, threadVars, netVars, history>>

PauseEndSubrun ==
  /\ Goto("pause_endSubrun", "pause_join")
  /\ EnqueueOrGiveUp("endSubrun")
  /\ flush_mutex' = "free"
  /\ run_is_paused' = TRUE
  /\ UNCHANGED <<stop_requested, pause_requested, session, threadVars, netVars, history>>

\* do_stop and do_pause wait for the process_fragments thread.
Joined ==
  /\ Goto("stop_join", "Ready") \/ Goto("pause_join", "Paused")
  /\ pc = "none"
  /\ UNCHANGED <<storeVars, stop_requested, pause_requested, run_is_paused, session, flush_mutex,
                 threadVars, netVars, history>>

\* endOfData: the marker and the wait for the reader; after three failures the
\* shutdown is refused and may be ordered again.
Shutdown ==
  /\ cmd \in {"Ready", "Initialized"}
  /\ IF Full THEN cmd' = "Initialized" /\ UNCHANGED storeVars
             ELSE cmd' = "shutdown_join" /\ Enqueue("endOfData")
  /\ UNCHANGED <<stop_requested, pause_requested, run_is_paused, session, flush_mutex, threadVars,
                 netVars, history>>

ShutdownJoined ==
  /\ Goto("shutdown_join", "Booted")
  /\ ReaderDone
  /\ UNCHANGED <<storeVars, stop_requested, pause_requested, run_is_paused, session, flush_mutex,
                 threadVars, netVars, history>>

Order == Start \/ Resume \/ Stop \/ Pause \/ Shutdown
Command ==
  \/ StartLocked \/ ResumeLocked \/ StopLocked \/ PauseLocked
  \/ StopEndSubrun \/ StopEndRun \/ PauseEndSubrun \/ Joined \/ ShutdownJoined

Reader == Dequeue /\ UNCHANGED <<cmdVars, flush_mutex, threadVars, netVars, history>>

Terminated == cmd \in Idle /\ UNCHANGED vars

Next ==
  \/ \E s \in Sender : SenderBegin(s) \/ SenderSend(s) \/ SenderEnd(s)
  \/ Process
  \/ Order
  \/ Command
  \/ Reader
  \/ Terminated

Spec == Init /\ [][Next]_vars

\* Both threads run on; a receive that nothing answers times out.  Nothing is
\* asked of the senders, of the reader or of whoever gives the commands.
FairSpec == Spec /\ WF_vars(Process) /\ WF_vars(Command)

-----------------------------------------------------------------------------
\* Properties.

InStore(f) == \E ev \in RawEvents : f \in ev.frags

\* stop and pause end the subrun only when everything the senders sent in the run
\* has been clocked in and left the store, unless the timeout of a stop or pause
\* expired or back-pressure cut a session short: the in-run timeout never does.
BlockedUntilClockedIn ==
  cmd \in {"stop_endSubrun", "pause_endSubrun"} /\ ~forced =>
    /\ network = {}
    /\ \A s \in Sender :
         /\ sender[s].session = session
         /\ ~sender[s].on
         /\ \A n \in 1 .. sender[s].seq : InStore([run |-> run_id, seq |-> n, id |-> s])
    /\ flushFailed \/ events = [k \in {} |-> 0]

\* The event store, which has no lock of its own, is used by one thread at a time;
\* process_fragments flushes it, and unlocks flush_mutex_, with the mutex locked on
\* behalf of its session.  A session cut short by back-pressure is excepted.
StoreNotShared ==
  ~rejected =>
    /\ pc \in {"enter", "recv", "insert", "flush"} => flush_mutex = "session"
    /\ cmd \in {"stop_endSubrun", "stop_endRun", "pause_endSubrun"} => pc \in {"exit", "none"}

\* start and resume find flush_mutex_ unlocked and the previous thread gone.
StartNeverBlocks == cmd \in {"start_lock", "resume_lock"} => flush_mutex = "free" /\ pc = "none"

\* Unless a session was cut short by back-pressure or a flush failed, art sees no
\* event of a subrun after the marker that ends it, even if stop or pause timed out.
SubrunsClosed == ~rejected /\ ~flushFailed => MarkersCloseSubruns

\* Unless back-pressure cut a session short or a flush failed, an event has
\* fragments of its own run only, or, after the timeout of a stop or pause cut a
\* session short, also leftovers of earlier runs, back to the run of that session:
\* the runs before it had been clocked in whole.
OwnRun ==
  ~rejected /\ ~flushFailed =>
    \A ev \in RawEvents : \A f \in ev.frags :
      f.run = ev.run \/ (forced /\ f.run \in cutRun .. ev.run - 1)


\* process_fragments unlocks flush_mutex_ once per session, when it holds it, the
\* store flushed, before stop goes on.
FlushUnderLock == pc = "flush" => flush_mutex = "session"
=============================================================================
