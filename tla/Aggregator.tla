----------------------------- MODULE Aggregator -----------------------------
(***************************************************************************)
(* artdaq/Application/MPI2/AggregatorCore, driven by AggregatorApp, in     *)
(* either of its roles.  The data logger receives the fragments of the     *)
(* event builders, passes them to art and copies them to a slot of shared  *)
(* memory; the online monitor, another process, passes on to art what it   *)
(* can take from that slot.  The other process is the peer.  There is a    *)
(* command thread, a process_fragments thread, and in the data logger the  *)
(* thread of the automatic pause, which sends commands to its own process. *)
(*                                                                         *)
(* Copying never changes what the data logger does afterwards: it waits a  *)
(* bounded time for the slot and goes on.  So it is modelled in a peer of  *)
(* the online monitor only (PeerCopy), and that nothing is copied, because *)
(* of the prescale, the size or the slot, is that no such step is taken.   *)
(*                                                                         *)
(* RHandles is taken as module RHandles proves it to be: messages come in  *)
(* any order, each once, a source is DONE when the announced number has    *)
(* come; what a session leaves in MPI comes to the next, except what was   *)
(* matched.  Events are bunches of one fragment, so that the event store   *)
(* keeps nothing back; whether art's queue has room is a choice.  The      *)
(* shared memory can be had, and no fragment is invalid.                   *)
(***************************************************************************)
EXTENDS Integers, FiniteSets

CONSTANTS
  MaxSender,     \* bound: event builders
  InFlight,      \* messages of one of them that MPI holds: posted receives, waiting sends
  MaxStreams,    \* bound: data-taking sessions, times the event builders
  MaxData,       \* bound: data fragments of each event builder in a session
  MaxCopies      \* bound: fragments the peer copies to shared memory

ASSUME AggregatorAssumption ==
  /\ MaxSender \in Nat \ {0}
  /\ InFlight \in Nat \ {0}
  /\ MaxStreams \in Nat /\ MaxData \in Nat /\ MaxCopies \in Nat

VARIABLES
  is_data_logger,        \* its role, by its rank
  true_data_sender_count,
  state,                 \* the state machine, and the command under way
  stop_requested, local_pause_requested, art_initialized,
  session,               \* process_fragments threads started
  \* the process_fragments thread
  pc, recvTimeout,       \* where it is, and the timeout it chose
  process_fragments,     \* the flag that keeps its loop going
  endSubRunMsg,          \* the end of the subrun is held back
  eodFragmentsReceived,
  fragments_received, fragments_sent,  \* per sender
  got, expected,         \* RHandles, per sender: fragments received, and announced or -1
  cur,                   \* the fragment that waits for the slot or for art's queue
  \* the automatic pause
  system_pause_requested,
  pauser,                \* its thread: none, at a call, or in one
  \* shared memory
  key, shm, slot,        \* segment of the key, segments attached to (0: none), contents
  wasCopied,             \* esr_has_been_copied, eod_has_been_copied of a peer that is the logger
  \* MPI
  network, sender,       \* messages sent and not received; the event builders
  \* histories
  art,                   \* what art was given in this session: data, and the end of the subrun
  stream,                \* fragments copied by the peer, when it was attached to, last taken
  cut, early             \* a session was cut short; this one dropped fragments before the Init

roleVars == <<is_data_logger, true_data_sender_count>>
cmdVars == <<roleVars, state, stop_requested, local_pause_requested, session>>
countVars == <<fragments_received, got, expected>>
threadVars == <<pc, recvTimeout, process_fragments, endSubRunMsg, eodFragmentsReceived,
                fragments_sent, art_initialized, art, cut, early>>
shmVars == <<key, shm, slot, wasCopied, stream>>
pauseVars == <<system_pause_requested, pauser>>
netVars == <<network, sender>>
vars == <<cmdVars, countVars, threadVars, cur, shmVars, pauseVars, netVars>>

Sender == 1 .. true_data_sender_count  \* the event builders
MoreSessions == (session + 1) * true_data_sender_count <= MaxStreams

Kind == {"Init", "Data", "EndOfSubrun", "EndOfData"}
Count == 0 .. MaxData + 2
\* n numbers the data of a session, and is the count of an EndOfData.
Message == [src : 1 .. MaxSender, session : 1 .. MaxStreams, kind : Kind, n : Count]
\* In shared memory it is enough to number the fragments.
Copied == [kind : Kind, n : 0 .. MaxCopies]
None == [kind |-> "none"]
Segment == 1 .. 2  \* that of the key, and one removed while the data logger is attached
Idle == {"Ready", "Running", "Paused"}

TypeOK ==
  /\ is_data_logger \in BOOLEAN
  /\ true_data_sender_count \in 1 .. MaxSender
  /\ state \in Idle \cup {"stopping", "pausing"}
  /\ stop_requested \in BOOLEAN /\ local_pause_requested \in BOOLEAN
  /\ art_initialized \in BOOLEAN
  /\ session \in 0 .. MaxStreams
  /\ pc \in {"none", "enter", "recv", "insert", "join", "exit"}
  /\ recvTimeout \in {"inrun", "endrun", "pause"}
  /\ process_fragments \in BOOLEAN
  /\ endSubRunMsg \in BOOLEAN
  /\ eodFragmentsReceived \in Nat
  /\ fragments_received \in [Sender -> Nat] /\ fragments_sent \in [Sender -> Nat]
  /\ got \in [Sender -> Nat] /\ expected \in [Sender -> Nat \cup {-1}]
  /\ cur \in Message \cup {None}
  /\ system_pause_requested \in BOOLEAN
  /\ pauser \in {"none", "pause", "waits", "resume"}
  /\ key \in Segment \cup {0} /\ shm \in [{"self", "peer"} -> Segment \cup {0}]
  /\ slot \in [Segment -> Copied \cup {None}]
  /\ wasCopied \subseteq {"EndOfSubrun", "EndOfData"}
  /\ network \subseteq Message
  /\ sender \in [Sender -> [at : {"off", "data", "end"}, session : 0 .. MaxStreams,
                            data : 0 .. MaxData, count : Count]]
  /\ art \in [data : SUBSET (Message \cup Copied), end : {"open", "closed", "lost"}]
  /\ stream \in [copied : 0 .. MaxCopies, since : Nat, last : Nat, takes : Nat]
  /\ cut \in BOOLEAN /\ early \in BOOLEAN

Zero == [s \in Sender |-> 0]
Unknown == [s \in Sender |-> -1]
Nothing == [data |-> {}, end |-> "open"]

\* After initialize, which decides the role.
Init ==
  /\ is_data_logger \in BOOLEAN
  /\ true_data_sender_count \in IF is_data_logger THEN 1 .. MaxSender ELSE {1}
  /\ state = "Ready"
  /\ stop_requested = FALSE /\ local_pause_requested = FALSE /\ art_initialized = FALSE
  /\ session = 0
  /\ pc = "none" /\ recvTimeout = "inrun" /\ process_fragments = TRUE
  /\ endSubRunMsg = FALSE /\ eodFragmentsReceived = 0
  /\ fragments_received = Zero /\ fragments_sent = Zero
  /\ got = Zero /\ expected = Unknown
  /\ cur = None
  /\ system_pause_requested = FALSE /\ pauser = "none"
  /\ key = 0 /\ shm = [p \in {"self", "peer"} |-> 0] /\ slot = [g \in Segment |-> None]
  /\ wasCopied = {}
  /\ network = {}
  /\ sender = [s \in Sender |-> [at |-> "off", session |-> 0, data |-> 0, count |-> 0]]
  /\ art = Nothing
  /\ stream = [copied |-> 0, since |-> 0, last |-> 0, takes |-> 0]
  /\ cut = FALSE /\ early = FALSE

-----------------------------------------------------------------------------
\* The event builders: NetMonOutput, and the SHandles it connects for each subrun.

Send(s, kind, n) ==
  /\ Cardinality({m \in network : m.src = s}) < InFlight
  /\ network' = network \cup {[src |-> s, session |-> sender'[s].session, kind |-> kind, n |-> n]}
  /\ UNCHANGED <<cmdVars, countVars, threadVars, cur, shmVars, pauseVars>>

\* The first session begins with the Init message.
SenderInit(s) ==
  /\ is_data_logger
  /\ sender[s].session = 0
  /\ session # 0
  /\ sender' = [sender EXCEPT ![s].at = "data", ![s].session = 1, ![s].count = 1]
  /\ Send(s, "Init", 0)

\* An event builder that is behind enters its next session.
SenderBegin(s) ==
  /\ sender[s].at = "off"
  /\ sender[s].session \in 1 .. session - 1
  /\ sender' = [sender EXCEPT ![s].at = "data", ![s].session = @ + 1,
                              ![s].data = 0, ![s].count = 0]
  /\ UNCHANGED <<cmdVars, countVars, threadVars, cur, shmVars, pauseVars, network>>

SenderSend(s) ==
  /\ sender[s].at = "data"
  /\ sender[s].data < MaxData
  /\ sender' = [sender EXCEPT ![s].data = @ + 1, ![s].count = @ + 1]
  /\ Send(s, "Data", sender[s].data + 1)

SenderEndSubrun(s) ==
  /\ sender[s].at = "data"
  /\ sender' = [sender EXCEPT ![s].at = "end", ![s].count = @ + 1]
  /\ Send(s, "EndOfSubrun", 0)

SenderDisconnect(s) ==
  /\ sender[s].at = "end"
  /\ sender' = [sender EXCEPT ![s].at = "off"]
  /\ Send(s, "EndOfData", sender[s].count)

-----------------------------------------------------------------------------
\* The shared memory.

\* Mutant: the online monitor takes the segment as it finds it.
AttachUncleared(p, isLogger) ==
  LET g == IF key # 0 THEN key ELSE CHOOSE h \in Segment : h \notin {shm["self"], shm["peer"]}
  IN  /\ key' = g
      /\ shm' = [shm EXCEPT ![p] = g]
      /\ slot' = IF key # 0 THEN slot ELSE [slot EXCEPT ![g] = None]
      /\ stream' = IF isLogger THEN stream ELSE [stream EXCEPT !.since = stream.copied]

\* attachToSharedMemory_: the segment of the key, or a new one; only the online
\* monitor marks it as empty.
Attach(p, isLogger) ==
  LET g == IF key # 0 THEN key ELSE CHOOSE h \in Segment : h \notin {shm["self"], shm["peer"]}
  IN  /\ key' = g
      /\ shm' = [shm EXCEPT ![p] = g]
      /\ slot' = IF isLogger /\ key # 0 THEN slot ELSE [slot EXCEPT ![g] = None]
      /\ stream' = IF isLogger THEN stream ELSE [stream EXCEPT !.since = stream.copied]

\* detachFromSharedMemory_: the online monitor also removes its segment, to which the
\* data logger may still be attached.
Detach(p, isLogger) ==
  /\ shm' = [shm EXCEPT ![p] = 0]
  /\ key' = IF isLogger THEN key ELSE 0
  /\ UNCHANGED <<slot, wasCopied, stream>>

\* copyFragmentToSharedMemory_, when it does copy; hasFragment is written last.
Free(p) == slot[shm[p]] = None
Copy(p, kind, n) ==
  /\ Free(p)
  /\ slot' = [slot EXCEPT ![shm[p]] = [kind |-> kind, n |-> n]]
  /\ UNCHANGED <<key, shm>>
Once(kind) == {kind} \cap {"EndOfSubrun", "EndOfData"}

\* The peer as a data logger.
PeerAttach ==
  /\ ~is_data_logger
  /\ shm["peer"] = 0
  /\ Attach("peer", TRUE)
  /\ wasCopied' = {}
  /\ UNCHANGED <<cmdVars, countVars, threadVars, cur, pauseVars, netVars>>

PeerCopy(kind) ==
  /\ ~is_data_logger
  /\ shm["peer"] # 0
  /\ kind \notin wasCopied
  /\ stream.copied < MaxCopies
  /\ stream' = [stream EXCEPT !.copied = @ + 1]
  /\ Copy("peer", kind, stream.copied + 1)
  /\ wasCopied' = wasCopied \cup Once(kind)
  /\ UNCHANGED <<cmdVars, countVars, threadVars, cur, pauseVars, netVars>>

PeerDetach ==
  /\ ~is_data_logger
  /\ shm["peer"] # 0
  /\ Detach("peer", TRUE)
  /\ UNCHANGED <<cmdVars, countVars, threadVars, cur, pauseVars, netVars>>

-----------------------------------------------------------------------------
\* The process_fragments thread: what both roles have.

To(place) == pc' = place /\ UNCHANGED recvTimeout

\* The top of the loop: which timeout, by what the command thread asks for.
NextReceive ==
  /\ pc' = "recv"
  /\ recvTimeout' = IF stop_requested THEN "endrun"
                    ELSE IF local_pause_requested THEN "pause" ELSE "inrun"

\* In what follows seen is what art has been given, and esr whether the end of the
\* subrun is held back.
Keep(seen, esr) == art' = seen /\ endSubRunMsg' = esr

\* The end of a session: flushData and then the end of the subrun, if there is one
\* and art's queue has room.
Conclude(seen, esr) ==
  /\ \E end \in IF esr THEN {"closed", "lost"} ELSE {seen.end} :
       Keep([seen EXCEPT !.end = end], FALSE)
  /\ To("exit")

\* Mutant: without the comparison of counts.
AllReceivedUncounted(esr) ==
  /\ esr
  /\ eodFragmentsReceived' >= true_data_sender_count

\* All EODs have come, and an end of the subrun; the data logger also counts.
AllReceived(esr) ==
  /\ esr
  /\ eodFragmentsReceived' >= true_data_sender_count
  /\ is_data_logger => fragments_received' = fragments_sent'

Account(seen, esr, goOn) ==
  IF AllReceived(esr) THEN Conclude(seen, esr)
  ELSE Keep(seen, esr) /\ IF goOn THEN NextReceive ELSE To("exit")


\* A file threshold is reached: the thread of the last automatic pause is joined first.
FileThreshold ==
  /\ is_data_logger
  /\ ~stop_requested /\ ~system_pause_requested
  /\ system_pause_requested' = TRUE
  /\ To("join")

\* What follows the handling of a fragment.
AfterFragment(seen, esr, goOn) ==
  \/ /\ Account(seen, esr, goOn)
     /\ UNCHANGED <<process_fragments, system_pause_requested>>
  \/ /\ FileThreshold
     /\ process_fragments' = goOn
     /\ Keep(seen, esr)

HandleInit(m) ==
  /\ m.kind = "Init"
  /\ ~art_initialized
  /\ art_initialized' = TRUE
  /\ UNCHANGED <<fragments_sent, eodFragmentsReceived, cut, early>>
  /\ AfterFragment(art, endSubRunMsg, TRUE)

\* Before the Init everything else is dropped; after it, other Inits are.
HandleDropped(m) ==
  /\ (m.kind = "Init") = art_initialized
  /\ early' = (early \/ m.kind # "Init")
  /\ UNCHANGED <<art_initialized, fragments_sent, eodFragmentsReceived, cut>>
  /\ AfterFragment(art, endSubRunMsg, TRUE)

\* insert, when art's queue has room.
HandleData(m) ==
  /\ m.kind = "Data"
  /\ art_initialized
  /\ UNCHANGED <<art_initialized, fragments_sent, eodFragmentsReceived, cut, early>>
  /\ AfterFragment([art EXCEPT !.data = @ \cup {m}], endSubRunMsg, TRUE)

\* And when it has none: the online monitor drops the event; the data logger gives it
\* up, and the session with it, if a stop or a pause is requested.
RefuseData(m) ==
  /\ m.kind = "Data"
  /\ art_initialized
  /\ is_data_logger => stop_requested \/ local_pause_requested
  /\ cut' = (cut \/ is_data_logger)
  /\ UNCHANGED <<art_initialized, fragments_sent, eodFragmentsReceived, early>>
  /\ AfterFragment(art, endSubRunMsg, ~is_data_logger)

\* Mutant: the end of the subrun is passed on at once.
HandleEndOfSubrunAtOnce(m) ==
  /\ m.kind = "EndOfSubrun"
  /\ art_initialized
  /\ UNCHANGED <<art_initialized, fragments_sent, eodFragmentsReceived, cut, early>>
  /\ AfterFragment([art EXCEPT !.end = "closed"], TRUE, TRUE)

HandleEndOfSubrun(m) ==
  /\ m.kind = "EndOfSubrun"
  /\ art_initialized
  /\ UNCHANGED <<art_initialized, fragments_sent, eodFragmentsReceived, cut, early>>
  /\ AfterFragment(art, TRUE, TRUE)

HandleEndOfData(m) ==
  /\ m.kind = "EndOfData"
  /\ art_initialized
  /\ eodFragmentsReceived' = eodFragmentsReceived + 1
  /\ fragments_sent' = IF is_data_logger THEN [fragments_sent EXCEPT ![m.src] = m.n + 1]
                       ELSE fragments_sent
  /\ UNCHANGED <<art_initialized, cut, early>>
  /\ AfterFragment(art, endSubRunMsg, TRUE)

Handle(m) ==
  \/ HandleInit(m) \/ HandleDropped(m) \/ HandleData(m) \/ RefuseData(m)
  \/ HandleEndOfSubrun(m) \/ HandleEndOfData(m)

Enter ==
  /\ pc = "enter"
  /\ NextReceive
  /\ Keep(Nothing, FALSE)
  /\ early' = FALSE
  /\ Attach("self", is_data_logger)
  /\ UNCHANGED <<cmdVars, countVars, process_fragments, eodFragmentsReceived, fragments_sent,
                 art_initialized, cut, cur, wasCopied, pauseVars, netVars>>

Done(s) == expected[s] = got[s]

\* No fragment within the timeout.  A stop or pause is forced only if it was already
\* requested when the timeout was chosen.
Timeout ==
  /\ pc = "recv"
  /\ IF is_data_logger THEN \E s \in Sender : ~Done(s) ELSE Free("self")
  /\ IF \/ stop_requested /\ recvTimeout = "endrun"
        \/ local_pause_requested /\ recvTimeout = "pause"
     THEN Conclude(art, endSubRunMsg) /\ cut' = (cut \/ is_data_logger)
     ELSE NextReceive /\ UNCHANGED <<art, endSubRunMsg, cut>>
  /\ UNCHANGED <<cmdVars, countVars, process_fragments, eodFragmentsReceived, fragments_sent,
                 art_initialized, early, cur, shmVars, pauseVars, netVars>>

\* The thread ends, with its variables.  RHandles is destroyed, and messages it had
\* matched are lost.
Exit ==
  /\ pc = "exit"
  /\ pc' = "none" /\ recvTimeout' = "inrun" /\ process_fragments' = TRUE
  /\ endSubRunMsg' = FALSE /\ eodFragmentsReceived' = 0
  /\ fragments_received' = Zero /\ fragments_sent' = Zero
  /\ got' = Zero /\ expected' = Unknown
  /\ \E lost \in SUBSET network : network' = network \ lost
  /\ Detach("self", is_data_logger)
  /\ UNCHANGED <<cmdVars, art, art_initialized, cut, early, cur, pauseVars, sender>>

-----------------------------------------------------------------------------
\* The data logger.

\* recvFragment returns m.
Receive(m) ==
  /\ is_data_logger /\ pc = "recv"
  /\ ~Done(m.src)
  /\ network' = network \ {m}
  /\ fragments_received' = [fragments_received EXCEPT ![m.src] = @ + 1]
  /\ IF m.kind = "EndOfData"
     THEN expected' = [expected EXCEPT ![m.src] = m.n] /\ UNCHANGED got
     ELSE got' = [got EXCEPT ![m.src] = @ + 1] /\ UNCHANGED expected
  /\ UNCHANGED <<cmdVars, shmVars, pauser, sender>>

ReceiveAndHandle(m) == Receive(m) /\ Handle(m) /\ UNCHANGED cur

\* Data that art's queue has no room for is offered again.
ReceiveAndOffer(m) ==
  /\ Receive(m)
  /\ m.kind = "Data" /\ art_initialized
  /\ cur' = m
  /\ To("insert")
  /\ UNCHANGED <<process_fragments, endSubRunMsg, eodFragmentsReceived, fragments_sent,
                 art_initialized, art, cut, early, system_pause_requested>>

Offered ==
  /\ pc = "insert"
  /\ cur' = None
  /\ UNCHANGED <<cmdVars, countVars, shmVars, pauser, netVars>>
InsertAgain == Offered /\ HandleData(cur)
InsertGivenUp == Offered /\ RefuseData(cur)

StartPauser ==
  /\ pc = "join"
  /\ pauser = "none"
  /\ pauser' = "pause"
  /\ UNCHANGED <<cmdVars, countVars, process_fragments, eodFragmentsReceived, fragments_sent,
                 art_initialized, cut, early, cur, shmVars, system_pause_requested, netVars>>
  /\ Account(art, endSubRunMsg, process_fragments)

\* recvFragment returns MPI_ANY_SOURCE: all sources are DONE.
ReceiveNothing ==
  /\ is_data_logger /\ pc = "recv"
  /\ \A s \in Sender : Done(s)
  /\ Conclude(art, endSubRunMsg)
  /\ UNCHANGED <<cmdVars, countVars, process_fragments, eodFragmentsReceived, fragments_sent,
                 art_initialized, cut, early, cur, shmVars, pauseVars, netVars>>

-----------------------------------------------------------------------------
\* The online monitor: receiveFragmentFromSharedMemory_ returns a fragment.

Take ==
  /\ ~is_data_logger /\ pc = "recv"
  /\ ~Free("self")
  /\ slot' = [slot EXCEPT ![shm["self"]] = None]
  /\ stream' = [stream EXCEPT !.last = slot[shm["self"]].n, !.takes = @ + 1]
  /\ UNCHANGED <<cmdVars, countVars, key, shm, wasCopied, cur, pauser, netVars>>
  /\ Handle(slot[shm["self"]])

\* All of the thread but what waits for art.
Process ==
  \/ Enter \/ Timeout \/ Exit
  \/ \E m \in network : ReceiveAndHandle(m) \/ ReceiveAndOffer(m)
  \/ InsertGivenUp \/ StartPauser \/ ReceiveNothing
  \/ Take

-----------------------------------------------------------------------------
\* The command thread.

Launch ==
  /\ MoreSessions
  /\ session' = session + 1
  /\ pc' = "enter"
  /\ state' = "Running"
  /\ local_pause_requested' = FALSE
  /\ UNCHANGED <<roleVars, countVars, recvTimeout, process_fragments, endSubRunMsg,
                 eodFragmentsReceived, fragments_sent, art_initialized, art, cut, early, cur,
                 shmVars, netVars>>

start == state = "Ready" /\ stop_requested' = FALSE /\ Launch
resume == state = "Paused" /\ UNCHANGED stop_requested /\ Launch

stop ==
  /\ state \in {"Running", "Paused"}
  /\ state' = "stopping"
  /\ stop_requested' = TRUE
  /\ UNCHANGED <<roleVars, local_pause_requested, session, countVars, threadVars, cur,
                 shmVars, netVars>>

pause ==
  /\ state = "Running"
  /\ state' = "pausing"
  /\ local_pause_requested' = TRUE
  /\ UNCHANGED <<roleVars, stop_requested, session, countVars, threadVars, cur,
                 shmVars, netVars>>

\* A command from run control.
Order == (start \/ stop \/ pause \/ resume) /\ UNCHANGED pauseVars

\* do_stop and do_pause wait for the process_fragments thread.
Joined ==
  /\ state \in {"stopping", "pausing"}
  /\ pc = "none"
  /\ state' = IF state = "stopping" THEN "Ready" ELSE "Paused"
  /\ UNCHANGED <<roleVars, stop_requested, local_pause_requested, session, countVars,
                 threadVars, cur, shmVars, pauseVars, netVars>>

-----------------------------------------------------------------------------
\* sendPauseAndResume_ calls all processes of the system, this one among them: first to
\* pause, each call being answered when the process has paused, then to resume.

SendPause ==
  /\ pauser = "pause"
  /\ pause
  /\ pauser' = "waits"
  /\ UNCHANGED system_pause_requested

PauseAnswered ==
  /\ pauser = "waits"
  /\ state # "pausing"
  /\ pauser' = "resume"
  /\ UNCHANGED <<cmdVars, countVars, threadVars, cur, shmVars, netVars,
                 system_pause_requested>>

SendResume ==
  /\ pauser = "resume"
  /\ resume
  /\ pauser' = "none"
  /\ system_pause_requested' = FALSE

\* Five attempts at a command have failed: the process was busy, or it was not legal.
GiveUp ==
  /\ \/ /\ pauser = "pause" /\ state # "Running"
        /\ pauser' = "resume"
        /\ UNCHANGED system_pause_requested
     \/ /\ pauser = "resume" /\ (state # "Paused" \/ ~MoreSessions)
        /\ pauser' = "none"
        /\ system_pause_requested' = FALSE
  /\ UNCHANGED <<cmdVars, countVars, threadVars, cur, shmVars, netVars>>

Pauser == SendPause \/ PauseAnswered \/ SendResume \/ GiveUp

-----------------------------------------------------------------------------

Terminated == state \in Idle /\ pauser = "none" /\ UNCHANGED vars

Next ==
  \/ \E s \in Sender : \/ SenderInit(s) \/ SenderBegin(s) \/ SenderSend(s)
                       \/ SenderEndSubrun(s) \/ SenderDisconnect(s)
  \/ PeerAttach \/ PeerDetach
  \/ \E kind \in Kind : PeerCopy(kind)
  \/ Process \/ InsertAgain
  \/ Order \/ Joined
  \/ Pauser
  \/ Terminated

Spec == Init /\ [][Next]_vars

\* The threads run on; a receive that nothing answers times out.  Nothing is asked
\* of the event builders, of the peer, of art (InsertAgain) or of run control.
FairSpec == Spec /\ WF_vars(Process) /\ WF_vars(Joined) /\ WF_vars(Pauser)

-----------------------------------------------------------------------------
\* Properties.

\* When the data logger ends a session and none was cut short, every event builder has
\* ended it too, nothing is left over in MPI for the next, and art was offered all the
\* data of the session and then its end, unless something came before the Init.
LoggerComplete ==
  is_data_logger /\ pc = "exit" /\ ~cut =>
    /\ network = {}
    /\ \A s \in Sender : sender[s].session = session /\ sender[s].at = "off"
    /\ ~early => /\ art.end # "open"
                 /\ art.data = {[src |-> s, session |-> session, kind |-> "Data", n |-> n] :
                                  s \in Sender, n \in 1 .. MaxData}
                               \cap {m \in Message : m.n <= sender[m.src].data}

\* Within a session art is given one end of the subrun, and nothing after it, though
\* the end is received among the data.
MarkerLast == [][art.end # "open" /\ pc # "enter" => art' = art]_vars

\* What the online monitor takes is what the data logger copied since the monitor
\* attached, in order, nothing twice.
MonitorStream == INSTANCE LossyStream WITH
  copied <- stream.copied, since <- stream.since, last <- stream.last, takes <- stream.takes
MonitorStreamSpec == MonitorStream!Spec

\* Commands come to an end even if event builders are silent or art does not read,
\* and so does the automatic pause, whose commands wait for the thread that started it.
CommandsReturn ==
  /\ state \in {"stopping", "pausing"} ~> state \in Idle
  /\ system_pause_requested ~> ~system_pause_requested
=============================================================================
