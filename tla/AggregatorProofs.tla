-------------------------- MODULE AggregatorProofs --------------------------
(***************************************************************************)
(* Proofs about the aggregator in both of its roles, whatever the number   *)
(* of event builders, of sessions and of messages: the data logger ends a  *)
(* session that is not cut short when all of it has come, and the online   *)
(* monitor is given a lossy but ordered part of what is copied.            *)
(***************************************************************************)
EXTENDS Aggregator, FiniteSetTheorems, TLAPS

-----------------------------------------------------------------------------
(* The inductive invariant, by parts.                                      *)

Loop == {"recv", "insert", "join"}  \* within the loop of the process_fragments thread

PhaseInv ==
  /\ state \in {"Ready", "Paused"} => pc = "none"
  /\ pc # "none" => session >= 1
  /\ pc \in Loop => art.end = "open"
  /\ shm["self"] # 0 <=> pc \in Loop \cup {"exit"}
  /\ pc \in {"insert", "join"} => is_data_logger
  /\ pc = "insert" => cur \in Message /\ cur.kind = "Data"
  /\ pc \in {"none", "enter"} => /\ eodFragmentsReceived = 0 /\ endSubRunMsg = FALSE
                                 /\ fragments_received = Zero /\ fragments_sent = Zero
                                 /\ got = Zero /\ expected = Unknown
  /\ pc \in Loop \ {"join"} => process_fragments
  /\ pc \in {"none", "enter"} => process_fragments
  /\ pc = "join" /\ ~cut => process_fragments

\* What an event builder has done in its session.
SenderInv ==
  \A s \in Sender :
    /\ sender[s].session <= session
    /\ sender[s].session = 0 => sender[s] = [at |-> "off", session |-> 0, data |-> 0, count |-> 0]
    /\ sender[s].session # 0 =>
         sender[s].count = sender[s].data + (IF sender[s].session = 1 THEN 1 ELSE 0)
                                          + (IF sender[s].at = "data" THEN 0 ELSE 1)

\* The online monitor finds in its segment what was copied since it attached.
SlotInv ==
  /\ stream.since <= stream.copied /\ stream.last <= stream.copied
  /\ shm["self"] # 0 /\ slot[shm["self"]] # None /\ ~is_data_logger =>
       LET n == slot[shm["self"]].n IN stream.since < n /\ stream.last < n /\ n <= stream.copied

\* The messages of the session that the event builders have sent.
SentBy(m) ==
  /\ m.src \in Sender /\ m.session = session /\ sender[m.src].session = session
  /\ \/ m.kind = "Init" /\ m.n = 0 /\ session = 1
     \/ m.kind = "Data" /\ m.n \in 1 .. sender[m.src].data
     \/ m.kind = "EndOfSubrun" /\ m.n = 0 /\ sender[m.src].at # "data"
     \/ m.kind = "EndOfData" /\ m.n = sender[m.src].count /\ sender[m.src].at = "off"
SentNow == {m \in Message : SentBy(m)}
Received == SentNow \ network

\* Those of event builder s but its EndOfData.
Fragments(s, messages) == {m \in messages : m.src = s /\ m.kind # "EndOfData"}
Ended(s, messages) == \E m \in messages : m.src = s /\ m.kind = "EndOfData"

\* The event builders of a session, and what has been received from them.
CountOf(s) ==
  /\ \/ sender[s].session = session
     \/ sender[s].session = session - 1 /\ sender[s].at = "off"
  /\ Cardinality(Fragments(s, SentNow)) = IF sender[s].session = session THEN sender[s].count ELSE 0
  /\ got[s] = Cardinality(Fragments(s, Received))
  /\ expected[s] = IF Ended(s, Received) THEN sender[s].count ELSE -1
  /\ fragments_received[s] = got[s] + (IF Ended(s, Received) THEN 1 ELSE 0)
  /\ fragments_sent[s] # 0 => Ended(s, Received) /\ fragments_sent[s] = sender[s].count + 1
CountInv ==
  /\ network \subseteq SentNow
  /\ \A s \in Sender : CountOf(s)
  /\ eodFragmentsReceived = Cardinality({s \in Sender : fragments_sent[s] # 0})

\* What art has been given of it.
ArtInv ==
  /\ pc = "insert" => cur \in Received
  /\ ~early =>
       /\ art.data = {m \in Received : m.kind = "Data"} \ (IF pc = "insert" THEN {cur} ELSE {})
       /\ pc \in Loop /\ (\E m \in Received : m.kind = "EndOfSubrun") => endSubRunMsg

\* The data logger, until a session is cut short.
LoggerInv ==
  is_data_logger /\ ~cut =>
    /\ pc = "none" => network = {} /\ \A s \in Sender : sender[s].session = session /\ sender[s].at = "off"
    /\ pc # "none" => CountInv
    /\ pc \in Loop \cup {"exit"} => ArtInv
    /\ pc = "exit" => (\A s \in Sender : Done(s)) /\ (~early => art.end # "open")

IInv == TypeOK /\ PhaseInv /\ SenderInv /\ SlotInv /\ LoggerInv

-----------------------------------------------------------------------------
(* The steps, by who takes them.                                           *)

SenderStep(s) ==
  SenderInit(s) \/ SenderBegin(s) \/ SenderSend(s) \/ SenderEndSubrun(s) \/ SenderDisconnect(s)
PeerStep == PeerAttach \/ PeerDetach \/ \E kind \in Kind : PeerCopy(kind)
CommandStep == Order \/ Joined \/ Pauser \/ Terminated \/ UNCHANGED vars
LoggerStep ==
  \/ \E m \in network : ReceiveAndHandle(m) \/ ReceiveAndOffer(m)
  \/ InsertAgain \/ InsertGivenUp \/ StartPauser \/ ReceiveNothing

LEMMA Steps ==
  ASSUME [Next]_vars
  PROVE  \/ \E s \in Sender : SenderStep(s)
         \/ PeerStep \/ CommandStep \/ LoggerStep \/ Enter \/ Timeout \/ Exit \/ Take
  BY DEF Next, SenderStep, PeerStep, CommandStep, LoggerStep, Process

ArtType == [data : SUBSET (Message \cup Copied), end : {"open", "closed", "lost"}]
SenderType == [at : {"off", "data", "end"}, session : 0 .. MaxStreams, data : 0 .. MaxData, count : Count]

LEMMA ConstantsAre ==
  /\ MaxSender \in Nat /\ MaxStreams \in Nat /\ MaxData \in Nat /\ MaxCopies \in Nat
  /\ Count \subseteq Nat
  BY AggregatorAssumption DEF Count

LEMMA SenderIs ==
  ASSUME TypeOK
  PROVE  /\ true_data_sender_count \in Nat /\ true_data_sender_count >= 1 /\ 1 \in Sender
         /\ Sender \subseteq Nat /\ IsFiniteSet(Sender) /\ Cardinality(Sender) = true_data_sender_count
         /\ Sender \subseteq 1 .. MaxSender
  <1>1. true_data_sender_count \in Nat /\ true_data_sender_count >= 1 /\ true_data_sender_count <= MaxSender
    BY ConstantsAre DEF TypeOK
  <1>2. IsFiniteSet(1 .. true_data_sender_count) /\ Cardinality(1 .. true_data_sender_count) = true_data_sender_count
    BY <1>1, FS_Interval
  <1>3. QED
    BY <1>1, <1>2, ConstantsAre DEF Sender

LEMMA SessionsLeft ==
  ASSUME TypeOK, MoreSessions
  PROVE  session + 1 \in 1 .. MaxStreams
  <1>1. session \in Nat /\ MaxStreams \in Nat /\ true_data_sender_count \in Nat /\ true_data_sender_count >= 1
    BY ConstantsAre, SenderIs DEF TypeOK
  <1> DEFINE a == session + 1
             b == true_data_sender_count
  <1>2. a \in Nat /\ a >= 1 /\ b \in Nat /\ b >= 1 /\ a * b <= MaxStreams
    BY <1>1 DEF MoreSessions
  <1> HIDE DEF a, b
  <1>3. a <= a * b
    BY <1>2
  <1>4. a <= MaxStreams
    BY <1>1, <1>2, <1>3
  <1>5. QED
    BY <1>1, <1>2, <1>4 DEF a

\* What a command, or the automatic pause, leaves alone.
LEMMA CommandIs ==
  ASSUME TypeOK, CommandStep
  PROVE  /\ UNCHANGED <<roleVars, countVars, recvTimeout, process_fragments, endSubRunMsg,
                        eodFragmentsReceived, fragments_sent, art_initialized, art, cut, early, cur,
                        shmVars, netVars>>
         /\ \/ /\ state \in {"Ready", "Paused"} /\ state' = "Running" /\ pc' = "enter"
               /\ session' = session + 1 /\ session + 1 \in 1 .. MaxStreams
            \/ /\ pc' = pc /\ session' = session
               /\ state' \in {"Ready", "Paused"} => state \in {"Ready", "Paused"} \/ pc = "none"
         /\ state' \in Idle \cup {"stopping", "pausing"}
         /\ stop_requested' \in BOOLEAN /\ local_pause_requested' \in BOOLEAN
         /\ system_pause_requested' \in BOOLEAN /\ pauser' \in {"none", "pause", "waits", "resume"}
  <1>0. /\ state \in Idle \cup {"stopping", "pausing"} /\ stop_requested \in BOOLEAN
        /\ local_pause_requested \in BOOLEAN /\ system_pause_requested \in BOOLEAN
        /\ pauser \in {"none", "pause", "waits", "resume"}
    BY DEF TypeOK
  <1>1. ASSUME Launch
        PROVE  /\ UNCHANGED <<roleVars, countVars, recvTimeout, process_fragments, endSubRunMsg,
                              eodFragmentsReceived, fragments_sent, art_initialized, art, cut, early, cur,
                              shmVars, netVars>>
               /\ state' = "Running" /\ pc' = "enter" /\ local_pause_requested' = FALSE
               /\ session' = session + 1 /\ session + 1 \in 1 .. MaxStreams
    BY <1>1, SessionsLeft DEF Launch
  <1>2. CASE start \/ resume
    BY <1>0, <1>1, <1>2 DEF start, resume, Idle, CommandStep, Order, Joined, Pauser, Terminated, vars,
      SendPause, PauseAnswered, SendResume, GiveUp, pauseVars, cmdVars, threadVars, stop, pause
  <1>3. CASE stop \/ pause
    BY <1>0, <1>3 DEF stop, pause, Idle, CommandStep, Order, Joined, Pauser, Terminated, vars,
      SendPause, PauseAnswered, SendResume, GiveUp, pauseVars, cmdVars, threadVars, start, resume
  <1>4. CASE Joined
    BY <1>0, <1>4 DEF Joined, Idle, pauseVars, threadVars
  <1>5. CASE PauseAnswered \/ GiveUp \/ Terminated \/ UNCHANGED vars
    BY <1>0, <1>5 DEF PauseAnswered, GiveUp, Terminated, vars, cmdVars, threadVars, pauseVars
  <1>6. QED
    BY <1>2, <1>3, <1>4, <1>5 DEF CommandStep, Order, Pauser, SendPause, SendResume

\* What an event builder sends, and what it makes of itself.
Sends(s, m, now) ==
  /\ m.src = s /\ m.session = now.session
  /\ \/ /\ m.kind = "Init" /\ m.n = 0
        /\ sender[s].session = 0 /\ session # 0
        /\ now = [at |-> "data", session |-> 1, data |-> 0, count |-> 1]
     \/ /\ m.kind = "Data" /\ m.n = sender[s].data + 1 /\ sender[s].data < MaxData
        /\ sender[s].at = "data"
        /\ now = [at |-> "data", session |-> sender[s].session, data |-> sender[s].data + 1,
                  count |-> sender[s].count + 1]
     \/ /\ m.kind = "EndOfSubrun" /\ m.n = 0
        /\ sender[s].at = "data"
        /\ now = [at |-> "end", session |-> sender[s].session, data |-> sender[s].data,
                  count |-> sender[s].count + 1]
     \/ /\ m.kind = "EndOfData" /\ m.n = sender[s].count
        /\ sender[s].at = "end"
        /\ now = [at |-> "off", session |-> sender[s].session, data |-> sender[s].data,
                  count |-> sender[s].count]

LEMMA SenderStepIs ==
  ASSUME TypeOK, SenderInv, NEW s \in Sender, SenderStep(s)
  PROVE  /\ UNCHANGED <<cmdVars, countVars, threadVars, cur, shmVars, pauseVars>>
         /\ \E now \in SenderType :
              /\ sender' = [sender EXCEPT ![s] = now]
              /\ \/ /\ network' = network
                    /\ sender[s].at = "off" /\ sender[s].session >= 1 /\ sender[s].session < session
                    /\ now = [at |-> "data", session |-> sender[s].session + 1, data |-> 0, count |-> 0]
                 \/ \E m \in Message : network' = network \cup {m} /\ Sends(s, m, now)
  <1> DEFINE r == sender[s]
  <1>1. r \in SenderType /\ sender \in [Sender -> SenderType]
    BY DEF TypeOK, SenderType
  <1>2. /\ r.at \in {"off", "data", "end"} /\ r.session \in 0 .. MaxStreams /\ r.data \in 0 .. MaxData
        /\ r.count \in Count /\ r.count \in Nat
        /\ r = [at |-> r.at, session |-> r.session, data |-> r.data, count |-> r.count]
    BY <1>1, ConstantsAre DEF SenderType
  <1>3. /\ r.session <= session
        /\ r.session = 0 => r = [at |-> "off", session |-> 0, data |-> 0, count |-> 0]
        /\ r.session # 0 => r.count = r.data + (IF r.session = 1 THEN 1 ELSE 0) + (IF r.at = "data" THEN 0 ELSE 1)
    BY DEF SenderInv
  <1>4. s \in 1 .. MaxSender /\ session \in 0 .. MaxStreams
    BY SenderIs DEF TypeOK
  <1>a. r = sender[s]
    OBVIOUS
  <1> HIDE DEF r
  <1>5. CASE SenderInit(s)
    <2> DEFINE now == [at |-> "data", session |-> 1, data |-> 0, count |-> 1]
               m == [src |-> s, session |-> 1, kind |-> "Init", n |-> 0]
    <2>1. r.session = 0 /\ session # 0 /\ r = [at |-> "off", session |-> 0, data |-> 0, count |-> 0]
      BY <1>3, <1>5, <1>a DEF SenderInit
    <2>2. sender' = [sender EXCEPT ![s] = [at |-> "data", session |-> 1, data |-> r.data, count |-> 1]]
      BY <1>1, <1>2, <1>5, <1>a DEF SenderInit
    <2>3. sender' = [sender EXCEPT ![s] = now]
      BY <2>1, <2>2
    <2>4. sender'[s] = now
      BY <1>1, <2>3
    <2>5. network' = network \cup {m} /\ UNCHANGED <<cmdVars, countVars, threadVars, cur, shmVars, pauseVars>>
      <3>1. Send(s, "Init", 0)
        BY <1>5, <1>a DEF SenderInit
      <3>2. sender'[s].session = 1
        BY <2>4
      <3>3. QED
        BY <3>1, <3>2 DEF Send
    <2>6. m \in Message /\ now \in SenderType
      BY <1>4, <2>1, ConstantsAre DEF Message, SenderType, Kind, Count
    <2>7. Sends(s, m, now)
      BY <1>a, <2>1 DEF Sends
    <2> HIDE DEF m, now
    <2>8. QED
      BY <2>3, <2>5, <2>6, <2>7
  <1>6. CASE SenderBegin(s)
    <2> DEFINE now == [at |-> "data", session |-> r.session + 1, data |-> 0, count |-> 0]
    <2>1. r.at = "off" /\ r.session \in 1 .. session - 1 /\ network' = network
          /\ UNCHANGED <<cmdVars, countVars, threadVars, cur, shmVars, pauseVars>>
      BY <1>6, <1>a DEF SenderBegin
    <2>2. sender' = [sender EXCEPT ![s] = now]
      BY <1>1, <1>2, <1>6, <1>a DEF SenderBegin
    <2>3. now \in SenderType
      BY <1>2, <1>4, <2>1, ConstantsAre DEF SenderType, Count
    <2>4. r.session >= 1 /\ r.session < session
      BY <1>2, <1>4, <2>1
    <2> HIDE DEF now
    <2>5. QED
      BY <1>a, <2>1, <2>2, <2>3, <2>4 DEF now
  <1>7. CASE SenderSend(s)
    <2> DEFINE now == [at |-> "data", session |-> r.session, data |-> r.data + 1, count |-> r.count + 1]
               m == [src |-> s, session |-> r.session, kind |-> "Data", n |-> r.data + 1]
    <2>1. r.at = "data" /\ r.data < MaxData
      BY <1>7, <1>a DEF SenderSend
    <2>2. sender' = [sender EXCEPT ![s] = [at |-> r.at, session |-> r.session, data |-> r.data + 1, count |-> r.count + 1]]
      BY <1>1, <1>2, <1>7, <1>a DEF SenderSend
    <2>3. sender' = [sender EXCEPT ![s] = now]
      BY <2>1, <2>2
    <2>4. sender'[s] = now
      BY <1>1, <2>3
    <2>5. network' = network \cup {m} /\ UNCHANGED <<cmdVars, countVars, threadVars, cur, shmVars, pauseVars>>
      <3>1. Send(s, "Data", r.data + 1)
        BY <1>7, <1>a DEF SenderSend
      <3>2. sender'[s].session = r.session
        BY <2>4
      <3>3. QED
        BY <3>1, <3>2 DEF Send
    <2>6. r.session \in 1 .. MaxStreams /\ r.count + 1 \in Count /\ r.data + 1 \in 0 .. MaxData /\ r.data + 1 \in Count
      BY <1>2, <1>3, <2>1, ConstantsAre DEF Count
    <2>7. m \in Message /\ now \in SenderType
      BY <1>4, <2>6, ConstantsAre DEF Message, SenderType, Kind
    <2>8. Sends(s, m, now)
      BY <1>a, <2>1 DEF Sends
    <2> HIDE DEF m, now
    <2>9. QED
      BY <2>3, <2>5, <2>7, <2>8
  <1>8. CASE SenderEndSubrun(s)
    <2> DEFINE now == [at |-> "end", session |-> r.session, data |-> r.data, count |-> r.count + 1]
               m == [src |-> s, session |-> r.session, kind |-> "EndOfSubrun", n |-> 0]
    <2>1. r.at = "data"
      BY <1>8, <1>a DEF SenderEndSubrun
    <2>2. sender' = [sender EXCEPT ![s] = now]
      BY <1>1, <1>2, <1>8, <1>a DEF SenderEndSubrun
    <2>3. sender'[s] = now
      BY <1>1, <2>2
    <2>4. network' = network \cup {m} /\ UNCHANGED <<cmdVars, countVars, threadVars, cur, shmVars, pauseVars>>
      <3>1. Send(s, "EndOfSubrun", 0)
        BY <1>8, <1>a DEF SenderEndSubrun
      <3>2. sender'[s].session = r.session
        BY <2>3
      <3>3. QED
        BY <3>1, <3>2 DEF Send
    <2>5. r.session \in 1 .. MaxStreams /\ r.count + 1 \in Count
      BY <1>2, <1>3, <2>1, ConstantsAre DEF Count
    <2>6. m \in Message /\ now \in SenderType
      BY <1>2, <1>4, <2>5, ConstantsAre DEF Message, SenderType, Kind, Count
    <2>7. Sends(s, m, now)
      BY <1>a, <2>1 DEF Sends
    <2> HIDE DEF m, now
    <2>8. QED
      BY <2>2, <2>4, <2>6, <2>7
  <1>9. CASE SenderDisconnect(s)
    <2> DEFINE now == [at |-> "off", session |-> r.session, data |-> r.data, count |-> r.count]
               m == [src |-> s, session |-> r.session, kind |-> "EndOfData", n |-> r.count]
    <2>1. r.at = "end"
      BY <1>9, <1>a DEF SenderDisconnect
    <2>2. sender' = [sender EXCEPT ![s] = now]
      <3>1. sender' = [sender EXCEPT ![s] = [r EXCEPT !.at = "off"]]
        BY <1>1, <1>9, <1>a DEF SenderDisconnect
      <3>2. [r EXCEPT !.at = "off"] = now
        BY <1>2
      <3>3. QED
        BY <3>1, <3>2
    <2>3. sender'[s] = now
      BY <1>1, <2>2
    <2>4. network' = network \cup {m} /\ UNCHANGED <<cmdVars, countVars, threadVars, cur, shmVars, pauseVars>>
      <3>1. Send(s, "EndOfData", r.count)
        BY <1>9, <1>a DEF SenderDisconnect
      <3>2. sender'[s].session = r.session
        BY <2>3
      <3>3. QED
        BY <3>1, <3>2 DEF Send
    <2>5. r.session \in 1 .. MaxStreams
      BY <1>2, <1>3, <2>1, ConstantsAre
    <2>6. m \in Message /\ now \in SenderType
      BY <1>2, <1>4, <2>5, ConstantsAre DEF Message, SenderType, Kind
    <2>7. Sends(s, m, now)
      BY <1>a, <2>1 DEF Sends
    <2> HIDE DEF m, now
    <2>8. QED
      BY <2>2, <2>4, <2>6, <2>7
  <1>10. QED
    BY <1>5, <1>6, <1>7, <1>8, <1>9 DEF SenderStep

-----------------------------------------------------------------------------
(* The process_fragments thread.                                           *)

LEMMA ConcludeIs ==
  ASSUME NEW seen \in ArtType, NEW esr \in BOOLEAN, Conclude(seen, esr)
  PROVE  /\ art' \in ArtType /\ art'.data = seen.data
         /\ esr => art'.end # "open"
         /\ endSubRunMsg' = FALSE /\ pc' = "exit" /\ recvTimeout' = recvTimeout
  <1>1. PICK end \in IF esr THEN {"closed", "lost"} ELSE {seen.end} :
          art' = [seen EXCEPT !.end = end] /\ endSubRunMsg' = FALSE
    BY DEF Conclude, Keep
  <1>2. end \in {"open", "closed", "lost"} /\ (esr => end # "open")
    BY DEF ArtType
  <1>3. art' \in ArtType /\ art'.data = seen.data /\ art'.end = end
    BY <1>1, <1>2 DEF ArtType
  <1>4. QED
    BY <1>1, <1>2, <1>3 DEF Conclude, To

\* Whether the session goes on, and if not why.
LEMMA AccountIs ==
  ASSUME NEW seen \in ArtType, NEW esr \in BOOLEAN, NEW goOn \in BOOLEAN, Account(seen, esr, goOn),
         recvTimeout \in {"inrun", "endrun", "pause"}
  PROVE  /\ art' \in ArtType /\ art'.data = seen.data
         /\ endSubRunMsg' \in BOOLEAN /\ recvTimeout' \in {"inrun", "endrun", "pause"}
         /\ \/ pc' = "recv" /\ goOn /\ art' = seen /\ endSubRunMsg' = esr
            \/ pc' = "exit" /\ ~goOn
            \/ pc' = "exit" /\ AllReceived(esr) /\ art'.end # "open"
  <1>1. CASE AllReceived(esr)
    <2>1. Conclude(seen, esr) /\ esr
      BY <1>1 DEF Account, AllReceived
    <2>2. /\ art' \in ArtType /\ art'.data = seen.data /\ art'.end # "open"
          /\ endSubRunMsg' = FALSE /\ pc' = "exit" /\ recvTimeout' = recvTimeout
      BY <2>1, ConcludeIs
    <2>3. QED
      BY <1>1, <2>2
  <1>2. CASE ~AllReceived(esr)
    <2>1. art' = seen /\ endSubRunMsg' = esr /\ IF goOn THEN NextReceive ELSE To("exit")
      BY <1>2 DEF Account, Keep
    <2>2. QED
      BY <2>1 DEF NextReceive, To
  <1>3. QED
    BY <1>1, <1>2

LEMMA AfterIs ==
  ASSUME NEW seen \in ArtType, NEW esr \in BOOLEAN, NEW goOn \in BOOLEAN, AfterFragment(seen, esr, goOn),
         recvTimeout \in {"inrun", "endrun", "pause"},
         process_fragments \in BOOLEAN, system_pause_requested \in BOOLEAN
  PROVE  /\ art' \in ArtType /\ art'.data = seen.data
         /\ endSubRunMsg' \in BOOLEAN /\ recvTimeout' \in {"inrun", "endrun", "pause"}
         /\ process_fragments' \in BOOLEAN /\ system_pause_requested' \in BOOLEAN
         /\ \/ /\ pc' = "recv" /\ goOn /\ art' = seen /\ endSubRunMsg' = esr
               /\ process_fragments' = process_fragments
            \/ /\ pc' = "join" /\ is_data_logger /\ art' = seen /\ endSubRunMsg' = esr
               /\ process_fragments' = goOn
            \/ pc' = "exit" /\ ~goOn
            \/ pc' = "exit" /\ AllReceived(esr) /\ art'.end # "open"
  <1>1. CASE Account(seen, esr, goOn) /\ UNCHANGED <<process_fragments, system_pause_requested>>
    BY <1>1, AccountIs
  <1>2. CASE FileThreshold /\ process_fragments' = goOn /\ Keep(seen, esr)
    BY <1>2 DEF FileThreshold, Keep, To
  <1>3. QED
    BY <1>1, <1>2 DEF AfterFragment

ThreadType ==
  /\ recvTimeout \in {"inrun", "endrun", "pause"}
  /\ process_fragments \in BOOLEAN /\ system_pause_requested \in BOOLEAN
  /\ endSubRunMsg \in BOOLEAN /\ art_initialized \in BOOLEAN
  /\ cut \in BOOLEAN /\ early \in BOOLEAN
  /\ art \in ArtType
  /\ eodFragmentsReceived \in Nat
  /\ fragments_sent \in [Sender -> Nat]

\* The type of a message does not matter to what is said of every handler.
LEMMA HandleIs ==
  ASSUME ThreadType, NEW m, Handle(m), Sender' = Sender,
         m \in Message \/ (m \in Copied /\ ~is_data_logger)
  PROVE  /\ ThreadType' /\ pc' \in {"recv", "join", "exit"}
         /\ pc' # "exit" => art'.end = art.end
         /\ pc' = "join" => is_data_logger
         /\ process_fragments /\ (pc' = "recv" \/ (pc' = "join" /\ ~(is_data_logger /\ cut'))) => process_fragments'
         /\ cut => cut'
         /\ is_data_logger /\ ~cut' =>
              /\ early => early'
              /\ ~early' =>
                   /\ art'.data = IF m.kind = "Data" THEN art.data \cup {m} ELSE art.data
                   /\ pc' # "exit" => endSubRunMsg' = (endSubRunMsg \/ m.kind = "EndOfSubrun")
              /\ \/ UNCHANGED <<fragments_sent, eodFragmentsReceived>>
                 \/ /\ m.kind = "EndOfData"
                    /\ fragments_sent' = [fragments_sent EXCEPT ![m.src] = m.n + 1]
                    /\ eodFragmentsReceived' = eodFragmentsReceived + 1
              /\ pc' = "exit" => art'.end # "open" /\ \E esr \in BOOLEAN : AllReceived(esr)
  <1> DEFINE more == [art EXCEPT !.data = @ \cup {m}]
  <1>1. /\ more \in ArtType /\ more.data = art.data \cup {m} /\ more.end = art.end
        /\ m.kind \in Kind
    BY DEF ThreadType, ArtType, Message, Copied
  <1>2. /\ art \in ArtType /\ recvTimeout \in {"inrun", "endrun", "pause"}
        /\ process_fragments \in BOOLEAN /\ system_pause_requested \in BOOLEAN
        /\ endSubRunMsg \in BOOLEAN /\ eodFragmentsReceived \in Nat /\ fragments_sent \in [Sender -> Nat]
        /\ art_initialized \in BOOLEAN /\ cut \in BOOLEAN /\ early \in BOOLEAN
    BY DEF ThreadType
  <1> HIDE DEF more
  <1>3. ASSUME NEW seen \in ArtType, NEW esr \in BOOLEAN, NEW goOn \in BOOLEAN, AfterFragment(seen, esr, goOn)
        PROVE  /\ art' \in ArtType /\ art'.data = seen.data
               /\ endSubRunMsg' \in BOOLEAN /\ recvTimeout' \in {"inrun", "endrun", "pause"}
               /\ process_fragments' \in BOOLEAN /\ system_pause_requested' \in BOOLEAN
               /\ \/ /\ pc' = "recv" /\ goOn /\ art' = seen /\ endSubRunMsg' = esr
                     /\ process_fragments' = process_fragments
                  \/ /\ pc' = "join" /\ is_data_logger /\ art' = seen /\ endSubRunMsg' = esr
                     /\ process_fragments' = goOn
                  \/ pc' = "exit" /\ ~goOn
                  \/ pc' = "exit" /\ AllReceived(esr) /\ art'.end # "open"
    BY <1>2, <1>3, AfterIs
  <1>4. CASE HandleInit(m)
    <2>1. /\ m.kind = "Init" /\ art_initialized' = TRUE
          /\ UNCHANGED <<fragments_sent, eodFragmentsReceived, cut, early>>
          /\ AfterFragment(art, endSubRunMsg, TRUE)
      BY <1>4 DEF HandleInit
    <2>2. QED
      BY <1>2, <1>3, <2>1 DEF ThreadType
  <1>5. CASE HandleDropped(m)
    <2>1. /\ early' = (early \/ m.kind # "Init")
          /\ UNCHANGED <<art_initialized, fragments_sent, eodFragmentsReceived, cut>>
          /\ AfterFragment(art, endSubRunMsg, TRUE)
      BY <1>5 DEF HandleDropped
    <2>2. QED
      BY <1>2, <1>3, <2>1 DEF ThreadType
  <1>6. CASE HandleData(m)
    <2>1. /\ m.kind = "Data"
          /\ UNCHANGED <<art_initialized, fragments_sent, eodFragmentsReceived, cut, early>>
          /\ AfterFragment(more, endSubRunMsg, TRUE)
      BY <1>6 DEF HandleData, more
    <2>2. /\ art' \in ArtType /\ art'.data = art.data \cup {m}
          /\ endSubRunMsg' \in BOOLEAN /\ recvTimeout' \in {"inrun", "endrun", "pause"}
          /\ process_fragments' \in BOOLEAN /\ system_pause_requested' \in BOOLEAN
          /\ pc' \in {"recv", "join", "exit"}
          /\ pc' # "exit" => art'.end = art.end /\ endSubRunMsg' = endSubRunMsg
          /\ pc' = "join" => is_data_logger /\ process_fragments'
          /\ pc' = "recv" => process_fragments' = process_fragments
          /\ pc' = "exit" => AllReceived(endSubRunMsg) /\ art'.end # "open"
      BY <1>1, <1>2, <1>3, <2>1
    <2>3. ThreadType'
      BY <1>2, <2>1, <2>2 DEF ThreadType
    <2>4. QED
      BY <1>2, <2>1, <2>2, <2>3
  <1>7. CASE RefuseData(m)
    <2>1. /\ m.kind = "Data" /\ cut' = (cut \/ is_data_logger)
          /\ UNCHANGED <<art_initialized, fragments_sent, eodFragmentsReceived, early>>
      BY <1>7 DEF RefuseData
    <2>2. CASE is_data_logger
      <3>1. AfterFragment(art, endSubRunMsg, FALSE) /\ cut'
        BY <1>7, <2>2 DEF RefuseData
      <3>2. QED
        BY <1>2, <1>3, <2>1, <2>2, <3>1 DEF ThreadType
    <2>3. CASE ~is_data_logger
      <3>1. AfterFragment(art, endSubRunMsg, TRUE) /\ cut' = cut
        BY <1>2, <1>7, <2>1, <2>3 DEF RefuseData
      <3>2. QED
        BY <1>2, <1>3, <2>1, <2>3, <3>1 DEF ThreadType
    <2>4. QED
      BY <2>2, <2>3
  <1>8. CASE HandleEndOfSubrun(m)
    <2>1. /\ m.kind = "EndOfSubrun"
          /\ UNCHANGED <<art_initialized, fragments_sent, eodFragmentsReceived, cut, early>>
          /\ AfterFragment(art, TRUE, TRUE)
      BY <1>8 DEF HandleEndOfSubrun
    <2>2. QED
      BY <1>2, <1>3, <2>1 DEF ThreadType
  <1>9. CASE HandleEndOfData(m)
    <2>1. /\ m.kind = "EndOfData"
          /\ eodFragmentsReceived' = eodFragmentsReceived + 1
          /\ fragments_sent' = IF is_data_logger THEN [fragments_sent EXCEPT ![m.src] = m.n + 1]
                               ELSE fragments_sent
          /\ UNCHANGED <<art_initialized, cut, early>>
          /\ AfterFragment(art, endSubRunMsg, TRUE)
      BY <1>9 DEF HandleEndOfData
    <2>2. fragments_sent' \in [Sender -> Nat]
      <3>1. CASE is_data_logger
        <4>1. m.n + 1 \in Nat
          <5>1. m.n \in Count
            BY <3>1 DEF Message
          <5>2. m.n \in Nat
            BY <5>1, ConstantsAre
          <5>3. QED
            BY <5>2
        <4>2. QED
          BY <1>2, <2>1, <3>1, <4>1
      <3>2. CASE ~is_data_logger
        BY <1>2, <2>1, <3>2
      <3>3. QED
        BY <3>1, <3>2
    <2>3. ThreadType'
      <3>1. /\ art' \in ArtType /\ endSubRunMsg' \in BOOLEAN /\ recvTimeout' \in {"inrun", "endrun", "pause"}
            /\ process_fragments' \in BOOLEAN /\ system_pause_requested' \in BOOLEAN
        BY <1>2, <1>3, <2>1
      <3>2. eodFragmentsReceived' \in Nat
        BY <1>2, <2>1
      <3>3. art_initialized' \in BOOLEAN /\ cut' \in BOOLEAN /\ early' \in BOOLEAN
        BY <1>2, <2>1
      <3>4. QED
        BY <2>2, <3>1, <3>2, <3>3 DEF ThreadType
    <2>4. /\ pc' \in {"recv", "join", "exit"}
          /\ pc' # "exit" => art' = art /\ endSubRunMsg' = endSubRunMsg
          /\ pc' = "join" => is_data_logger /\ process_fragments'
          /\ pc' = "recv" => process_fragments' = process_fragments
          /\ art'.data = art.data
          /\ pc' = "exit" => AllReceived(endSubRunMsg) /\ art'.end # "open"
      BY <1>2, <1>3, <2>1
    <2>5. is_data_logger => fragments_sent' = [fragments_sent EXCEPT ![m.src] = m.n + 1]
      BY <2>1
    <2>6. QED
      BY <1>2, <2>1, <2>3, <2>4, <2>5
  <1>10. QED
    BY <1>4, <1>5, <1>6, <1>7, <1>8, <1>9 DEF Handle

-----------------------------------------------------------------------------
(* The types.                                                              *)

CmdType ==
  /\ is_data_logger \in BOOLEAN /\ true_data_sender_count \in 1 .. MaxSender
  /\ state \in Idle \cup {"stopping", "pausing"}
  /\ stop_requested \in BOOLEAN /\ local_pause_requested \in BOOLEAN
  /\ session \in 0 .. MaxStreams /\ pauser \in {"none", "pause", "waits", "resume"}
PlaceType ==
  /\ pc \in {"none", "enter", "recv", "insert", "join", "exit"}
  /\ cur \in Message \cup {None}
CountType ==
  /\ fragments_received \in [Sender -> Nat] /\ got \in [Sender -> Nat]
  /\ expected \in [Sender -> Nat \cup {-1}]
StreamType == [copied : 0 .. MaxCopies, since : Nat, last : Nat, takes : Nat]
ShmType ==
  /\ key \in Segment \cup {0} /\ shm \in [{"self", "peer"} -> Segment \cup {0}]
  /\ slot \in [Segment -> Copied \cup {None}]
  /\ wasCopied \subseteq {"EndOfSubrun", "EndOfData"}
  /\ stream \in StreamType
NetType == network \subseteq Message /\ sender \in [Sender -> SenderType]

LEMMA TypeParts == TypeOK <=> CmdType /\ PlaceType /\ ThreadType /\ CountType /\ ShmType /\ NetType
  BY DEF TypeOK, CmdType, PlaceType, ThreadType, CountType, ShmType, StreamType, NetType, ArtType, SenderType

LEMMA TypeNext ==
  ASSUME CmdType', PlaceType', ThreadType', CountType', ShmType', NetType'
  PROVE  TypeOK'
  BY DEF TypeOK, CmdType, PlaceType, ThreadType, CountType, ShmType, StreamType, NetType, ArtType, SenderType

LEMMA SameSenders ==
  ASSUME UNCHANGED roleVars
  PROVE  Sender' = Sender
  BY DEF roleVars, Sender

LEMMA AttachIs ==
  ASSUME ShmType, NEW p \in {"self", "peer"}, NEW isLogger \in BOOLEAN, shm[p] = 0, Attach(p, isLogger)
  PROVE  \E g \in Segment :
           /\ key' = g /\ shm' = [shm EXCEPT ![p] = g]
           /\ slot' \in [Segment -> Copied \cup {None}]
           /\ isLogger => stream' = stream /\ (slot' = slot \/ g \notin {shm["self"], shm["peer"]})
           /\ ~isLogger => slot'[g] = None /\ stream' = [stream EXCEPT !.since = stream.copied]
           /\ \A h \in Segment \ {g} : slot'[h] = slot[h]
  <1> DEFINE g == IF key # 0 THEN key ELSE CHOOSE h \in Segment : h \notin {shm["self"], shm["peer"]}
  <1>0. /\ key \in Segment \cup {0} /\ shm["self"] \in Segment \cup {0} /\ shm["peer"] \in Segment \cup {0}
        /\ slot \in [Segment -> Copied \cup {None}]
    BY DEF ShmType
  <1>1. g \in Segment /\ (key = 0 => g \notin {shm["self"], shm["peer"]})
    <2>1. CASE key = 0
      <3>1. 1 \in Segment /\ 2 \in Segment /\ 1 # 2 /\ 0 \notin Segment
        BY DEF Segment
      <3>2. \E h \in Segment : h \notin {shm["self"], shm["peer"]}
        BY <1>0, <3>1
      <3>3. g = CHOOSE h \in Segment : h \notin {shm["self"], shm["peer"]}
        BY <2>1
      <3>4. QED
        BY <3>2, <3>3
    <2>2. CASE key # 0
      BY <1>0, <2>2
    <2>3. QED
      BY <2>1, <2>2
  <1>2. /\ key' = g /\ shm' = [shm EXCEPT ![p] = g]
        /\ slot' = IF isLogger /\ key # 0 THEN slot ELSE [slot EXCEPT ![g] = None]
        /\ stream' = IF isLogger THEN stream ELSE [stream EXCEPT !.since = stream.copied]
    BY DEF Attach
  <1> HIDE DEF g
  <1>3. slot' = slot \/ slot' = [slot EXCEPT ![g] = None]
    BY <1>2
  <1>4. slot' \in [Segment -> Copied \cup {None}] /\ \A h \in Segment \ {g} : slot'[h] = slot[h]
    BY <1>0, <1>1, <1>3
  <1>5. ~isLogger => slot'[g] = None
    BY <1>0, <1>1, <1>2
  <1>6. QED
    BY <1>1, <1>2, <1>4, <1>5

\* The peer touches nothing but the shared memory.
LEMMA PeerType ==
  ASSUME TypeOK, PeerStep
  PROVE  TypeOK' /\ ~is_data_logger
         /\ UNCHANGED <<cmdVars, countVars, threadVars, cur, pauseVars, netVars>>
  <1>0. ShmType
    BY TypeParts
  <1>1. UNCHANGED <<cmdVars, countVars, threadVars, cur, pauseVars, netVars>> /\ ~is_data_logger
    BY DEF PeerStep, PeerAttach, PeerDetach, PeerCopy
  <1>2. ShmType'
    <2>1. CASE PeerAttach
      <3>1. shm["peer"] = 0 /\ Attach("peer", TRUE) /\ wasCopied' = {}
        BY <2>1 DEF PeerAttach
      <3>2. PICK g \in Segment :
              /\ key' = g /\ shm' = [shm EXCEPT !["peer"] = g]
              /\ slot' \in [Segment -> Copied \cup {None}] /\ stream' = stream
        BY <1>0, <3>1, AttachIs
      <3>3. QED
        BY <1>0, <3>1, <3>2 DEF ShmType
    <2>2. CASE PeerDetach
      BY <1>0, <2>2 DEF PeerDetach, Detach, ShmType
    <2>3. ASSUME NEW kind \in Kind, PeerCopy(kind)
          PROVE  ShmType'
      <3>1. /\ stream.copied \in 0 .. MaxCopies /\ stream.copied < MaxCopies
            /\ stream' = [stream EXCEPT !.copied = stream.copied + 1]
            /\ slot' = [slot EXCEPT ![shm["peer"]] = [kind |-> kind, n |-> stream.copied + 1]]
            /\ wasCopied' = wasCopied \cup ({kind} \cap {"EndOfSubrun", "EndOfData"})
            /\ UNCHANGED <<key, shm>>
        BY <1>0, <2>3 DEF PeerCopy, Copy, ShmType, StreamType, Once
      <3>2. stream.copied + 1 \in 0 .. MaxCopies
        BY <3>1, ConstantsAre
      <3>3. [kind |-> kind, n |-> stream.copied + 1] \in Copied
        BY <3>2 DEF Copied
      <3>4. stream' \in StreamType
        BY <1>0, <3>1, <3>2 DEF ShmType, StreamType
      <3>5. slot' \in [Segment -> Copied \cup {None}]
        BY <1>0, <3>1, <3>3 DEF ShmType
      <3>6. QED
        BY <1>0, <3>1, <3>4, <3>5 DEF ShmType
    <2>4. QED
      BY <2>1, <2>2, <2>3 DEF PeerStep
  <1>3. Sender' = Sender
    BY <1>1, SameSenders DEF cmdVars
  <1>4. CmdType' /\ PlaceType' /\ ThreadType' /\ CountType' /\ NetType'
    <2>1. CmdType /\ PlaceType /\ ThreadType /\ CountType /\ NetType
      BY TypeParts
    <2>2. QED
      BY <1>1, <1>3, <2>1 DEF CmdType, PlaceType, ThreadType, CountType, NetType,
        cmdVars, roleVars, countVars, threadVars, pauseVars, netVars
  <1>5. TypeOK'
    BY <1>2, <1>4, TypeNext
  <1>6. QED
    BY <1>1, <1>5

LEMMA SenderTypeStep ==
  ASSUME TypeOK, SenderInv, NEW s \in Sender, SenderStep(s)
  PROVE  TypeOK'
  <1>1. PICK now \in SenderType :
          /\ sender' = [sender EXCEPT ![s] = now]
          /\ network' = network \/ \E m \in Message : network' = network \cup {m}
    BY SenderStepIs
  <1>2. UNCHANGED <<cmdVars, countVars, threadVars, cur, shmVars, pauseVars>>
    BY SenderStepIs
  <1>3. CmdType /\ PlaceType /\ ThreadType /\ CountType /\ ShmType /\ NetType
    BY TypeParts
  <1>4. Sender' = Sender
    BY <1>2, SameSenders DEF cmdVars
  <1>5. NetType'
    BY <1>1, <1>3, <1>4 DEF NetType
  <1>6. CmdType' /\ PlaceType' /\ ThreadType' /\ CountType' /\ ShmType'
    BY <1>2, <1>3, <1>4 DEF CmdType, PlaceType, ThreadType, CountType, ShmType,
      cmdVars, roleVars, countVars, threadVars, pauseVars, shmVars
  <1>7. QED
    BY <1>5, <1>6, TypeNext

LEMMA CommandTypeStep ==
  ASSUME TypeOK, CommandStep
  PROVE  TypeOK'
  <1>1. /\ UNCHANGED <<roleVars, countVars, recvTimeout, process_fragments, endSubRunMsg,
                       eodFragmentsReceived, fragments_sent, art_initialized, art, cut, early, cur,
                       shmVars, netVars>>
        /\ \/ pc' = "enter" /\ session' = session + 1 /\ session + 1 \in 1 .. MaxStreams
           \/ pc' = pc /\ session' = session
        /\ state' \in Idle \cup {"stopping", "pausing"}
        /\ stop_requested' \in BOOLEAN /\ local_pause_requested' \in BOOLEAN
        /\ system_pause_requested' \in BOOLEAN /\ pauser' \in {"none", "pause", "waits", "resume"}
    BY CommandIs
  <1>2. CmdType /\ PlaceType /\ ThreadType /\ CountType /\ ShmType /\ NetType
    BY TypeParts
  <1>3. Sender' = Sender
    BY <1>1, SameSenders
  <1>4. CmdType'
    <2>1. session' \in 0 .. MaxStreams
      BY <1>1, <1>2, ConstantsAre DEF CmdType
    <2>2. QED
      BY <1>1, <1>2, <2>1 DEF CmdType, roleVars
  <1>5. PlaceType'
    <2>1. pc' \in {"none", "enter", "recv", "insert", "join", "exit"}
      BY <1>1, <1>2 DEF PlaceType
    <2>2. QED
      BY <1>1, <1>2, <2>1 DEF PlaceType
  <1>6. ThreadType'
    BY <1>1, <1>2, <1>3 DEF ThreadType
  <1>7. CountType' /\ ShmType' /\ NetType'
    BY <1>1, <1>2, <1>3 DEF CountType, ShmType, NetType, countVars, shmVars, netVars
  <1>8. QED
    BY <1>4, <1>5, <1>6, <1>7, TypeNext

LEMMA OneMore ==
  ASSUME NEW D, NEW f \in [D -> Nat], NEW x
  PROVE  [f EXCEPT ![x] = @ + 1] \in [D -> Nat]
  <1>1. \A d \in D : f[d] \in Nat /\ f[d] + 1 \in Nat
    OBVIOUS
  <1>2. CASE x \in D
    BY <1>1, <1>2
  <1>3. CASE x \notin D
    BY <1>3
  <1>4. QED
    BY <1>2, <1>3

LEMMA ReceiveType ==
  ASSUME TypeOK, NEW m \in network, Receive(m)
  PROVE  /\ m \in Message /\ network' = network \ {m} /\ is_data_logger /\ pc = "recv"
         /\ CountType' /\ Sender' = Sender /\ UNCHANGED <<cmdVars, shmVars, pauser, sender>>
  <1>1. CountType /\ NetType
    BY TypeParts
  <1>2. /\ network' = network \ {m} /\ is_data_logger /\ pc = "recv"
        /\ fragments_received' = [fragments_received EXCEPT ![m.src] = @ + 1]
        /\ \/ expected' = [expected EXCEPT ![m.src] = m.n] /\ UNCHANGED got
           \/ got' = [got EXCEPT ![m.src] = @ + 1] /\ UNCHANGED expected
        /\ UNCHANGED <<cmdVars, shmVars, pauser, sender>>
    BY DEF Receive
  <1>3. m \in Message /\ m.n \in Nat
    <2>1. m \in Message /\ m.n \in Count
      BY <1>1 DEF NetType, Message
    <2>2. QED
      BY <2>1, ConstantsAre
  <1>4. Sender' = Sender
    BY <1>2, SameSenders DEF cmdVars
  <1>5. fragments_received' \in [Sender -> Nat]
    BY <1>1, <1>2, <1>4, OneMore DEF CountType
  <1>6. got' \in [Sender -> Nat] /\ expected' \in [Sender -> Nat \cup {-1}]
    <2>1. CASE expected' = [expected EXCEPT ![m.src] = m.n] /\ UNCHANGED got
      BY <1>1, <1>3, <1>4, <2>1 DEF CountType
    <2>2. CASE got' = [got EXCEPT ![m.src] = @ + 1] /\ UNCHANGED expected
      BY <1>1, <1>4, <2>2, OneMore DEF CountType
    <2>3. QED
      BY <1>2, <2>1, <2>2
  <1>7. QED
    BY <1>2, <1>3, <1>4, <1>5, <1>6 DEF CountType

\* The rest of the types, after a step of the data logger's thread.
LEMMA LoggerTypeNext ==
  ASSUME TypeOK, UNCHANGED <<cmdVars, shmVars, sender>>, pauser' \in {"none", "pause", "waits", "resume"},
         network' \subseteq network, CountType', ThreadType', PlaceType'
  PROVE  TypeOK'
  <1>1. CmdType /\ ShmType /\ NetType
    BY TypeParts
  <1>2. Sender' = Sender
    BY SameSenders DEF cmdVars
  <1>3. CmdType'
    BY <1>1 DEF CmdType, cmdVars, roleVars
  <1>4. ShmType' /\ NetType'
    BY <1>1, <1>2 DEF ShmType, NetType, shmVars
  <1>5. QED
    BY <1>3, <1>4, TypeNext

\* What a step of the data logger's thread does, but for the counts.
LEMMA LoggerType ==
  ASSUME TypeOK, PhaseInv, LoggerStep
  PROVE  /\ TypeOK' /\ is_data_logger /\ UNCHANGED <<cmdVars, shmVars, sender>>
         /\ pc \in Loop /\ pc' \in Loop \cup {"exit"}
         /\ pc' # "exit" => art'.end = art.end
         /\ pc' = "insert" => cur' \in Message /\ cur'.kind = "Data"
         /\ pc' \in Loop /\ ~(pc' = "join" /\ cut') => process_fragments'
         /\ cut => cut'
  <1>0. CmdType /\ PlaceType /\ ThreadType /\ CountType /\ ShmType /\ NetType
    BY TypeParts
  <1>1. ASSUME NEW m \in network, ReceiveAndHandle(m)
        PROVE  /\ TypeOK' /\ is_data_logger /\ UNCHANGED <<cmdVars, shmVars, sender>>
               /\ pc \in Loop /\ pc' \in {"recv", "join", "exit"}
               /\ pc' # "exit" => art'.end = art.end
               /\ pc' \in Loop /\ ~(pc' = "join" /\ cut') => process_fragments'
               /\ cut => cut'
    <2>1. Receive(m) /\ Handle(m) /\ cur' = cur
      BY <1>1 DEF ReceiveAndHandle
    <2>2. /\ m \in Message /\ network' = network \ {m} /\ is_data_logger /\ pc = "recv"
          /\ CountType' /\ Sender' = Sender /\ UNCHANGED <<cmdVars, shmVars, pauser, sender>>
      BY <2>1, ReceiveType
    <2>3. process_fragments
      BY <2>2 DEF PhaseInv, Loop
    <2>4. /\ ThreadType' /\ pc' \in {"recv", "join", "exit"}
          /\ pc' # "exit" => art'.end = art.end
          /\ (pc' = "recv" \/ (pc' = "join" /\ ~(is_data_logger /\ cut'))) => process_fragments'
          /\ cut => cut'
      BY <1>0, <2>1, <2>2, <2>3, HandleIs
    <2>5. PlaceType'
      BY <1>0, <2>1, <2>4 DEF PlaceType
    <2>6. TypeOK'
      BY <1>0, <2>2, <2>4, <2>5, LoggerTypeNext DEF CmdType
    <2>7. QED
      BY <2>2, <2>4, <2>6 DEF Loop
  <1>2. ASSUME NEW m \in network, ReceiveAndOffer(m)
        PROVE  /\ TypeOK' /\ is_data_logger /\ UNCHANGED <<cmdVars, shmVars, sender>>
               /\ pc \in Loop /\ pc' = "insert" /\ art' = art /\ cur' \in Message /\ cur'.kind = "Data"
               /\ process_fragments' /\ cut' = cut
    <2>1. /\ Receive(m) /\ m.kind = "Data" /\ cur' = m /\ pc' = "insert" /\ recvTimeout' = recvTimeout
          /\ UNCHANGED <<process_fragments, endSubRunMsg, eodFragmentsReceived, fragments_sent,
                         art_initialized, art, cut, early, system_pause_requested>>
      BY <1>2 DEF ReceiveAndOffer, To
    <2>2. /\ m \in Message /\ network' = network \ {m} /\ is_data_logger /\ pc = "recv"
          /\ CountType' /\ Sender' = Sender /\ UNCHANGED <<cmdVars, shmVars, pauser, sender>>
      BY <2>1, ReceiveType
    <2>3. process_fragments
      BY <2>2 DEF PhaseInv, Loop
    <2>4. ThreadType' /\ PlaceType'
      BY <1>0, <2>1, <2>2 DEF ThreadType, PlaceType
    <2>5. TypeOK'
      BY <1>0, <2>2, <2>4, LoggerTypeNext DEF CmdType
    <2>6. QED
      BY <2>1, <2>2, <2>3, <2>5 DEF Loop
  <1>3. ASSUME InsertAgain \/ InsertGivenUp
        PROVE  /\ TypeOK' /\ is_data_logger /\ UNCHANGED <<cmdVars, shmVars, sender>>
               /\ pc \in Loop /\ pc' \in {"recv", "join", "exit"}
               /\ pc' # "exit" => art'.end = art.end
               /\ pc' \in Loop /\ ~(pc' = "join" /\ cut') => process_fragments'
               /\ cut => cut'
    <2>1. /\ pc = "insert" /\ Handle(cur) /\ cur' = None
          /\ UNCHANGED <<cmdVars, countVars, shmVars, pauser, netVars>>
      BY <1>3 DEF InsertAgain, InsertGivenUp, Offered, Handle
    <2>2. is_data_logger /\ cur \in Message /\ process_fragments
      BY <2>1 DEF PhaseInv, Loop
    <2>3. Sender' = Sender
      BY <2>1, SameSenders DEF cmdVars
    <2>4. /\ ThreadType' /\ pc' \in {"recv", "join", "exit"}
          /\ pc' # "exit" => art'.end = art.end
          /\ (pc' = "recv" \/ (pc' = "join" /\ ~(is_data_logger /\ cut'))) => process_fragments'
          /\ cut => cut'
      BY <1>0, <2>1, <2>2, <2>3, HandleIs
    <2>5. PlaceType' /\ CountType'
      BY <1>0, <2>1, <2>3, <2>4 DEF PlaceType, CountType, countVars
    <2>6. TypeOK'
      <3>1. network' \subseteq network /\ sender' = sender /\ pauser' = pauser
        BY <2>1 DEF netVars
      <3>2. QED
        BY <1>0, <2>1, <2>4, <2>5, <3>1, LoggerTypeNext DEF CmdType
    <2>7. sender' = sender
      BY <2>1 DEF netVars
    <2>8. QED
      BY <2>1, <2>2, <2>4, <2>6, <2>7 DEF Loop
  <1>4. ASSUME StartPauser
        PROVE  /\ TypeOK' /\ is_data_logger /\ UNCHANGED <<cmdVars, shmVars, sender>>
               /\ pc \in Loop /\ pc' \in {"recv", "exit"}
               /\ pc' # "exit" => art'.end = art.end
               /\ pc' = "recv" => process_fragments'
               /\ cut' = cut
    <2>1. /\ pc = "join" /\ pauser' = "pause" /\ Account(art, endSubRunMsg, process_fragments)
          /\ UNCHANGED <<cmdVars, countVars, process_fragments, eodFragmentsReceived, fragments_sent,
                         art_initialized, cut, early, cur, shmVars, system_pause_requested, network, sender>>
      BY <1>4 DEF StartPauser, netVars
    <2>2. is_data_logger /\ Sender' = Sender
      BY <2>1, SameSenders DEF PhaseInv, cmdVars
    <2>3. /\ art' \in ArtType /\ endSubRunMsg' \in BOOLEAN /\ recvTimeout' \in {"inrun", "endrun", "pause"}
          /\ \/ pc' = "recv" /\ process_fragments /\ art' = art
             \/ pc' = "exit"
      BY <1>0, <2>1, AccountIs DEF ThreadType
    <2>4. ThreadType' /\ PlaceType' /\ CountType'
      <3>1. ThreadType'
        BY <1>0, <2>1, <2>2, <2>3 DEF ThreadType
      <3>2. PlaceType'
        BY <1>0, <2>1, <2>3 DEF PlaceType
      <3>3. CountType'
        BY <1>0, <2>1, <2>2 DEF CountType, countVars
      <3>4. QED
        BY <3>1, <3>2, <3>3
    <2>5. TypeOK'
      BY <2>1, <2>4, LoggerTypeNext
    <2>6. QED
      BY <2>1, <2>2, <2>3, <2>5 DEF Loop
  <1>5. ASSUME ReceiveNothing
        PROVE  /\ TypeOK' /\ is_data_logger /\ UNCHANGED <<cmdVars, shmVars, sender>>
               /\ pc \in Loop /\ pc' = "exit" /\ cut' = cut
    <2>1. /\ pc = "recv" /\ is_data_logger /\ Conclude(art, endSubRunMsg)
          /\ UNCHANGED <<cmdVars, countVars, process_fragments, eodFragmentsReceived, fragments_sent,
                         art_initialized, cut, early, cur, shmVars, pauseVars, netVars>>
      BY <1>5 DEF ReceiveNothing
    <2>2. Sender' = Sender
      BY <2>1, SameSenders DEF cmdVars
    <2>3. art' \in ArtType /\ endSubRunMsg' = FALSE /\ pc' = "exit" /\ recvTimeout' = recvTimeout
      BY <1>0, <2>1, ConcludeIs DEF ThreadType
    <2>4. ThreadType' /\ PlaceType' /\ CountType'
      <3>1. ThreadType'
        BY <1>0, <2>1, <2>2, <2>3 DEF ThreadType, pauseVars
      <3>2. PlaceType' /\ CountType'
        BY <1>0, <2>1, <2>2, <2>3 DEF PlaceType, CountType, countVars
      <3>3. QED
        BY <3>1, <3>2
    <2>5. network' = network /\ sender' = sender /\ pauser' = pauser
      BY <2>1 DEF netVars, pauseVars
    <2>6. TypeOK'
      BY <1>0, <2>1, <2>4, <2>5, LoggerTypeNext DEF CmdType
    <2>7. QED
      BY <2>1, <2>3, <2>5, <2>6 DEF Loop
  <1>6. QED
    <2>1. CASE \E m \in network : ReceiveAndHandle(m)
      BY <1>1, <2>1 DEF Loop
    <2>2. CASE \E m \in network : ReceiveAndOffer(m)
      BY <1>2, <2>2 DEF Loop
    <2>3. CASE InsertAgain \/ InsertGivenUp
      BY <1>3, <2>3 DEF Loop
    <2>4. CASE StartPauser
      BY <1>4, <2>4 DEF Loop
    <2>5. CASE ReceiveNothing
      BY <1>5, <2>5 DEF Loop
    <2>6. QED
      BY <2>1, <2>2, <2>3, <2>4, <2>5 DEF LoggerStep

LEMMA EnterIs ==
  ASSUME TypeOK, PhaseInv, Enter
  PROVE  /\ TypeOK' /\ pc = "enter" /\ pc' = "recv" /\ art' = Nothing /\ endSubRunMsg' = FALSE /\ early' = FALSE
         /\ UNCHANGED <<cmdVars, countVars, process_fragments, eodFragmentsReceived, fragments_sent,
                        art_initialized, cut, cur, wasCopied, pauseVars, netVars>>
         /\ shm'["self"] # 0
         /\ is_data_logger => stream' = stream
         /\ ~is_data_logger => /\ slot'[shm'["self"]] = None
                               /\ stream' = [stream EXCEPT !.since = stream.copied]
  <1>0. CmdType /\ PlaceType /\ ThreadType /\ CountType /\ ShmType /\ NetType
    BY TypeParts
  <1>1. /\ pc = "enter" /\ pc' = "recv" /\ art' = Nothing /\ endSubRunMsg' = FALSE /\ early' = FALSE
        /\ recvTimeout' \in {"inrun", "endrun", "pause"}
        /\ Attach("self", is_data_logger)
        /\ UNCHANGED <<cmdVars, countVars, process_fragments, eodFragmentsReceived, fragments_sent,
                       art_initialized, cut, cur, wasCopied, pauseVars, netVars>>
    BY DEF Enter, NextReceive, Keep
  <1>2. shm["self"] = 0 /\ is_data_logger \in BOOLEAN
    BY <1>0, <1>1 DEF PhaseInv, Loop, CmdType
  <1>3. PICK g \in Segment :
          /\ key' = g /\ shm' = [shm EXCEPT !["self"] = g]
          /\ slot' \in [Segment -> Copied \cup {None}]
          /\ is_data_logger => stream' = stream
          /\ ~is_data_logger => slot'[g] = None /\ stream' = [stream EXCEPT !.since = stream.copied]
    BY <1>0, <1>1, <1>2, AttachIs
  <1>4. shm'["self"] = g /\ g # 0
    BY <1>0, <1>3 DEF ShmType, Segment
  <1>5. Sender' = Sender
    BY <1>1, SameSenders DEF cmdVars
  <1>6. stream' \in StreamType
    <2>1. stream \in StreamType /\ stream.copied \in Nat
      BY <1>0, ConstantsAre DEF ShmType, StreamType
    <2>2. QED
      BY <1>2, <1>3, <2>1 DEF StreamType
  <1>7. ShmType'
    <2>1. shm' \in [{"self", "peer"} -> Segment \cup {0}]
      BY <1>0, <1>3 DEF ShmType
    <2>2. QED
      BY <1>0, <1>1, <1>3, <1>6, <2>1 DEF ShmType
  <1>8. ThreadType'
    <2>1. Nothing \in ArtType
      BY DEF Nothing, ArtType
    <2>2. process_fragments' = process_fragments /\ eodFragmentsReceived' = eodFragmentsReceived
          /\ fragments_sent' = fragments_sent /\ art_initialized' = art_initialized /\ cut' = cut
          /\ system_pause_requested' = system_pause_requested
      BY <1>1 DEF pauseVars
    <2>3. art' \in ArtType /\ endSubRunMsg' \in BOOLEAN /\ early' \in BOOLEAN
      BY <1>1, <2>1
    <2>4. QED
      BY <1>0, <1>1, <1>5, <2>2, <2>3 DEF ThreadType
  <1>9. CmdType' /\ PlaceType' /\ CountType' /\ NetType'
    BY <1>0, <1>1, <1>5 DEF CmdType, PlaceType, CountType, NetType, cmdVars, roleVars, countVars, pauseVars, netVars
  <1>10. TypeOK'
    BY <1>7, <1>8, <1>9, TypeNext
  <1>11. QED
    BY <1>1, <1>3, <1>4, <1>10

LEMMA TimeoutIs ==
  ASSUME TypeOK, Timeout
  PROVE  /\ TypeOK' /\ pc = "recv"
         /\ \/ pc' = "recv" /\ UNCHANGED <<art, endSubRunMsg, cut>>
            \/ pc' = "exit" /\ cut' = (cut \/ is_data_logger)
         /\ UNCHANGED <<cmdVars, countVars, process_fragments, eodFragmentsReceived, fragments_sent,
                        art_initialized, early, cur, shmVars, pauseVars, netVars>>
  <1>0. CmdType /\ PlaceType /\ ThreadType /\ CountType /\ ShmType /\ NetType
    BY TypeParts
  <1>1. /\ pc = "recv"
        /\ \/ Conclude(art, endSubRunMsg) /\ cut' = (cut \/ is_data_logger)
           \/ NextReceive /\ UNCHANGED <<art, endSubRunMsg, cut>>
        /\ UNCHANGED <<cmdVars, countVars, process_fragments, eodFragmentsReceived, fragments_sent,
                       art_initialized, early, cur, shmVars, pauseVars, netVars>>
    BY DEF Timeout
  <1>2. \/ /\ pc' = "recv" /\ UNCHANGED <<art, endSubRunMsg, cut>>
           /\ recvTimeout' \in {"inrun", "endrun", "pause"}
        \/ /\ pc' = "exit" /\ cut' = (cut \/ is_data_logger) /\ recvTimeout' = recvTimeout
           /\ art' \in ArtType /\ endSubRunMsg' = FALSE
    <2>1. CASE Conclude(art, endSubRunMsg) /\ cut' = (cut \/ is_data_logger)
      BY <1>0, <2>1, ConcludeIs DEF ThreadType
    <2>2. CASE NextReceive /\ UNCHANGED <<art, endSubRunMsg, cut>>
      BY <2>2 DEF NextReceive
    <2>3. QED
      BY <1>1, <2>1, <2>2
  <1>3. Sender' = Sender
    BY <1>1, SameSenders DEF cmdVars
  <1>4. ThreadType'
    <2>1. process_fragments' = process_fragments /\ eodFragmentsReceived' = eodFragmentsReceived
          /\ fragments_sent' = fragments_sent /\ art_initialized' = art_initialized /\ early' = early
          /\ system_pause_requested' = system_pause_requested
      BY <1>1 DEF pauseVars
    <2>2. /\ art' \in ArtType /\ endSubRunMsg' \in BOOLEAN /\ recvTimeout' \in {"inrun", "endrun", "pause"}
      BY <1>0, <1>2 DEF ThreadType
    <2>3. cut' \in BOOLEAN
      BY <1>0, <1>2 DEF ThreadType
    <2>4. QED
      BY <1>0, <1>3, <2>1, <2>2, <2>3 DEF ThreadType
  <1>5. PlaceType'
    BY <1>0, <1>1, <1>2 DEF PlaceType
  <1>6. CmdType' /\ CountType' /\ ShmType' /\ NetType'
    BY <1>0, <1>1, <1>3 DEF CmdType, CountType, ShmType, NetType, cmdVars, roleVars, countVars, shmVars, pauseVars, netVars
  <1>7. TypeOK'
    BY <1>4, <1>5, <1>6, TypeNext
  <1>8. QED
    BY <1>1, <1>2, <1>7

LEMMA ExitIs ==
  ASSUME TypeOK, Exit
  PROVE  /\ TypeOK' /\ pc = "exit" /\ pc' = "none" /\ process_fragments' = TRUE
         /\ endSubRunMsg' = FALSE /\ eodFragmentsReceived' = 0
         /\ fragments_received' = Zero /\ fragments_sent' = Zero /\ got' = Zero /\ expected' = Unknown
         /\ network' \subseteq network /\ shm'["self"] = 0
         /\ UNCHANGED <<cmdVars, art, art_initialized, cut, early, cur, pauseVars, sender, slot, stream>>
  <1>0. CmdType /\ PlaceType /\ ThreadType /\ CountType /\ ShmType /\ NetType
    BY TypeParts
  <1>1. /\ pc = "exit" /\ pc' = "none" /\ process_fragments' = TRUE /\ recvTimeout' = "inrun"
        /\ endSubRunMsg' = FALSE /\ eodFragmentsReceived' = 0
        /\ fragments_received' = Zero /\ fragments_sent' = Zero /\ got' = Zero /\ expected' = Unknown
        /\ network' \subseteq network
        /\ UNCHANGED <<cmdVars, art, art_initialized, cut, early, cur, pauseVars, sender>>
    BY DEF Exit
  <1>2. /\ shm' = [shm EXCEPT !["self"] = 0] /\ key' = IF is_data_logger THEN key ELSE 0
        /\ UNCHANGED <<slot, wasCopied, stream>>
    BY DEF Exit, Detach
  <1>3. Sender' = Sender
    BY <1>1, SameSenders DEF cmdVars
  <1>4. Zero \in [Sender -> Nat] /\ Unknown \in [Sender -> Nat \cup {-1}]
    BY DEF Zero, Unknown
  <1>5. ShmType' /\ shm'["self"] = 0
    BY <1>0, <1>2 DEF ShmType
  <1>6. ThreadType'
    <2>1. art' = art /\ art_initialized' = art_initialized /\ cut' = cut /\ early' = early
          /\ system_pause_requested' = system_pause_requested
      BY <1>1 DEF pauseVars
    <2>2. /\ endSubRunMsg' \in BOOLEAN /\ process_fragments' \in BOOLEAN /\ eodFragmentsReceived' \in Nat
          /\ recvTimeout' \in {"inrun", "endrun", "pause"}
      BY <1>1
    <2>3. fragments_sent' \in [Sender -> Nat]
      BY <1>1, <1>4
    <2>4. QED
      BY <1>0, <1>3, <2>1, <2>2, <2>3 DEF ThreadType
  <1>7. CmdType' /\ PlaceType' /\ NetType'
    BY <1>0, <1>1, <1>3 DEF CmdType, PlaceType, NetType, cmdVars, roleVars, pauseVars
  <1>8. CountType'
    BY <1>1, <1>3, <1>4 DEF CountType
  <1>9. TypeOK'
    BY <1>5, <1>6, <1>7, <1>8, TypeNext
  <1>10. QED
    BY <1>1, <1>2, <1>5, <1>9

LEMMA TakeIs ==
  ASSUME TypeOK, PhaseInv, Take
  PROVE  /\ TypeOK' /\ ~is_data_logger /\ pc = "recv" /\ pc' \in {"recv", "exit"}
         /\ pc' # "exit" => art'.end = art.end
         /\ pc' = "recv" => process_fragments'
         /\ shm["self"] \in Segment /\ slot[shm["self"]] \in Copied
         /\ slot' = [slot EXCEPT ![shm["self"]] = None]
         /\ stream' = [stream EXCEPT !.last = slot[shm["self"]].n, !.takes = @ + 1]
         /\ UNCHANGED <<cmdVars, countVars, key, shm, wasCopied, cur, pauser, netVars>>
  <1>0. CmdType /\ PlaceType /\ ThreadType /\ CountType /\ ShmType /\ NetType
    BY TypeParts
  <1> DEFINE g == shm["self"]
             m == slot[g]
  <1>1. /\ ~is_data_logger /\ pc = "recv" /\ m # None
        /\ slot' = [slot EXCEPT ![g] = None]
        /\ stream' = [stream EXCEPT !.last = m.n, !.takes = @ + 1]
        /\ UNCHANGED <<cmdVars, countVars, key, shm, wasCopied, cur, pauser, netVars>>
        /\ Handle(m)
    BY DEF Take, Free
  <1>2. g \in Segment
    BY <1>0, <1>1 DEF PhaseInv, Loop, ShmType
  <1>3. m \in Copied /\ m.n \in Nat
    BY <1>0, <1>1, <1>2, ConstantsAre DEF ShmType, Copied
  <1>4. Sender' = Sender
    BY <1>1, SameSenders DEF cmdVars
  <1>5. process_fragments
    BY <1>1 DEF PhaseInv, Loop
  <1>a. g = shm["self"] /\ m = slot[shm["self"]]
    OBVIOUS
  <1> HIDE DEF g, m
  <1>6. /\ ThreadType' /\ pc' \in {"recv", "exit"}
        /\ pc' # "exit" => art'.end = art.end
        /\ pc' = "recv" => process_fragments'
    BY <1>0, <1>1, <1>3, <1>4, <1>5, HandleIs
  <1>7. ShmType'
    <2>1. slot' \in [Segment -> Copied \cup {None}]
      BY <1>0, <1>1 DEF ShmType
    <2>2. stream' \in StreamType
      <3>1. stream \in StreamType
        BY <1>0 DEF ShmType
      <3>2. /\ stream.copied \in 0 .. MaxCopies /\ stream.since \in Nat /\ stream.takes + 1 \in Nat
            /\ stream = [copied |-> stream.copied, since |-> stream.since, last |-> stream.last,
                         takes |-> stream.takes]
        BY <3>1 DEF StreamType
      <3>3. stream' = [copied |-> stream.copied, since |-> stream.since, last |-> m.n,
                       takes |-> stream.takes + 1]
        BY <1>1, <3>2
      <3>4. QED
        BY <1>3, <3>2, <3>3 DEF StreamType
    <2>3. QED
      BY <1>0, <1>1, <2>1, <2>2 DEF ShmType
  <1>8. CmdType' /\ PlaceType' /\ CountType' /\ NetType'
    <2>1. PlaceType'
      BY <1>0, <1>1, <1>6 DEF PlaceType
    <2>2. CmdType' /\ CountType' /\ NetType'
      BY <1>0, <1>1, <1>4 DEF CmdType, CountType, NetType, cmdVars, roleVars, countVars, netVars
    <2>3. QED
      BY <2>1, <2>2
  <1>9. TypeOK'
    BY <1>6, <1>7, <1>8, TypeNext
  <1>10. QED
    BY <1>1, <1>2, <1>3, <1>6, <1>9, <1>a

-----------------------------------------------------------------------------
(* The phases of the process_fragments thread.                             *)

LEMMA SameZero ==
  ASSUME Sender' = Sender
  PROVE  Zero' = Zero /\ Unknown' = Unknown
  BY DEF Zero, Unknown

LEMMA StreamIs ==
  ASSUME TypeOK
  PROVE  /\ stream.copied \in Nat /\ stream.since \in Nat /\ stream.last \in Nat /\ stream.takes \in Nat
         /\ stream.copied <= MaxCopies
         /\ stream = [copied |-> stream.copied, since |-> stream.since, last |-> stream.last,
                      takes |-> stream.takes]
  BY ConstantsAre DEF TypeOK

\* A fragment in the segment of the online monitor was copied after it attached.
LEMMA PeerSlot ==
  ASSUME TypeOK, SlotInv, PeerStep
  PROVE  /\ shm'["self"] = shm["self"] /\ SlotInv'
         /\ \/ stream' = stream
            \/ stream' = [copied |-> stream.copied + 1, since |-> stream.since, last |-> stream.last,
                          takes |-> stream.takes]
  <1>0. /\ ShmType /\ shm \in [{"self", "peer"} -> Segment \cup {0}]
        /\ slot \in [Segment -> Copied \cup {None}]
    BY TypeParts DEF ShmType
  <1>1. is_data_logger' = is_data_logger /\ ~is_data_logger
    BY PeerType DEF cmdVars, roleVars
  <1> DEFINE me == shm["self"]
  <1>2. me \in Segment \cup {0} /\ shm["peer"] \in Segment \cup {0} /\ 0 \notin Segment
    BY <1>0 DEF Segment
  <1>3. /\ stream.since <= stream.copied /\ stream.last <= stream.copied
        /\ me # 0 /\ slot[me] # None =>
             stream.since < slot[me].n /\ stream.last < slot[me].n /\ slot[me].n <= stream.copied
    BY <1>1 DEF SlotInv
  <1>4. CASE PeerAttach
    <2>1. shm["peer"] = 0 /\ Attach("peer", TRUE)
      BY <1>4 DEF PeerAttach
    <2>2. PICK g \in Segment :
            /\ shm' = [shm EXCEPT !["peer"] = g] /\ stream' = stream
            /\ slot' = slot \/ g \notin {shm["self"], shm["peer"]}
            /\ \A h \in Segment \ {g} : slot'[h] = slot[h]
      BY <1>0, <2>1, AttachIs
    <2>3. shm'["self"] = me
      BY <1>0, <2>2
    <2>4. me # 0 => slot'[me] = slot[me]
      BY <1>2, <2>2
    <2>5. SlotInv'
      BY <1>1, <1>3, <2>2, <2>3, <2>4 DEF SlotInv
    <2>6. QED
      BY <2>2, <2>3, <2>5
  <1>5. CASE PeerDetach
    <2>1. shm' = [shm EXCEPT !["peer"] = 0] /\ slot' = slot /\ stream' = stream
      BY <1>5 DEF PeerDetach, Detach
    <2>2. shm'["self"] = me
      BY <1>0, <2>1
    <2>3. SlotInv'
      BY <1>1, <1>3, <2>1, <2>2 DEF SlotInv
    <2>4. QED
      BY <2>1, <2>2, <2>3
  <1>6. ASSUME NEW kind \in Kind, PeerCopy(kind)
        PROVE  /\ shm'["self"] = shm["self"] /\ SlotInv'
               /\ stream' = [copied |-> stream.copied + 1, since |-> stream.since, last |-> stream.last,
                             takes |-> stream.takes]
    <2>1. /\ stream' = [stream EXCEPT !.copied = stream.copied + 1] /\ shm' = shm
          /\ slot' = [slot EXCEPT ![shm["peer"]] = [kind |-> kind, n |-> stream.copied + 1]]
      BY <1>6, StreamIs DEF PeerCopy, Copy
    <2>2. stream' = [copied |-> stream.copied + 1, since |-> stream.since, last |-> stream.last,
                     takes |-> stream.takes]
      BY <2>1, StreamIs
    <2>3. /\ stream'.copied = stream.copied + 1 /\ stream'.since = stream.since /\ stream'.last = stream.last
      BY <2>2
    <2>4. me # 0 => \/ slot'[me] = slot[me]
                    \/ slot'[me] = [kind |-> kind, n |-> stream.copied + 1]
      BY <1>0, <1>2, <2>1
    <2>5. me # 0 /\ slot'[me] # None =>
            stream.since < slot'[me].n /\ stream.last < slot'[me].n /\ slot'[me].n <= stream.copied + 1
      <3>1. me # 0 /\ slot[me] # None => slot[me].n \in Nat
        <4>1. me # 0 /\ slot[me] # None => slot[me] \in Copied
          BY <1>0, <1>2
        <4>2. QED
          BY <4>1, ConstantsAre DEF Copied
      <3>2. CASE me # 0 /\ slot'[me] = slot[me]
        BY <1>3, <3>1, <3>2, StreamIs
      <3>3. CASE me # 0 /\ slot'[me] = [kind |-> kind, n |-> stream.copied + 1]
        <4>1. slot'[me].n = stream.copied + 1
          BY <3>3
        <4>2. QED
          BY <1>3, <4>1, StreamIs
      <3>4. QED
        BY <2>4, <3>2, <3>3
    <2>6. SlotInv'
      <3>1. stream.since <= stream.copied + 1 /\ stream.last <= stream.copied + 1
        BY <1>3, StreamIs
      <3>2. QED
        BY <2>1, <2>3, <2>5, <3>1 DEF SlotInv
    <2>7. QED
      BY <2>1, <2>2, <2>6
  <1>7. QED
    BY <1>4, <1>5, <1>6 DEF PeerStep

LEMMA SlotStep ==
  ASSUME TypeOK, PhaseInv, SenderInv, SlotInv, [Next]_vars
  PROVE  SlotInv'
  <1>a. stream.copied \in Nat /\ stream.since \in Nat /\ stream.last \in Nat
    BY StreamIs
  <1>1. ASSUME UNCHANGED <<is_data_logger, shm, slot, stream>>
        PROVE  SlotInv'
    BY <1>1 DEF SlotInv
  <1>2. ASSUME NEW s \in Sender, SenderStep(s)
        PROVE  SlotInv'
    BY <1>1, <1>2, SenderStepIs DEF cmdVars, roleVars, shmVars
  <1>3. CASE PeerStep
    BY <1>3, PeerSlot
  <1>4. CASE CommandStep
    BY <1>1, <1>4, CommandIs DEF roleVars, shmVars
  <1>5. CASE LoggerStep
    BY <1>1, <1>5, LoggerType DEF cmdVars, roleVars, shmVars
  <1>6. CASE Enter
    <2>1. /\ is_data_logger' = is_data_logger
          /\ is_data_logger => stream' = stream
          /\ ~is_data_logger => slot'[shm'["self"]] = None /\ stream' = [stream EXCEPT !.since = stream.copied]
      BY <1>6, EnterIs DEF cmdVars, roleVars
    <2>2. CASE is_data_logger
      BY <2>1, <2>2 DEF SlotInv
    <2>3. CASE ~is_data_logger
      <3>1. stream' = [copied |-> stream.copied, since |-> stream.copied, last |-> stream.last,
                       takes |-> stream.takes]
        BY <2>1, <2>3, StreamIs
      <3>2. stream'.copied = stream.copied /\ stream'.since = stream.copied /\ stream'.last = stream.last
        BY <3>1
      <3>3. QED
        BY <1>a, <2>1, <2>3, <3>2 DEF SlotInv
    <2>4. QED
      BY <2>2, <2>3
  <1>7. CASE Timeout
    BY <1>1, <1>7, TimeoutIs DEF cmdVars, roleVars, shmVars
  <1>8. CASE Exit
    <2>1. shm'["self"] = 0 /\ stream' = stream
      BY <1>8, ExitIs
    <2>2. QED
      BY <2>1 DEF SlotInv
  <1>9. CASE Take
    <2> DEFINE g == shm["self"]
               n == slot[g].n
    <2>1. /\ ~is_data_logger /\ g \in Segment /\ slot[g] \in Copied
          /\ slot' = [slot EXCEPT ![g] = None] /\ shm' = shm
          /\ stream' = [stream EXCEPT !.last = n, !.takes = @ + 1]
      BY <1>9, TakeIs
    <2>2. slot \in [Segment -> Copied \cup {None}] /\ g # 0 /\ slot[g] # None
      <3>1. None \notin Copied
        BY DEF None, Copied
      <3>2. QED
        BY <2>1, <3>1 DEF TypeOK, Segment
    <2>3. n <= stream.copied
      BY <2>1, <2>2 DEF SlotInv
    <2>4. slot'[shm'["self"]] = None
      BY <2>1, <2>2
    <2>5. stream' = [copied |-> stream.copied, since |-> stream.since, last |-> n,
                     takes |-> stream.takes + 1]
      BY <2>1, StreamIs
    <2>6. stream'.copied = stream.copied /\ stream'.since = stream.since /\ stream'.last = n
      BY <2>5
    <2> HIDE DEF n, g
    <2>7. QED
      BY <2>3, <2>4, <2>6 DEF SlotInv
  <1>10. QED
    BY <1>2, <1>3, <1>4, <1>5, <1>6, <1>7, <1>8, <1>9, Steps

LEMMA PhaseStep ==
  ASSUME TypeOK, PhaseInv, SenderInv, SlotInv, [Next]_vars
  PROVE  PhaseInv'
  <1>1. ASSUME UNCHANGED <<cmdVars, countVars, threadVars, cur>>, shm'["self"] = shm["self"]
        PROVE  PhaseInv'
    <2>1. Zero' = Zero /\ Unknown' = Unknown
      BY <1>1, SameSenders, SameZero DEF cmdVars
    <2>2. QED
      BY <1>1, <2>1 DEF PhaseInv, cmdVars, roleVars, countVars, threadVars
  <1>2. ASSUME NEW s \in Sender, SenderStep(s)
        PROVE  PhaseInv'
    BY <1>1, <1>2, SenderStepIs DEF shmVars
  <1>3. CASE PeerStep
    BY <1>1, <1>3, PeerSlot, PeerType
  <1>4. CASE CommandStep
    <2>1. /\ UNCHANGED <<roleVars, countVars, process_fragments, endSubRunMsg, eodFragmentsReceived,
                         fragments_sent, art, cut, cur, shm>>
          /\ \/ /\ state \in {"Ready", "Paused"} /\ state' = "Running" /\ pc' = "enter"
                /\ session' = session + 1 /\ session + 1 \in 1 .. MaxStreams
             \/ /\ pc' = pc /\ session' = session
                /\ state' \in {"Ready", "Paused"} => state \in {"Ready", "Paused"} \/ pc = "none"
      BY <1>4, CommandIs DEF shmVars
    <2>2. Zero' = Zero /\ Unknown' = Unknown
      BY <2>1, SameSenders, SameZero
    <2>3. CASE /\ state \in {"Ready", "Paused"} /\ state' = "Running" /\ pc' = "enter"
               /\ session' = session + 1 /\ session + 1 \in 1 .. MaxStreams
      <3>1. pc = "none"
        BY <2>3 DEF PhaseInv
      <3>2. session' >= 1
        BY <2>3, ConstantsAre
      <3>3. QED
        BY <2>1, <2>2, <2>3, <3>1, <3>2 DEF PhaseInv, roleVars, countVars, Loop
    <2>4. CASE /\ pc' = pc /\ session' = session
               /\ state' \in {"Ready", "Paused"} => state \in {"Ready", "Paused"} \/ pc = "none"
      BY <2>1, <2>2, <2>4 DEF PhaseInv, roleVars, countVars, Loop
    <2>5. QED
      BY <2>1, <2>3, <2>4
  <1>5. CASE LoggerStep
    <2>1. /\ is_data_logger /\ UNCHANGED <<cmdVars, shm>>
          /\ pc \in Loop /\ pc' \in Loop \cup {"exit"}
          /\ pc' # "exit" => art'.end = art.end
          /\ pc' = "insert" => cur' \in Message /\ cur'.kind = "Data"
          /\ pc' \in Loop /\ ~(pc' = "join" /\ cut') => process_fragments'
      BY <1>5, LoggerType DEF shmVars
    <2>2. /\ state' \notin {"Ready", "Paused"} /\ session' >= 1 /\ is_data_logger'
          /\ shm'["self"] # 0
      BY <2>1 DEF PhaseInv, Loop, cmdVars, roleVars
    <2>3. pc' \in Loop => art'.end = "open"
      BY <2>1 DEF PhaseInv, Loop
    <2>4. QED
      BY <2>1, <2>2, <2>3 DEF PhaseInv, Loop
  <1>6. CASE Enter
    <2>1. /\ pc = "enter" /\ pc' = "recv" /\ art' = Nothing /\ shm'["self"] # 0
          /\ UNCHANGED <<state, session, process_fragments>>
      BY <1>6, EnterIs DEF cmdVars
    <2>2. QED
      BY <2>1 DEF PhaseInv, Loop, Nothing
  <1>7. CASE Timeout
    <2>1. /\ pc = "recv" /\ UNCHANGED <<state, session, process_fragments, shm>>
          /\ \/ pc' = "recv" /\ art' = art
             \/ pc' = "exit"
      BY <1>7, TimeoutIs DEF cmdVars, shmVars
    <2>2. QED
      BY <2>1 DEF PhaseInv, Loop
  <1>8. CASE Exit
    <2>1. /\ pc = "exit" /\ pc' = "none" /\ process_fragments' = TRUE
          /\ endSubRunMsg' = FALSE /\ eodFragmentsReceived' = 0
          /\ fragments_received' = Zero /\ fragments_sent' = Zero /\ got' = Zero /\ expected' = Unknown
          /\ shm'["self"] = 0 /\ UNCHANGED cmdVars
      BY <1>8, ExitIs
    <2>2. Zero' = Zero /\ Unknown' = Unknown
      BY <2>1, SameSenders, SameZero DEF cmdVars
    <2>3. QED
      BY <2>1, <2>2 DEF PhaseInv, Loop
  <1>9. CASE Take
    <2>1. /\ pc = "recv" /\ pc' \in {"recv", "exit"} /\ UNCHANGED <<state, session, shm>>
          /\ pc' # "exit" => art'.end = art.end
          /\ pc' = "recv" => process_fragments'
      BY <1>9, TakeIs DEF cmdVars
    <2>2. QED
      BY <2>1 DEF PhaseInv, Loop
  <1>10. QED
    BY <1>2, <1>3, <1>4, <1>5, <1>6, <1>7, <1>8, <1>9, Steps

-----------------------------------------------------------------------------
(* The event builders.                                                     *)

LEMMA SenderInvStep ==
  ASSUME TypeOK, PhaseInv, SenderInv, SlotInv, [Next]_vars
  PROVE  SenderInv'
  <1>a. session \in Nat /\ sender \in [Sender -> SenderType]
    BY ConstantsAre DEF TypeOK, SenderType
  <1>1. ASSUME UNCHANGED roleVars, UNCHANGED sender, session' = session \/ session' = session + 1
        PROVE  SenderInv'
    <2>1. Sender' = Sender
      BY <1>1, SameSenders
    <2>2. ASSUME NEW s \in Sender
          PROVE  sender[s].session <= session'
      <3>1. sender[s].session \in Nat /\ sender[s].session <= session
        BY <1>a, ConstantsAre DEF SenderInv, SenderType
      <3>2. QED
        BY <1>a, <1>1, <3>1
    <2>3. QED
      BY <1>1, <2>1, <2>2 DEF SenderInv
  <1>2. ASSUME NEW s \in Sender, SenderStep(s)
        PROVE  SenderInv'
    <2>1. UNCHANGED cmdVars /\ Sender' = Sender /\ session' = session
      BY <1>2, SenderStepIs, SameSenders DEF cmdVars
    <2>2. PICK now \in SenderType :
            /\ sender' = [sender EXCEPT ![s] = now]
            /\ \/ /\ sender[s].session >= 1 /\ sender[s].session < session
                  /\ now = [at |-> "data", session |-> sender[s].session + 1, data |-> 0, count |-> 0]
               \/ \E m \in Message : Sends(s, m, now)
      BY <1>2, SenderStepIs
    <2> DEFINE r == sender[s]
    <2>3. r \in SenderType /\ r.session \in Nat /\ r.data \in Nat /\ r.count \in Nat
      <3>1. r \in SenderType
        BY <1>a
      <3>2. r.session \in 0 .. MaxStreams /\ r.data \in 0 .. MaxData /\ r.count \in Count
        BY <3>1 DEF SenderType
      <3>3. MaxStreams \in Nat /\ MaxData \in Nat /\ Count \subseteq Nat
        BY ConstantsAre
      <3> HIDE DEF r
      <3>4. r.count \in Nat
        BY <3>2, <3>3
      <3>5. r.session \in Nat /\ r.data \in Nat
        BY <3>2, <3>3
      <3>6. QED
        BY <3>1, <3>4, <3>5
    <2>4. /\ r.session <= session
          /\ r.session = 0 => r = [at |-> "off", session |-> 0, data |-> 0, count |-> 0]
          /\ r.session # 0 => r.count = r.data + (IF r.session = 1 THEN 1 ELSE 0) + (IF r.at = "data" THEN 0 ELSE 1)
      BY DEF SenderInv
    <2>a. r = sender[s]
      OBVIOUS
    <2> HIDE DEF r
    <2>5. /\ now.session <= session /\ now.session # 0
          /\ now.count = now.data + (IF now.session = 1 THEN 1 ELSE 0) + (IF now.at = "data" THEN 0 ELSE 1)
      <3>1. CASE /\ r.session >= 1 /\ r.session < session
                 /\ now = [at |-> "data", session |-> r.session + 1, data |-> 0, count |-> 0]
        BY <1>a, <2>3, <3>1
      <3>2. CASE session # 0 /\ now = [at |-> "data", session |-> 1, data |-> 0, count |-> 1]
        BY <1>a, <3>2
      <3>3. CASE r.at = "data" /\ now = [at |-> "data", session |-> r.session, data |-> r.data + 1,
                                         count |-> r.count + 1]
        BY <1>a, <2>3, <2>4, <3>3
      <3>4. CASE r.at = "data" /\ now = [at |-> "end", session |-> r.session, data |-> r.data,
                                         count |-> r.count + 1]
        BY <1>a, <2>3, <2>4, <3>4
      <3>5. CASE r.at = "end" /\ now = [at |-> "off", session |-> r.session, data |-> r.data,
                                        count |-> r.count]
        BY <1>a, <2>3, <2>4, <3>5
      <3>6. QED
        BY <2>a, <2>2, <3>1, <3>2, <3>3, <3>4, <3>5 DEF Sends
    <2>6. \A t \in Sender : sender'[t] = IF t = s THEN now ELSE sender[t]
      BY <1>a, <2>2
    <2> HIDE DEF SenderInv
    <2>7. ASSUME NEW t \in Sender
          PROVE  /\ sender'[t].session <= session
                 /\ sender'[t].session = 0 => sender'[t] = [at |-> "off", session |-> 0, data |-> 0, count |-> 0]
                 /\ sender'[t].session # 0 =>
                      sender'[t].count = sender'[t].data + (IF sender'[t].session = 1 THEN 1 ELSE 0)
                                                         + (IF sender'[t].at = "data" THEN 0 ELSE 1)
      <3>1. CASE t = s
        BY <2>5, <2>6, <3>1
      <3>2. CASE t # s
        BY <2>6, <3>2 DEF SenderInv
      <3>3. QED
        BY <3>1, <3>2
    <2>8. QED
      BY <2>1, <2>7 DEF SenderInv
  <1>3. CASE PeerStep
    BY <1>1, <1>3, PeerType DEF cmdVars, netVars
  <1>4. CASE CommandStep
    BY <1>1, <1>4, CommandIs DEF netVars
  <1>5. CASE LoggerStep
    BY <1>1, <1>5, LoggerType DEF cmdVars
  <1>6. CASE Enter
    BY <1>1, <1>6, EnterIs DEF cmdVars, netVars
  <1>7. CASE Timeout
    BY <1>1, <1>7, TimeoutIs DEF cmdVars, netVars
  <1>8. CASE Exit
    BY <1>1, <1>8, ExitIs DEF cmdVars
  <1>9. CASE Take
    BY <1>1, <1>9, TakeIs DEF cmdVars, netVars
  <1>10. QED
    BY <1>2, <1>3, <1>4, <1>5, <1>6, <1>7, <1>8, <1>9, Steps

LEMMA TypeStep ==
  ASSUME TypeOK, PhaseInv, SenderInv, [Next]_vars
  PROVE  TypeOK'
  BY Steps, SenderTypeStep, PeerType, CommandTypeStep, LoggerType, EnterIs, TimeoutIs, ExitIs, TakeIs

-----------------------------------------------------------------------------
(* The messages of a session.                                              *)

LEMMA MessagesFinite == IsFiniteSet(Message)
  <1> DEFINE P == ((1 .. MaxSender) \X (1 .. MaxStreams)) \X (Kind \X Count)
             f == [m \in Message |-> <<<<m.src, m.session>>, <<m.kind, m.n>>>>]
  <1>1. IsFiniteSet(1 .. MaxSender)
    BY ConstantsAre, FS_Interval
  <1>2. IsFiniteSet(1 .. MaxStreams)
    BY ConstantsAre, FS_Interval
  <1>3. IsFiniteSet((1 .. MaxSender) \X (1 .. MaxStreams))
    BY <1>1, <1>2, FS_Product
  <1>4. IsFiniteSet(Kind)
    <2>1. IsFiniteSet({"Init"})
      BY FS_Singleton
    <2>2. IsFiniteSet({"Init"} \cup {"Data"})
      BY <2>1, FS_AddElement
    <2>3. IsFiniteSet({"Init"} \cup {"Data"} \cup {"EndOfSubrun"})
      BY <2>2, FS_AddElement
    <2>4. IsFiniteSet({"Init"} \cup {"Data"} \cup {"EndOfSubrun"} \cup {"EndOfData"})
      BY <2>3, FS_AddElement
    <2>5. Kind = {"Init"} \cup {"Data"} \cup {"EndOfSubrun"} \cup {"EndOfData"}
      BY DEF Kind
    <2>6. QED
      BY <2>4, <2>5
  <1>5. IsFiniteSet(Count)
    <2>1. 0 \in Int /\ MaxData + 2 \in Int
      BY ConstantsAre
    <2>2. IsFiniteSet(0 .. (MaxData + 2))
      BY <2>1, FS_Interval
    <2>3. QED
      BY <2>2 DEF Count
  <1>6. IsFiniteSet(Kind \X Count)
    BY <1>4, <1>5, FS_Product
  <1>7. IsFiniteSet(P)
    BY <1>3, <1>6, FS_Product
  <1>8. f \in Injection(Message, P)
    <2>1. f \in [Message -> P]
      BY DEF Message
    <2>2. ASSUME NEW a \in Message, NEW b \in Message, f[a] = f[b]
          PROVE  a = b
      BY <2>2 DEF Message
    <2> HIDE DEF P, f
    <2>3. QED
      BY <2>1, <2>2 DEF Injection, IsInjective
  <1> HIDE DEF P, f
  <1>9. QED
    BY <1>7, <1>8, FS_Injection

\* What one more message makes of the counts.
LEMMA OneMessage ==
  ASSUME NEW messages \in SUBSET Message, NEW m \in Message, m \notin messages, NEW s
  PROVE  /\ Cardinality(Fragments(s, messages)) \in Nat
         /\ Cardinality(Fragments(s, messages \cup {m})) =
              Cardinality(Fragments(s, messages)) + (IF m.src = s /\ m.kind # "EndOfData" THEN 1 ELSE 0)
         /\ Ended(s, messages \cup {m}) <=> Ended(s, messages) \/ (m.src = s /\ m.kind = "EndOfData")
  <1> DEFINE F == Fragments(s, messages)
             G == Fragments(s, messages \cup {m})
  <1>1. F \in SUBSET Message
    BY DEF Fragments
  <1>2. IsFiniteSet(F)
    BY <1>1, MessagesFinite, FS_Subset
  <1>3. Cardinality(F) \in Nat
    BY <1>2, FS_CardinalityType
  <1>4. CASE m.src = s /\ m.kind # "EndOfData"
    <2>1. m \notin F /\ G = F \cup {m}
      BY <1>4 DEF Fragments
    <2> HIDE DEF F, G
    <2>2. Cardinality(G) = Cardinality(F) + 1
      BY <1>2, <2>1, FS_AddElement
    <2>3. QED
      BY <1>3, <1>4, <2>2 DEF F, G, Ended
  <1>5. CASE ~(m.src = s /\ m.kind # "EndOfData")
    <2>1. G = F
      BY <1>5 DEF Fragments
    <2> HIDE DEF F, G
    <2>2. Cardinality(G) = Cardinality(F) + 0
      BY <1>3, <2>1
    <2>3. QED
      BY <1>3, <1>5, <2>2 DEF F, G, Ended
  <1>6. QED
    BY <1>4, <1>5

LEMMA SentIs ==
  ASSUME NEW m \in SentNow
  PROVE  /\ m \in Message /\ m.src \in Sender /\ m.session = session /\ sender[m.src].session = session
         /\ m.kind = "EndOfData" => m.n = sender[m.src].count /\ sender[m.src].at = "off"
         /\ m.kind = "EndOfSubrun" => m.n = 0 /\ sender[m.src].at # "data"
         /\ m.kind = "Data" => m.n \in 1 .. sender[m.src].data
  BY DEF SentNow, SentBy

LEMMA OneEnd ==
  ASSUME NEW m \in SentNow, NEW x \in SentNow, m.src = x.src, m.kind = "EndOfData", x.kind = "EndOfData"
  PROVE  m = x
  <1>1. m.session = x.session /\ m.n = x.n /\ m \in Message /\ x \in Message
    BY SentIs
  <1>2. QED
    BY <1>1 DEF Message

LEMMA SentSame ==
  ASSUME UNCHANGED <<session, sender>>, Sender' = Sender
  PROVE  SentNow' = SentNow
  BY DEF SentNow, SentBy

\* When all sources are DONE, all of the session has come.
LEMMA AllDone ==
  ASSUME TypeOK, CountInv, \A s \in Sender : Done(s)
  PROVE  /\ network = {} /\ Received = SentNow
         /\ \A s \in Sender : sender[s].session = session /\ sender[s].at = "off"
  <1>1. SentNow \in SUBSET Message /\ Received \in SUBSET SentNow /\ Received \in SUBSET Message
    BY DEF SentNow, Received
  <1>2. ASSUME NEW s \in Sender
        PROVE  /\ Ended(s, Received) /\ sender[s].session = session /\ sender[s].at = "off"
               /\ Fragments(s, Received) = Fragments(s, SentNow)
    <2>1. CountOf(s) /\ expected[s] = got[s]
      BY DEF CountInv, Done
    <2>2. Fragments(s, SentNow) \in SUBSET Message /\ Fragments(s, Received) \in SUBSET Fragments(s, SentNow)
      BY <1>1 DEF Fragments
    <2>3. IsFiniteSet(Fragments(s, SentNow))
      BY <2>2, MessagesFinite, FS_Subset
    <2>4. IsFiniteSet(Fragments(s, Received))
      BY <2>2, <2>3, FS_Subset
    <2>5. Cardinality(Fragments(s, Received)) \in Nat
      BY <2>4, FS_CardinalityType
    <2>6. Ended(s, Received)
      BY <2>1, <2>5 DEF CountOf
    <2>7. sender[s].session = session /\ sender[s].at = "off"
      BY <1>1, <2>6, SentIs DEF Ended
    <2>8. Cardinality(Fragments(s, Received)) = Cardinality(Fragments(s, SentNow))
      BY <2>1, <2>6, <2>7 DEF CountOf
    <2>9. Fragments(s, Received) = Fragments(s, SentNow)
      BY <2>2, <2>3, <2>8, FS_Subset
    <2>10. QED
      BY <2>6, <2>7, <2>9
  <1>3. ASSUME NEW m \in SentNow
        PROVE  m \in Received
    <2>1. m.src \in Sender
      BY SentIs
    <2>2. CASE m.kind = "EndOfData"
      <3>1. PICK x \in Received : x.src = m.src /\ x.kind = "EndOfData"
        BY <1>2, <2>1 DEF Ended
      <3>2. QED
        BY <1>1, <2>2, <3>1, OneEnd
    <2>3. CASE m.kind # "EndOfData"
      BY <1>2, <2>1, <2>3 DEF Fragments
    <2>4. QED
      BY <2>2, <2>3
  <1>4. network = {}
    BY <1>3 DEF Received, CountInv
  <1>5. QED
    BY <1>1, <1>2, <1>3, <1>4

\* And so they are when the counts of the data logger agree.
LEMMA CountsAgree ==
  ASSUME NEW S, IsFiniteSet(S), NEW c \in [S -> Nat], NEW g \in [S -> Nat], NEW e, NEW fr, NEW fs,
         \A s \in S : fs[s] # 0 => e[s] = c[s] /\ fr[s] = g[s] + 1 /\ fs[s] = c[s] + 1,
         Cardinality({s \in S : fs[s] # 0}) >= Cardinality(S),
         fr = fs
  PROVE  \A s \in S : e[s] = g[s]
  <1> DEFINE T == {s \in S : fs[s] # 0}
  <1>1. T \in SUBSET S
    OBVIOUS
  <1>2. Cardinality(T) <= Cardinality(S) /\ IsFiniteSet(T) /\ (Cardinality(S) = Cardinality(T) => S = T)
    BY <1>1, FS_Subset
  <1>3. Cardinality(T) \in Nat /\ Cardinality(S) \in Nat
    BY <1>2, FS_CardinalityType
  <1>4. S = T
    BY <1>2, <1>3
  <1>5. QED
    BY <1>4

-----------------------------------------------------------------------------
(* What a step of an event builder makes of the messages of the session.   *)

SentWhen(x, it) ==
  /\ x.session = session /\ it.session = session
  /\ \/ x.kind = "Init" /\ x.n = 0 /\ session = 1
     \/ x.kind = "Data" /\ x.n \in 1 .. it.data
     \/ x.kind = "EndOfSubrun" /\ x.n = 0 /\ it.at # "data"
     \/ x.kind = "EndOfData" /\ x.n = it.count /\ it.at = "off"

LEMMA SentNext ==
  ASSUME Sender' = Sender, session' = session, NEW s \in Sender, NEW now,
         \A t \in Sender : sender'[t] = IF t = s THEN now ELSE sender[t],
         NEW x
  PROVE  /\ x.src # s => (SentBy(x)' <=> SentBy(x))
         /\ x.src = s => (SentBy(x)' <=> SentWhen(x, now)) /\ (SentBy(x) <=> SentWhen(x, sender[s]))
  <1>1. CASE x.src \notin Sender
    BY <1>1 DEF SentBy
  <1>2. CASE x.src \in Sender /\ x.src # s
    <2>1. sender'[x.src] = sender[x.src]
      BY <1>2
    <2>2. SentBy(x)' <=> SentBy(x)
      BY <1>2, <2>1 DEF SentBy
    <2>3. QED
      BY <1>2, <2>2
  <1>3. CASE x.src = s
    <2>1. sender'[x.src] = now
      BY <1>3
    <2>2. SentBy(x)' <=> SentWhen(x, now)
      BY <1>3, <2>1 DEF SentBy, SentWhen
    <2>3. SentBy(x) <=> SentWhen(x, sender[s])
      BY <1>3 DEF SentBy, SentWhen
    <2>4. QED
      BY <1>3, <2>2, <2>3
  <1>4. QED
    BY <1>1, <1>2, <1>3

\* A message that is sent is sent once.
LEMMA SendsIs ==
  ASSUME TypeOK, SenderInv, CountInv, session >= 1,
         NEW s \in Sender, NEW m \in Message, NEW now \in SenderType, Sends(s, m, now)
  PROVE  /\ now.session = session
         /\ ~Ended(s, SentNow)
         /\ now.count = Cardinality(Fragments(s, SentNow)) + (IF m.kind # "EndOfData" THEN 1 ELSE 0)
         /\ ~SentWhen(m, sender[s])
         /\ \A x \in Message : x.src = s => (SentWhen(x, now) <=> SentWhen(x, sender[s]) \/ x = m)
  <1> DEFINE r == sender[s]
             card == Cardinality(Fragments(s, SentNow))
  <1>1. r \in SenderType /\ session \in Nat
    BY ConstantsAre DEF TypeOK, SenderType
  <1>2. r.session \in Nat /\ r.data \in Nat /\ r.count \in Nat
    <2>1. r.session \in 0 .. MaxStreams /\ r.data \in 0 .. MaxData /\ r.count \in Count
      BY <1>1 DEF SenderType
    <2>2. MaxStreams \in Nat /\ MaxData \in Nat /\ Count \subseteq Nat
      BY ConstantsAre
    <2> HIDE DEF r
    <2>3. r.count \in Nat
      BY <2>1, <2>2
    <2>4. QED
      BY <2>1, <2>2, <2>3
  <1>3. /\ r.session = session \/ (r.session = session - 1 /\ r.at = "off")
        /\ card = IF r.session = session THEN r.count ELSE 0
    BY DEF CountInv, CountOf
  <1>4. ASSUME Ended(s, SentNow)
        PROVE  r.session = session /\ r.at = "off"
    BY <1>4, SentIs DEF Ended
  <1>5. \A x \in Message : /\ x.src = s /\ x.session = m.session /\ x.kind = m.kind /\ x.n = m.n <=> x = m
                           /\ x.n \in Nat
    <2>1. m.src = s
      BY DEF Sends
    <2>2. \A x \in Message : x.n \in Count
      BY DEF Message
    <2>3. \A x \in Message : x.n \in Nat
      BY <2>2, ConstantsAre
    <2>4. \A x \in Message : x.src = s /\ x.session = m.session /\ x.kind = m.kind /\ x.n = m.n <=> x = m
      BY <2>1 DEF Message
    <2>5. QED
      BY <2>3, <2>4
  <1>6. SentWhen(m, r) <=>
          /\ m.session = session /\ r.session = session
          /\ \/ m.kind = "Init" /\ m.n = 0 /\ session = 1
             \/ m.kind = "Data" /\ m.n \in 1 .. r.data
             \/ m.kind = "EndOfSubrun" /\ m.n = 0 /\ r.at # "data"
             \/ m.kind = "EndOfData" /\ m.n = r.count /\ r.at = "off"
    BY DEF SentWhen
  <1>a. r = sender[s] /\ card = Cardinality(Fragments(s, SentNow))
    OBVIOUS
  <1> HIDE DEF r, card
  <1>7. CASE /\ m.kind = "Init" /\ m.n = 0 /\ r.session = 0 /\ session # 0
             /\ now = [at |-> "data", session |-> 1, data |-> 0, count |-> 1]
    <2>1. session = 1 /\ m.session = 1
      BY <1>1, <1>3, <1>7 DEF Sends
    <2>2. card = 0 /\ now.session = session /\ now.count = 1
      BY <1>3, <1>7, <2>1
    <2>3. ~Ended(s, SentNow)
      BY <1>4, <1>7
    <2>4. \A x \in Message : x.src = s => (SentWhen(x, now) <=> SentWhen(x, r) \/ x = m)
      BY <1>5, <1>7, <2>1 DEF SentWhen
    <2>5. QED
      BY <1>6, <1>7, <1>a, <2>1, <2>2, <2>3, <2>4
  <1>8. CASE /\ m.kind = "Data" /\ m.n = r.data + 1 /\ r.at = "data"
             /\ now = [at |-> "data", session |-> r.session, data |-> r.data + 1, count |-> r.count + 1]
    <2>1. r.session = session /\ m.session = session
      BY <1>3, <1>8 DEF Sends
    <2>2. card = r.count /\ now.session = session /\ now.count = r.count + 1
      BY <1>3, <1>8, <2>1
    <2>3. ~Ended(s, SentNow)
      BY <1>4, <1>8
    <2>4. \A n \in Nat : n \in 1 .. r.data + 1 <=> n \in 1 .. r.data \/ n = r.data + 1
      BY <1>2
    <2>5. \A x \in Message : x.src = s => (SentWhen(x, now) <=> SentWhen(x, r) \/ x = m)
      BY <1>5, <1>8, <2>1, <2>4 DEF SentWhen
    <2>6. ~(m.n \in 1 .. r.data)
      BY <1>2, <1>8
    <2>7. QED
      BY <1>6, <1>8, <1>a, <2>1, <2>2, <2>3, <2>5, <2>6
  <1>9. CASE /\ m.kind = "EndOfSubrun" /\ m.n = 0 /\ r.at = "data"
             /\ now = [at |-> "end", session |-> r.session, data |-> r.data, count |-> r.count + 1]
    <2>1. r.session = session /\ m.session = session
      BY <1>3, <1>9 DEF Sends
    <2>2. card = r.count /\ now.session = session /\ now.count = r.count + 1
      BY <1>3, <1>9, <2>1
    <2>3. ~Ended(s, SentNow)
      BY <1>4, <1>9
    <2>4. \A x \in Message : x.src = s => (SentWhen(x, now) <=> SentWhen(x, r) \/ x = m)
      BY <1>5, <1>9, <2>1 DEF SentWhen
    <2>5. QED
      BY <1>6, <1>9, <1>a, <2>1, <2>2, <2>3, <2>4
  <1>10. CASE /\ m.kind = "EndOfData" /\ m.n = r.count /\ r.at = "end"
              /\ now = [at |-> "off", session |-> r.session, data |-> r.data, count |-> r.count]
    <2>1. r.session = session /\ m.session = session
      BY <1>3, <1>10 DEF Sends
    <2>2. card = r.count /\ now.session = session /\ now.count = r.count + 0
      BY <1>2, <1>3, <1>10, <2>1
    <2>3. ~Ended(s, SentNow)
      BY <1>4, <1>10
    <2>4. \A x \in Message : x.src = s => (SentWhen(x, now) <=> SentWhen(x, r) \/ x = m)
      BY <1>5, <1>10, <2>1 DEF SentWhen
    <2>5. QED
      BY <1>6, <1>10, <1>a, <2>1, <2>2, <2>3, <2>4
  <1>11. QED
    BY <1>7, <1>8, <1>9, <1>10, <1>a DEF Sends

LEMMA SenderCount ==
  ASSUME TypeOK, SenderInv, CountInv, session >= 1, NEW s \in Sender, SenderStep(s)
  PROVE  CountInv' /\ Received' = Received
  <1>1. /\ UNCHANGED <<cmdVars, countVars, threadVars, cur, shmVars, pauseVars>> /\ Sender' = Sender
        /\ session' = session
    BY SenderStepIs, SameSenders DEF cmdVars
  <1>2. PICK now \in SenderType :
          /\ sender' = [sender EXCEPT ![s] = now]
          /\ \/ /\ network' = network
                /\ sender[s].at = "off" /\ sender[s].session >= 1 /\ sender[s].session < session
                /\ now = [at |-> "data", session |-> sender[s].session + 1, data |-> 0, count |-> 0]
             \/ \E m \in Message : network' = network \cup {m} /\ Sends(s, m, now)
    BY SenderStepIs
  <1>3. \A t \in Sender : sender'[t] = IF t = s THEN now ELSE sender[t]
    BY <1>2 DEF TypeOK
  <1>4. \A x : /\ x.src # s => (SentBy(x)' <=> SentBy(x))
               /\ x.src = s => (SentBy(x)' <=> SentWhen(x, now)) /\ (SentBy(x) <=> SentWhen(x, sender[s]))
    BY <1>1, <1>3, SentNext
  <1>5. SentNow \in SUBSET Message /\ Received \in SUBSET SentNow /\ network \subseteq SentNow
    BY DEF SentNow, Received, CountInv
  <1>6. SentNow' = {x \in Message : SentBy(x)'}
    BY DEF SentNow
  <1>7. /\ got' = got /\ expected' = expected /\ fragments_received' = fragments_received
        /\ fragments_sent' = fragments_sent /\ eodFragmentsReceived' = eodFragmentsReceived
    BY <1>1 DEF countVars, threadVars
  <1>8. session \in Nat /\ (\A t \in Sender : CountOf(t))
    BY ConstantsAre DEF TypeOK, CountInv
  <1>9. ~Ended(s, SentNow) => ~Ended(s, Received) /\ fragments_sent[s] = 0
    <2>1. Ended(s, Received) => Ended(s, SentNow)
      BY <1>5 DEF Ended
    <2>2. QED
      BY <1>8, <2>1 DEF CountOf
  \* What remains for a sender.
  <1>10. ASSUME NEW t \in Sender, ~Ended(s, SentNow), Received' = Received,
                sender'[t].session = session \/ (sender'[t].session = session - 1 /\ sender'[t].at = "off"),
                Cardinality(Fragments(t, SentNow')) = IF sender'[t].session = session THEN sender'[t].count ELSE 0
         PROVE  CountOf(t)'
    <2>1. CASE t = s
      BY <1>1, <1>7, <1>8, <1>9, <1>10, <2>1 DEF CountOf
    <2>2. CASE t # s
      <3>1. sender'[t] = sender[t]
        BY <1>3, <2>2
      <3>2. QED
        BY <1>1, <1>7, <1>8, <1>10, <3>1 DEF CountOf
    <2>3. QED
      BY <2>1, <2>2
  <1>11. eodFragmentsReceived' = Cardinality({t \in Sender' : fragments_sent'[t] # 0})
    BY <1>1, <1>7 DEF CountInv
  <1>12. CASE /\ network' = network
              /\ sender[s].at = "off" /\ sender[s].session >= 1 /\ sender[s].session < session
              /\ now = [at |-> "data", session |-> sender[s].session + 1, data |-> 0, count |-> 0]
    <2>1. sender[s].session = session - 1 /\ now.session = session /\ session # 1 /\ sender[s].session # session
      BY <1>8, <1>12 DEF CountOf
    <2>2. ASSUME NEW x \in Message
          PROVE  SentBy(x)' <=> SentBy(x)
      <3>1. x.src = s => ~SentWhen(x, sender[s])
        BY <2>1 DEF SentWhen
      <3>2. ~(x.n \in 1 .. 0)
        OBVIOUS
      <3>3. x.src = s => ~SentWhen(x, now)
        BY <1>12, <2>1, <3>2 DEF SentWhen
      <3>4. QED
        BY <1>4, <3>1, <3>3
    <2>3. SentNow' = SentNow
      BY <1>6, <2>2 DEF SentNow
    <2>4. Received' = Received
      BY <1>12, <2>3 DEF Received
    <2>5. ~Ended(s, SentNow)
      BY <2>1, SentIs DEF Ended
    <2>6. ASSUME NEW t \in Sender
          PROVE  CountOf(t)'
      <3>1. CASE t = s
        <4>1. Cardinality(Fragments(t, SentNow')) = 0
          BY <1>8, <2>1, <2>3, <3>1 DEF CountOf
        <4>2. sender'[t].session = session /\ sender'[t].count = 0
          BY <1>3, <1>12, <2>1, <3>1
        <4>3. QED
          BY <1>10, <2>4, <2>5, <4>1, <4>2
      <3>2. CASE t # s
        <4>1. sender'[t] = sender[t]
          BY <1>3, <3>2
        <4>2. QED
          BY <1>8, <1>10, <2>3, <2>4, <2>5, <4>1 DEF CountOf
      <3>3. QED
        BY <3>1, <3>2
    <2>7. network' \subseteq SentNow'
      BY <1>5, <1>12, <2>3
    <2>8. QED
      BY <1>1, <1>11, <2>4, <2>6, <2>7 DEF CountInv
  <1>13. ASSUME NEW m \in Message, network' = network \cup {m}, Sends(s, m, now)
         PROVE  CountInv' /\ Received' = Received
    <2>1. /\ now.session = session /\ ~Ended(s, SentNow)
          /\ now.count = Cardinality(Fragments(s, SentNow)) + (IF m.kind # "EndOfData" THEN 1 ELSE 0)
          /\ ~SentWhen(m, sender[s])
          /\ \A x \in Message : x.src = s => (SentWhen(x, now) <=> SentWhen(x, sender[s]) \/ x = m)
      BY <1>13, SendsIs
    <2>2. m.src = s
      BY <1>13 DEF Sends
    <2>3. m \notin SentNow
      BY <1>4, <2>1, <2>2 DEF SentNow
    <2>4. SentNow' = SentNow \cup {m}
      <3>1. \A x \in Message : SentBy(x)' <=> SentBy(x) \/ x = m
        BY <1>4, <2>1, <2>2
      <3>2. QED
        BY <1>6, <3>1 DEF SentNow
    <2>5. Received' = Received
      BY <1>13, <2>3, <2>4 DEF Received
    <2>6. ASSUME NEW t \in Sender
          PROVE  CountOf(t)'
      <3>1. Cardinality(Fragments(t, SentNow')) =
              Cardinality(Fragments(t, SentNow)) + (IF m.src = t /\ m.kind # "EndOfData" THEN 1 ELSE 0)
            /\ Cardinality(Fragments(t, SentNow)) \in Nat
        BY <1>5, <2>3, <2>4, OneMessage
      <3>2. CASE t = s
        <4>1. sender'[t] = now
          BY <1>3, <3>2
        <4>2. Cardinality(Fragments(t, SentNow')) = now.count
          BY <2>1, <2>2, <3>1, <3>2
        <4>3. QED
          BY <1>10, <2>1, <2>5, <4>1, <4>2
      <3>3. CASE t # s
        <4>1. sender'[t] = sender[t] /\ Cardinality(Fragments(t, SentNow')) = Cardinality(Fragments(t, SentNow))
          BY <1>3, <2>2, <3>1, <3>3
        <4>2. QED
          BY <1>8, <1>10, <2>1, <2>5, <4>1 DEF CountOf
      <3>4. QED
        BY <3>2, <3>3
    <2>7. network' \subseteq SentNow'
      BY <1>5, <1>13, <2>4
    <2>8. QED
      BY <1>1, <1>11, <2>5, <2>6, <2>7 DEF CountInv
  <1>14. QED
    BY <1>2, <1>12, <1>13

-----------------------------------------------------------------------------
(* What a step of the data logger makes of its counts.                     *)

LEMMA ReceiveCount ==
  ASSUME TypeOK, CountInv, NEW m \in network, Receive(m),
         \/ UNCHANGED <<fragments_sent, eodFragmentsReceived>>
         \/ /\ m.kind = "EndOfData"
            /\ fragments_sent' = [fragments_sent EXCEPT ![m.src] = m.n + 1]
            /\ eodFragmentsReceived' = eodFragmentsReceived + 1
  PROVE  CountInv' /\ Received' = Received \cup {m} /\ m \notin Received
  <1> DEFINE u == m.src
             end == m.kind = "EndOfData"
  <1>1. /\ m \in SentNow /\ SentNow \in SUBSET Message /\ Received \in SUBSET SentNow
        /\ Received \in SUBSET Message /\ network \subseteq SentNow
    BY DEF SentNow, Received, CountInv
  <1>2. /\ m \in Message /\ u \in Sender
        /\ end => m.n = sender[u].count
    BY <1>1, SentIs
  <1>3. /\ network' = network \ {m} /\ Sender' = Sender /\ session' = session /\ sender' = sender
    BY ReceiveType DEF cmdVars
  <1>4. /\ fragments_received' = [fragments_received EXCEPT ![u] = @ + 1]
        /\ end => expected' = [expected EXCEPT ![u] = m.n] /\ got' = got
        /\ ~end => got' = [got EXCEPT ![u] = @ + 1] /\ expected' = expected
    BY DEF Receive
  <1>5. /\ fragments_received \in [Sender -> Nat] /\ got \in [Sender -> Nat] /\ expected \in [Sender -> Nat \cup {-1}]
        /\ fragments_sent \in [Sender -> Nat]
    BY DEF TypeOK
  <1>6. SentNow' = SentNow
    BY <1>3, SentSame
  <1>7. Received' = Received \cup {m} /\ m \notin Received
    BY <1>1, <1>3, <1>6 DEF Received
  <1>8. \A t \in Sender : CountOf(t)
    BY DEF CountInv
  <1>9. \A t \in Sender :
          /\ Cardinality(Fragments(t, Received)) \in Nat
          /\ Cardinality(Fragments(t, Received')) =
               Cardinality(Fragments(t, Received)) + (IF u = t /\ ~end THEN 1 ELSE 0)
          /\ Ended(t, Received') <=> Ended(t, Received) \/ (u = t /\ end)
    BY <1>1, <1>2, <1>7, OneMessage
  <1>10. end => ~Ended(u, Received) /\ fragments_sent[u] = 0
    <2>1. end => ~Ended(u, Received)
      <3>1. ASSUME NEW x \in Received, x.src = u, x.kind = "EndOfData", end
            PROVE  FALSE
        <4>1. x = m
          BY <1>1, <3>1, OneEnd
        <4>2. QED
          BY <1>7, <3>1, <4>1
      <3>2. QED
        BY <3>1 DEF Ended
    <2>2. QED
      BY <1>2, <1>8, <2>1 DEF CountOf
  <1>11. /\ fragments_sent' = fragments_sent \/ (end /\ fragments_sent' = [fragments_sent EXCEPT ![u] = m.n + 1])
    OBVIOUS
  <1>a. u = m.src /\ (end <=> m.kind = "EndOfData")
    OBVIOUS
  <1> HIDE DEF u, end
  <1>12. \A t \in Sender : \/ fragments_sent'[t] = fragments_sent[t]
                           \/ t = u /\ end /\ fragments_sent'[t] = sender[t].count + 1
    BY <1>2, <1>5, <1>11
  <1>13. ASSUME NEW t \in Sender
         PROVE  CountOf(t)'
    <2>1. CASE t # u
      <3>1. /\ Cardinality(Fragments(t, Received')) = Cardinality(Fragments(t, Received))
            /\ Ended(t, Received') <=> Ended(t, Received)
        BY <1>9, <2>1
      <3>2. fragments_received'[t] = fragments_received[t] /\ got'[t] = got[t] /\ expected'[t] = expected[t]
        BY <1>4, <1>5, <2>1
      <3>3. fragments_sent'[t] = fragments_sent[t]
        BY <1>12, <2>1
      <3>4. QED
        BY <1>3, <1>6, <1>8, <3>1, <3>2, <3>3 DEF CountOf
    <2>2. CASE t = u /\ end
      <3>1. /\ Cardinality(Fragments(t, Received')) = Cardinality(Fragments(t, Received))
            /\ Ended(t, Received') /\ ~Ended(t, Received)
        BY <1>9, <1>10, <2>2
      <3>2. fragments_received'[t] = fragments_received[t] + 1 /\ got'[t] = got[t] /\ expected'[t] = sender[t].count
        BY <1>2, <1>4, <1>5, <2>2
      <3>3. fragments_sent'[t] # 0 => fragments_sent'[t] = sender[t].count + 1
        BY <1>10, <1>12, <2>2
      <3>4. fragments_received[t] = got[t] /\ got[t] = Cardinality(Fragments(t, Received))
        BY <1>5, <1>8, <3>1 DEF CountOf
      <3>5. QED
        BY <1>3, <1>6, <1>8, <3>1, <3>2, <3>3, <3>4 DEF CountOf
    <2>3. CASE t = u /\ ~end
      <3>1. /\ Cardinality(Fragments(t, Received')) = Cardinality(Fragments(t, Received)) + 1
            /\ Ended(t, Received') <=> Ended(t, Received)
        BY <1>9, <2>3
      <3>2. fragments_received'[t] = fragments_received[t] + 1 /\ got'[t] = got[t] + 1 /\ expected'[t] = expected[t]
        BY <1>4, <1>5, <2>3
      <3>3. fragments_sent'[t] = fragments_sent[t]
        BY <1>12, <2>3
      <3>4. fragments_received'[t] = got'[t] + (IF Ended(t, Received') THEN 1 ELSE 0)
        BY <1>5, <1>8, <3>1, <3>2 DEF CountOf
      <3>5. QED
        BY <1>3, <1>6, <1>8, <3>1, <3>2, <3>3, <3>4 DEF CountOf
    <2>4. QED
      BY <2>1, <2>2, <2>3
  <1>14. eodFragmentsReceived' = Cardinality({t \in Sender : fragments_sent'[t] # 0})
    <2> DEFINE old == {t \in Sender : fragments_sent[t] # 0}
               new == {t \in Sender : fragments_sent'[t] # 0}
    <2>1. old \in SUBSET Sender /\ IsFiniteSet(Sender)
      BY SenderIs
    <2>2. IsFiniteSet(old)
      BY <2>1, FS_Subset
    <2>3. eodFragmentsReceived = Cardinality(old)
      BY DEF CountInv
    <2>4. CASE UNCHANGED <<fragments_sent, eodFragmentsReceived>>
      BY <2>3, <2>4
    <2>5. CASE /\ m.kind = "EndOfData" /\ fragments_sent' = [fragments_sent EXCEPT ![m.src] = m.n + 1]
               /\ eodFragmentsReceived' = eodFragmentsReceived + 1
      <3>1. end /\ fragments_sent' = [fragments_sent EXCEPT ![u] = m.n + 1]
        BY <1>a, <2>5
      <3>2. m.n + 1 # 0
        <4>1. m.n \in Count
          BY <1>2 DEF Message
        <4>2. m.n \in Nat
          BY <4>1, ConstantsAre
        <4>3. QED
          BY <4>2
      <3>3. new = old \cup {u} /\ u \notin old
        <4>1. \A t \in Sender : fragments_sent'[t] # 0 <=> fragments_sent[t] # 0 \/ t = u
          BY <1>2, <1>5, <3>1, <3>2
        <4>2. QED
          BY <1>2, <1>10, <3>1, <4>1
      <3> HIDE DEF old, new
      <3>4. Cardinality(new) = Cardinality(old) + 1
        BY <2>2, <3>3, FS_AddElement
      <3>5. QED
        BY <2>3, <2>5, <3>4 DEF new
    <2>6. QED
      BY <2>4, <2>5
  <1>15. network' \subseteq SentNow'
    BY <1>1, <1>3, <1>6
  <1>16. QED
    BY <1>3, <1>7, <1>13, <1>14, <1>15 DEF CountInv

\* The session may be concluded: all of it has come.
LEMMA CompleteNext ==
  ASSUME TypeOK', CountInv', Sender' = Sender, true_data_sender_count' = true_data_sender_count, TypeOK,
         is_data_logger, NEW esr, AllReceived(esr)
  PROVE  \A s \in Sender : Done(s)'
  <1> DEFINE c == [s \in Sender |-> sender'[s].count]
  <1>1. /\ eodFragmentsReceived' >= true_data_sender_count /\ fragments_received' = fragments_sent'
    BY DEF AllReceived
  <1>2. /\ got' \in [Sender -> Nat] /\ sender' \in [Sender -> SenderType] /\ fragments_sent' \in [Sender -> Nat]
    BY DEF TypeOK, SenderType
  <1>3. c \in [Sender -> Nat]
    <2>1. \A s \in Sender : sender'[s].count \in Count
      BY <1>2 DEF SenderType
    <2>2. QED
      BY <2>1, ConstantsAre
  <1>4. IsFiniteSet(Sender) /\ Cardinality(Sender) = true_data_sender_count
    BY SenderIs
  <1>5. Cardinality({s \in Sender : fragments_sent'[s] # 0}) >= Cardinality(Sender)
    BY <1>1, <1>4 DEF CountInv
  <1>6. \A s \in Sender : CountOf(s)'
    BY DEF CountInv
  <1>7. \A s \in Sender : fragments_sent'[s] # 0 =>
          expected'[s] = c[s] /\ fragments_received'[s] = got'[s] + 1 /\ fragments_sent'[s] = c[s] + 1
    BY <1>6 DEF CountOf
  <1> HIDE DEF c
  <1>8. \A s \in Sender : expected'[s] = got'[s]
    BY <1>1, <1>2, <1>3, <1>4, <1>5, <1>7, CountsAgree
  <1>9. QED
    BY <1>8 DEF Done

LEMMA CountSame ==
  ASSUME CountInv, UNCHANGED <<roleVars, session, netVars, countVars, fragments_sent, eodFragmentsReceived>>
  PROVE  CountInv' /\ Received' = Received /\ Sender' = Sender
  <1>1. Sender' = Sender /\ session' = session /\ network' = network /\ sender' = sender
    BY SameSenders DEF netVars
  <1>2. SentNow' = SentNow
    BY <1>1, SentSame
  <1>3. Received' = Received
    BY <1>1, <1>2 DEF Received
  <1>4. /\ got' = got /\ expected' = expected /\ fragments_received' = fragments_received
        /\ fragments_sent' = fragments_sent /\ eodFragmentsReceived' = eodFragmentsReceived
    BY DEF countVars
  <1>5. \A s \in Sender : CountOf(s)'
    <2>1. \A s \in Sender : CountOf(s)
      BY DEF CountInv
    <2>2. QED
      BY <1>1, <1>2, <1>3, <1>4, <2>1 DEF CountOf
  <1>6. QED
    BY <1>1, <1>2, <1>3, <1>4, <1>5 DEF CountInv

\* What art has been given, within the loop.
LEMMA ArtIs ==
  ASSUME ArtInv, pc \in Loop, ~early
  PROVE  /\ pc # "insert" => art.data = {x \in Received : x.kind = "Data"}
         /\ pc = "insert" => art.data = {x \in Received : x.kind = "Data"} \ {cur}
         /\ (\E x \in Received : x.kind = "EndOfSubrun") => endSubRunMsg
  <1> DEFINE D == {x \in Received : x.kind = "Data"}
             ended == \E x \in Received : x.kind = "EndOfSubrun"
  <1>1. art.data = D \ (IF pc = "insert" THEN {cur} ELSE {}) /\ (ended => endSubRunMsg)
    BY DEF ArtInv
  <1> HIDE DEF D, ended
  <1>2. pc # "insert" => art.data = D
    BY <1>1
  <1>3. pc = "insert" => art.data = D \ {cur}
    BY <1>1
  <1>4. QED
    BY <1>1, <1>2, <1>3 DEF D, ended

LEMMA LoggerInvStep ==
  ASSUME TypeOK, PhaseInv, SenderInv, LoggerInv, LoggerStep
  PROVE  LoggerInv'
  <1>1. /\ TypeOK' /\ is_data_logger /\ UNCHANGED <<cmdVars, shmVars, sender>>
        /\ pc \in Loop /\ pc' \in Loop \cup {"exit"}
        /\ cut => cut'
    BY LoggerType
  <1>a. /\ Sender' = Sender /\ true_data_sender_count' = true_data_sender_count /\ is_data_logger' = is_data_logger
        /\ session' = session
    BY <1>1, SameSenders DEF cmdVars, roleVars
  <1> SUFFICES ASSUME ~cut'
               PROVE  LoggerInv'
    BY DEF LoggerInv
  <1>b. ~cut /\ pc \in Loop /\ pc # "none"
    BY <1>1, Zenon DEF Loop
  <1>2. CountInv /\ ArtInv
    BY <1>1, <1>b DEF LoggerInv
  <1> SUFFICES CountInv' /\ ArtInv' /\ (pc' = "exit" => (\A s \in Sender : Done(s)') /\ (~early' => art'.end # "open"))
    <2>1. pc' # "none"
      BY <1>1 DEF Loop
    <2>2. QED
      BY <1>1, <1>a, <2>1 DEF LoggerInv
  <1>3. ThreadType
    BY TypeParts
  <1>4. ASSUME NEW m \in network, ReceiveAndHandle(m)
        PROVE  CountInv' /\ ArtInv' /\ (pc' = "exit" => (\A s \in Sender : Done(s)') /\ (~early' => art'.end # "open"))
    <2>1. Receive(m) /\ Handle(m)
      BY <1>4 DEF ReceiveAndHandle
    <2>2. m \in Message /\ pc = "recv"
      BY <2>1, ReceiveType
    <2>3. /\ pc' \in {"recv", "join", "exit"}
          /\ early => early'
          /\ ~early' =>
               /\ art'.data = IF m.kind = "Data" THEN art.data \cup {m} ELSE art.data
               /\ pc' # "exit" => endSubRunMsg' = (endSubRunMsg \/ m.kind = "EndOfSubrun")
          /\ \/ UNCHANGED <<fragments_sent, eodFragmentsReceived>>
             \/ /\ m.kind = "EndOfData"
                /\ fragments_sent' = [fragments_sent EXCEPT ![m.src] = m.n + 1]
                /\ eodFragmentsReceived' = eodFragmentsReceived + 1
          /\ pc' = "exit" => art'.end # "open" /\ \E esr \in BOOLEAN : AllReceived(esr)
      BY <1>1, <1>3, <1>a, <2>1, <2>2, HandleIs
    <2>4. CountInv' /\ Received' = Received \cup {m} /\ m \notin Received
      BY <1>2, <2>1, <2>3, ReceiveCount
    <2>5. pc' = "exit" => (\A s \in Sender : Done(s)')
      BY <1>1, <1>a, <2>3, <2>4, CompleteNext
    <2>6. ASSUME ~early'
          PROVE  /\ art'.data = {x \in Received' : x.kind = "Data"}
                 /\ pc' \in Loop /\ (\E x \in Received' : x.kind = "EndOfSubrun") => endSubRunMsg'
      <3>1. /\ art.data = {x \in Received : x.kind = "Data"}
            /\ (\E x \in Received : x.kind = "EndOfSubrun") => endSubRunMsg
        <4>1. ~early /\ pc \in Loop /\ pc # "insert"
          BY <1>1, <2>2, <2>3, <2>6
        <4>2. QED
          BY <1>2, <4>1, ArtIs
      <3>2. art'.data = {x \in Received \cup {m} : x.kind = "Data"}
        <4>1. CASE m.kind = "Data"
          BY <2>3, <2>6, <3>1, <4>1
        <4>2. CASE m.kind # "Data"
          BY <2>3, <2>6, <3>1, <4>2
        <4>3. QED
          BY <4>1, <4>2
      <3>3. ASSUME pc' \in Loop, NEW x \in Received \cup {m}, x.kind = "EndOfSubrun"
            PROVE  endSubRunMsg'
        <4>1. endSubRunMsg' = (endSubRunMsg \/ m.kind = "EndOfSubrun")
          BY <2>3, <2>6, <3>3 DEF Loop
        <4>2. endSubRunMsg \/ m.kind = "EndOfSubrun"
          BY <3>1, <3>3
        <4>3. QED
          BY <4>1, <4>2
      <3>4. QED
        BY <2>4, <3>2, <3>3
    <2>7. ArtInv'
      <3>1. pc' # "insert"
        BY <2>3
      <3>2. QED
        BY <2>6, <3>1 DEF ArtInv
    <2>8. QED
      BY <2>3, <2>4, <2>5, <2>7
  <1>5. ASSUME NEW m \in network, ReceiveAndOffer(m)
        PROVE  CountInv' /\ ArtInv' /\ pc' = "insert"
    <2>1. /\ Receive(m) /\ m.kind = "Data" /\ cur' = m /\ pc' = "insert"
          /\ UNCHANGED <<endSubRunMsg, eodFragmentsReceived, fragments_sent, art, early>>
      BY <1>5 DEF ReceiveAndOffer, To
    <2>2. CountInv' /\ Received' = Received \cup {m} /\ m \notin Received
      BY <1>2, <2>1, ReceiveCount
    <2>3. pc = "recv"
      BY <2>1 DEF Receive
    <2>4. ASSUME ~early'
          PROVE  /\ art'.data = {x \in Received' : x.kind = "Data"} \ {cur'}
                 /\ (\E x \in Received' : x.kind = "EndOfSubrun") => endSubRunMsg'
      <3>1. /\ art.data = {x \in Received : x.kind = "Data"}
            /\ (\E x \in Received : x.kind = "EndOfSubrun") => endSubRunMsg
        <4>1. ~early /\ pc \in Loop /\ pc # "insert"
          BY <1>1, <2>1, <2>3, <2>4
        <4>2. QED
          BY <1>2, <4>1, ArtIs
      <3>2. art.data = {x \in Received \cup {m} : x.kind = "Data"} \ {m}
        BY <2>2, <3>1
      <3>3. ASSUME NEW x \in Received \cup {m}, x.kind = "EndOfSubrun"
            PROVE  endSubRunMsg'
        BY <2>1, <3>1, <3>3
      <3>4. QED
        BY <2>1, <2>2, <3>2, <3>3
    <2>5. ArtInv'
      BY <2>1, <2>2, <2>4 DEF ArtInv
    <2>6. QED
      BY <2>1, <2>2, <2>5
  <1>6. ASSUME InsertAgain \/ InsertGivenUp
        PROVE  CountInv' /\ ArtInv' /\ (pc' = "exit" => (\A s \in Sender : Done(s)') /\ (~early' => art'.end # "open"))
    <2>1. /\ pc = "insert" /\ Handle(cur)
          /\ UNCHANGED <<cmdVars, countVars, netVars>>
      BY <1>6 DEF InsertAgain, InsertGivenUp, Offered, Handle
    <2>2. cur \in Message /\ cur.kind = "Data" /\ cur \in Received
      BY <1>2, <2>1 DEF PhaseInv, ArtInv
    <2>3. /\ pc' \in {"recv", "join", "exit"}
          /\ early => early'
          /\ ~early' => /\ art'.data = art.data \cup {cur}
                        /\ pc' # "exit" => endSubRunMsg' = (endSubRunMsg \/ cur.kind = "EndOfSubrun")
          /\ UNCHANGED <<fragments_sent, eodFragmentsReceived>>
          /\ pc' = "exit" => art'.end # "open" /\ \E esr \in BOOLEAN : AllReceived(esr)
      BY <1>1, <1>3, <1>a, <2>1, <2>2, HandleIs
    <2>4. CountInv' /\ Received' = Received
      BY <1>2, <2>1, <2>3, CountSame DEF cmdVars
    <2>5. pc' = "exit" => (\A s \in Sender : Done(s)')
      BY <1>1, <1>a, <2>3, <2>4, CompleteNext
    <2>6. ASSUME ~early'
          PROVE  /\ art'.data = {x \in Received' : x.kind = "Data"}
                 /\ pc' \in Loop /\ (\E x \in Received' : x.kind = "EndOfSubrun") => endSubRunMsg'
      <3>1. /\ art.data = {x \in Received : x.kind = "Data"} \ {cur}
            /\ (\E x \in Received : x.kind = "EndOfSubrun") => endSubRunMsg
        <4>1. ~early /\ pc \in Loop /\ pc = "insert"
          BY <1>1, <2>1, <2>3, <2>6
        <4>2. QED
          BY <1>2, <4>1, ArtIs
      <3>2. art'.data = {x \in Received : x.kind = "Data"}
        BY <2>2, <2>3, <2>6, <3>1
      <3>3. ASSUME pc' \in Loop, NEW x \in Received, x.kind = "EndOfSubrun"
            PROVE  endSubRunMsg'
        <4>1. endSubRunMsg' = (endSubRunMsg \/ cur.kind = "EndOfSubrun")
          BY <2>3, <2>6, <3>3 DEF Loop
        <4>2. endSubRunMsg
          BY <3>1, <3>3
        <4>3. QED
          BY <4>1, <4>2
      <3>4. QED
        BY <2>4, <3>2, <3>3
    <2>7. ArtInv'
      <3>1. pc' # "insert"
        BY <2>3
      <3>2. QED
        BY <2>6, <3>1 DEF ArtInv
    <2>8. QED
      BY <2>3, <2>4, <2>5, <2>7
  <1>7. ASSUME StartPauser
        PROVE  CountInv' /\ ArtInv' /\ (pc' = "exit" => (\A s \in Sender : Done(s)') /\ (~early' => art'.end # "open"))
    <2>1. /\ pc = "join" /\ Account(art, endSubRunMsg, process_fragments)
          /\ UNCHANGED <<cmdVars, countVars, eodFragmentsReceived, fragments_sent, cut, early, netVars>>
      BY <1>7 DEF StartPauser
    <2>2. process_fragments
      BY <2>1 DEF PhaseInv
    <2>3. /\ art'.data = art.data
          /\ \/ pc' = "recv" /\ endSubRunMsg' = endSubRunMsg
             \/ pc' = "exit" /\ AllReceived(endSubRunMsg) /\ art'.end # "open"
      BY <1>3, <2>1, <2>2, AccountIs DEF ThreadType
    <2>4. CountInv' /\ Received' = Received
      BY <1>2, <2>1, CountSame DEF cmdVars
    <2>5. pc' = "exit" => (\A s \in Sender : Done(s)')
      BY <1>1, <1>a, <2>3, <2>4, CompleteNext
    <2>6. ArtInv'
      <3>1. ~early' => /\ art.data = {x \in Received : x.kind = "Data"}
                       /\ (\E x \in Received : x.kind = "EndOfSubrun") => endSubRunMsg
        BY <1>1, <1>2, <2>1, ArtIs
      <3>2. pc' # "insert" /\ (pc' \in Loop => endSubRunMsg' = endSubRunMsg) /\ early' = early
        BY <2>1, <2>3 DEF Loop
      <3>3. ~early' => art'.data = {x \in Received' : x.kind = "Data"}
        BY <2>3, <2>4, <3>1
      <3>4. ~early' /\ pc' \in Loop /\ (\E x \in Received' : x.kind = "EndOfSubrun") => endSubRunMsg'
        BY <2>4, <3>1, <3>2
      <3>5. QED
        BY <3>2, <3>3, <3>4 DEF ArtInv
    <2>7. QED
      BY <2>3, <2>4, <2>5, <2>6
  <1>8. ASSUME ReceiveNothing
        PROVE  CountInv' /\ ArtInv' /\ (pc' = "exit" => (\A s \in Sender : Done(s)') /\ (~early' => art'.end # "open"))
    <2>1. /\ pc = "recv" /\ (\A s \in Sender : Done(s)) /\ Conclude(art, endSubRunMsg)
          /\ UNCHANGED <<cmdVars, countVars, eodFragmentsReceived, fragments_sent, cut, early, netVars>>
      BY <1>8 DEF ReceiveNothing
    <2>2. art'.data = art.data /\ (endSubRunMsg => art'.end # "open") /\ pc' = "exit"
      BY <1>3, <2>1, ConcludeIs DEF ThreadType
    <2>3. CountInv' /\ Received' = Received
      BY <1>2, <2>1, CountSame DEF cmdVars
    <2>4. \A s \in Sender : Done(s)'
      BY <2>1 DEF Done, countVars
    <2>5. ASSUME ~early
          PROVE  endSubRunMsg /\ art.data = {x \in Received : x.kind = "Data"}
      <3>1. Received = SentNow /\ sender[1].session = session /\ sender[1].at = "off" /\ 1 \in Sender
        BY <1>2, <2>1, AllDone, SenderIs
      <3> DEFINE x == [src |-> 1, session |-> session, kind |-> "EndOfSubrun", n |-> 0]
      <3>2. x \in Message
        <4>1. session \in 1 .. MaxStreams
          BY <2>1, ConstantsAre DEF PhaseInv, TypeOK
        <4>2. 1 \in 1 .. MaxSender /\ 0 \in Count
          BY SenderIs, ConstantsAre DEF Count
        <4>3. QED
          BY <4>1, <4>2 DEF Message, Kind
      <3>3. x \in SentNow
        <4>1. /\ x.src = 1 /\ x.session = session /\ x.kind = "EndOfSubrun" /\ x.n = 0
          OBVIOUS
        <4> HIDE DEF x
        <4>2. SentBy(x)
          BY <3>1, <4>1 DEF SentBy
        <4>3. QED
          BY <3>2, <4>2 DEF SentNow
      <3>4. \E y \in Received : y.kind = "EndOfSubrun"
        BY <3>1, <3>3
      <3>5. QED
        BY <1>1, <1>2, <2>1, <2>5, <3>4, ArtIs
    <2>6. ArtInv'
      BY <2>1, <2>2, <2>3, <2>5 DEF ArtInv, Loop
    <2>7. QED
      BY <2>1, <2>2, <2>3, <2>4, <2>5, <2>6
  <1>9. CASE \E m \in network : ReceiveAndHandle(m) \/ ReceiveAndOffer(m)
    BY <1>4, <1>5, <1>9
  <1>10. QED
    BY <1>6, <1>7, <1>8, <1>9 DEF LoggerStep

-----------------------------------------------------------------------------
(* The data logger in the other steps.                                     *)

\* Before its first receive the thread has received nothing.
LEMMA NothingReceived ==
  ASSUME TypeOK, CountInv, got = Zero, expected = Unknown
  PROVE  Received = {}
  <1>1. ASSUME NEW m \in Received
        PROVE  FALSE
    <2>1. m \in SentNow /\ Received \in SUBSET Message
      BY DEF Received, SentNow
    <2>2. m.src \in Sender
      BY <2>1, SentIs
    <2> DEFINE s == m.src
    <2>3. CountOf(s) /\ got[s] = 0 /\ expected[s] = -1
      BY <2>2 DEF CountInv, Zero, Unknown
    <2>4. CASE m.kind = "EndOfData"
      <3>1. Ended(s, Received)
        BY <2>4 DEF Ended
      <3>2. sender[s].count = -1
        BY <2>3, <3>1 DEF CountOf
      <3>3. sender[s].count \in Count
        BY <2>2 DEF TypeOK
      <3>4. QED
        BY <3>2, <3>3, ConstantsAre
    <2>5. CASE m.kind # "EndOfData"
      <3>1. Fragments(s, Received) \in SUBSET Message /\ m \in Fragments(s, Received)
        BY <2>1, <2>5 DEF Fragments
      <3>2. IsFiniteSet(Fragments(s, Received))
        BY <3>1, MessagesFinite, FS_Subset
      <3>3. Cardinality(Fragments(s, Received)) = 0
        BY <2>3 DEF CountOf
      <3>4. Fragments(s, Received) = {}
        BY <3>2, <3>3, FS_EmptySet
      <3>5. QED
        BY <3>1, <3>4
    <2>6. QED
      BY <2>4, <2>5
  <1>2. QED
    BY <1>1

\* A session begins with nothing sent and nothing received.
LEMMA LaunchCount ==
  ASSUME TypeOK, network = {}, \A s \in Sender : sender[s].session = session /\ sender[s].at = "off",
         eodFragmentsReceived = 0, got = Zero, expected = Unknown, fragments_received = Zero, fragments_sent = Zero,
         session' = session + 1, UNCHANGED <<roleVars, netVars, countVars, fragments_sent, eodFragmentsReceived>>
  PROVE  CountInv'
  <1>1. Sender' = Sender /\ session \in Nat /\ network' = {} /\ sender' = sender
    BY SameSenders, ConstantsAre DEF TypeOK, netVars
  <1>2. \A s \in Sender : sender'[s].session = session' - 1 /\ sender'[s].at = "off" /\ sender'[s].session # session'
    BY <1>1
  <1>3. SentNow' = {}
    <2>1. ASSUME NEW m \in Message
          PROVE  ~SentBy(m)'
      BY <1>1, <1>2 DEF SentBy
    <2>2. SentNow' = {m \in Message : SentBy(m)'}
      BY DEF SentNow
    <2>3. QED
      BY <2>1, <2>2
  <1>4. Received' = {}
    BY <1>3 DEF Received
  <1>5. /\ \A s \in Sender : /\ got'[s] = 0 /\ expected'[s] = -1
                             /\ fragments_received'[s] = 0 /\ fragments_sent'[s] = 0
        /\ eodFragmentsReceived' = 0
    BY DEF countVars, Zero, Unknown
  <1>6. ASSUME NEW s \in Sender
        PROVE  CountOf(s)'
    <2>1. Fragments(s, SentNow') = {} /\ Fragments(s, Received') = {} /\ ~Ended(s, Received')
      BY <1>3, <1>4 DEF Fragments, Ended
    <2>2. Cardinality({}) = 0
      BY FS_EmptySet
    <2>3. Cardinality(Fragments(s, SentNow')) = 0 /\ Cardinality(Fragments(s, Received')) = 0
      BY <2>1, <2>2
    <2>4. QED
      BY <1>2, <1>5, <2>1, <2>3 DEF CountOf
  <1>7. eodFragmentsReceived' = Cardinality({s \in Sender : fragments_sent'[s] # 0})
    <2>1. {s \in Sender : fragments_sent'[s] # 0} = {}
      BY <1>5
    <2>2. QED
      BY <1>5, <2>1, FS_EmptySet
  <1>8. QED
    BY <1>1, <1>6, <1>7 DEF CountInv

\* What does not touch the session's messages, its counts or art leaves the invariant.
LEMMA LoggerKept ==
  ASSUME LoggerInv, pc' = pc,
         UNCHANGED <<roleVars, session, netVars, countVars, fragments_sent, eodFragmentsReceived,
                     endSubRunMsg, art, cut, early, cur>>
  PROVE  LoggerInv'
  <1>1. is_data_logger' = is_data_logger /\ Sender' = Sender /\ network' = network /\ sender' = sender
    BY SameSenders DEF roleVars, netVars
  <1>2. CASE ~(is_data_logger /\ ~cut)
    BY <1>1, <1>2 DEF LoggerInv
  <1>3. CASE is_data_logger /\ ~cut
    <2>1. pc = "none" => network' = {} /\ \A s \in Sender : sender'[s].session = session' /\ sender'[s].at = "off"
      BY <1>1, <1>3 DEF LoggerInv
    <2>2. pc # "none" => CountInv' /\ Received' = Received
      BY <1>3, CountSame DEF LoggerInv
    <2>3. pc \in Loop \cup {"exit"} => ArtInv'
      <3>1. pc \in Loop \cup {"exit"} => ArtInv /\ pc # "none"
        BY <1>3 DEF LoggerInv, Loop
      <3>2. QED
        BY <2>2, <3>1 DEF ArtInv
    <2>4. pc = "exit" => (\A s \in Sender : Done(s)') /\ (~early => art.end # "open")
      <3>1. pc = "exit" => (\A s \in Sender : Done(s)) /\ (~early => art.end # "open")
        BY <1>3 DEF LoggerInv
      <3>2. QED
        BY <3>1 DEF Done, countVars
    <2>5. QED
      BY <1>1, <2>1, <2>2, <2>3, <2>4 DEF LoggerInv
  <1>4. QED
    BY <1>2, <1>3

LEMMA LoggerNext ==
  ASSUME TypeOK, PhaseInv, SenderInv, LoggerInv, [Next]_vars
  PROVE  LoggerInv'
  <1>a. is_data_logger \in BOOLEAN /\ cut \in BOOLEAN
    BY DEF TypeOK
  <1>1. ASSUME NEW s \in Sender, SenderStep(s)
        PROVE  LoggerInv'
    <2>1. /\ UNCHANGED <<cmdVars, countVars, threadVars, cur>>
          /\ Sender' = Sender
      BY <1>1, SenderStepIs, SameSenders DEF cmdVars
    <2>2. CASE ~(is_data_logger /\ ~cut)
      BY <2>1, <2>2 DEF LoggerInv, cmdVars, roleVars, threadVars
    <2>3. CASE is_data_logger /\ ~cut
      <3>1. pc # "none"
        <4>1. SUFFICES ASSUME pc = "none"
                       PROVE  FALSE
          OBVIOUS
        <4>2. sender[s].session = session /\ sender[s].at = "off" /\ session \in Nat
          BY <2>3, <4>1, ConstantsAre DEF LoggerInv, TypeOK
        <4>3. PICK now \in SenderType :
                \/ sender[s].session < session
                \/ \E m \in Message : Sends(s, m, now)
          BY <1>1, SenderStepIs
        <4>4. ~(sender[s].session < session)
          BY <4>2
        <4>5. QED
          BY <4>2, <4>3, <4>4 DEF Sends
      <3>2. session >= 1 /\ CountInv
        BY <2>3, <3>1 DEF LoggerInv, PhaseInv
      <3>3. CountInv' /\ Received' = Received
        BY <1>1, <3>2, SenderCount
      <3>4. pc \in Loop \cup {"exit"} => ArtInv'
        <4>1. pc \in Loop \cup {"exit"} => ArtInv
          BY <2>3 DEF LoggerInv
        <4>2. QED
          BY <2>1, <3>3, <4>1 DEF ArtInv, threadVars
      <3>5. pc = "exit" => (\A t \in Sender : Done(t)') /\ (~early => art.end # "open")
        <4>1. pc = "exit" => (\A t \in Sender : Done(t)) /\ (~early => art.end # "open")
          BY <2>3 DEF LoggerInv
        <4>2. QED
          BY <2>1, <4>1 DEF Done, countVars
      <3>6. pc' = pc /\ early' = early /\ art' = art
        BY <2>1 DEF threadVars
      <3>7. QED
        BY <2>1, <3>1, <3>3, <3>4, <3>5, <3>6 DEF LoggerInv
    <2>4. QED
      BY <2>2, <2>3
  <1>2. CASE PeerStep
    <2>1. ~is_data_logger /\ is_data_logger' = is_data_logger
      BY <1>2, PeerType DEF cmdVars, roleVars
    <2>2. QED
      BY <2>1 DEF LoggerInv
  <1>3. CASE CommandStep
    <2>1. /\ UNCHANGED <<roleVars, countVars, endSubRunMsg, eodFragmentsReceived, fragments_sent, art, cut, early,
                         cur, netVars>>
          /\ \/ state \in {"Ready", "Paused"} /\ pc' = "enter" /\ session' = session + 1
             \/ pc' = pc /\ session' = session
      BY <1>3, CommandIs
    <2>2. CASE pc' = pc /\ session' = session
      BY <2>1, <2>2, LoggerKept
    <2>3. CASE state \in {"Ready", "Paused"} /\ pc' = "enter" /\ session' = session + 1
      <3>1. /\ pc = "none" /\ eodFragmentsReceived = 0 /\ got = Zero /\ expected = Unknown
            /\ fragments_received = Zero /\ fragments_sent = Zero
        BY <2>3 DEF PhaseInv
      <3>2. is_data_logger' = is_data_logger /\ cut' = cut
        BY <2>1 DEF roleVars
      <3>3. CASE ~(is_data_logger /\ ~cut)
        BY <3>2, <3>3 DEF LoggerInv
      <3>4. CASE is_data_logger /\ ~cut
        <4>1. network = {} /\ \A s \in Sender : sender[s].session = session /\ sender[s].at = "off"
          BY <3>1, <3>4 DEF LoggerInv
        <4>2. CountInv'
          BY <2>1, <2>3, <3>1, <4>1, LaunchCount
        <4>3. QED
          BY <2>3, <4>2 DEF LoggerInv, Loop
      <3>5. QED
        BY <3>3, <3>4
    <2>4. QED
      BY <2>1, <2>2, <2>3
  <1>4. CASE LoggerStep
    BY <1>4, LoggerInvStep
  <1>5. CASE Enter
    <2>1. /\ pc = "enter" /\ pc' = "recv" /\ art' = Nothing /\ cut' = cut
          /\ UNCHANGED <<roleVars, session, netVars, countVars, fragments_sent, eodFragmentsReceived>>
      BY <1>5, EnterIs DEF cmdVars
    <2>2. is_data_logger' = is_data_logger
      BY <2>1 DEF roleVars
    <2>3. CASE ~(is_data_logger /\ ~cut)
      BY <2>1, <2>2, <2>3 DEF LoggerInv
    <2>4. CASE is_data_logger /\ ~cut
      <3>1. CountInv /\ got = Zero /\ expected = Unknown
        BY <2>1, <2>4 DEF LoggerInv, PhaseInv
      <3>2. CountInv' /\ Received' = Received
        BY <2>1, <3>1, CountSame
      <3>3. Received' = {}
        BY <3>1, <3>2, NothingReceived
      <3>4. ArtInv'
        BY <2>1, <3>3 DEF ArtInv, Nothing
      <3>5. QED
        BY <2>1, <3>2, <3>4 DEF LoggerInv
    <2>5. QED
      BY <2>3, <2>4
  <1>6. CASE Timeout
    <2>1. /\ UNCHANGED <<roleVars, session, netVars, countVars, fragments_sent, eodFragmentsReceived, early, cur>>
          /\ pc = "recv"
          /\ \/ pc' = "recv" /\ UNCHANGED <<art, endSubRunMsg, cut>>
             \/ cut' = (cut \/ is_data_logger)
      BY <1>6, TimeoutIs DEF cmdVars
    <2>2. CASE pc' = "recv" /\ UNCHANGED <<art, endSubRunMsg, cut>>
      BY <2>1, <2>2, LoggerKept
    <2>3. CASE cut' = (cut \/ is_data_logger)
      <3>1. is_data_logger' = is_data_logger
        BY <2>1 DEF roleVars
      <3>2. is_data_logger => cut'
        BY <2>3
      <3>3. QED
        BY <3>1, <3>2 DEF LoggerInv
    <2>4. QED
      BY <2>1, <2>2, <2>3
  <1>7. CASE Exit
    <2>1. /\ pc = "exit" /\ pc' = "none" /\ network' \subseteq network /\ cut' = cut
          /\ UNCHANGED <<cmdVars, sender>>
      BY <1>7, ExitIs
    <2>2. is_data_logger' = is_data_logger /\ Sender' = Sender /\ session' = session
      BY <2>1, SameSenders DEF cmdVars, roleVars
    <2>3. CASE ~(is_data_logger /\ ~cut)
      BY <2>1, <2>2, <2>3 DEF LoggerInv
    <2>4. CASE is_data_logger /\ ~cut
      <3>1. CountInv /\ \A s \in Sender : Done(s)
        BY <2>1, <2>4 DEF LoggerInv
      <3>2. network = {} /\ \A s \in Sender : sender[s].session = session /\ sender[s].at = "off"
        BY <3>1, AllDone
      <3>3. network' = {} /\ \A s \in Sender : sender'[s].session = session' /\ sender'[s].at = "off"
        BY <2>1, <2>2, <3>2
      <3>4. QED
        BY <2>1, <2>2, <3>3 DEF LoggerInv, Loop
    <2>5. QED
      BY <2>3, <2>4
  <1>8. CASE Take
    <2>1. ~is_data_logger /\ is_data_logger' = is_data_logger
      BY <1>8, TakeIs DEF cmdVars, roleVars
    <2>2. QED
      BY <2>1 DEF LoggerInv
  <1>9. QED
    BY <1>1, <1>2, <1>3, <1>4, <1>5, <1>6, <1>7, <1>8, Steps

-----------------------------------------------------------------------------
(* The theorems.                                                           *)

LEMMA Begins ==
  ASSUME Init
  PROVE  IInv
  <1>0. MaxSender \in Nat /\ MaxStreams \in Nat /\ MaxData \in Nat /\ MaxCopies \in Nat
    BY ConstantsAre
  <1>1. CmdType /\ PlaceType /\ CountType
    <2>1. true_data_sender_count \in 1 .. MaxSender /\ is_data_logger \in BOOLEAN
      BY AggregatorAssumption DEF Init
    <2>2. Zero \in [Sender -> Nat] /\ Unknown \in [Sender -> Nat \cup {-1}]
      BY DEF Zero, Unknown
    <2>3. session \in 0 .. MaxStreams
      BY <1>0 DEF Init
    <2>4. QED
      BY <2>1, <2>2, <2>3 DEF Init, CmdType, PlaceType, CountType, Idle
  <1>2. ThreadType
    <2>1. Zero \in [Sender -> Nat] /\ Nothing \in ArtType
      BY DEF Zero, Nothing, ArtType
    <2>2. QED
      BY <2>1 DEF Init, ThreadType
  <1>3. ShmType
    <2>1. stream \in StreamType
      BY <1>0 DEF Init, StreamType
    <2>2. QED
      BY <2>1 DEF Init, ShmType
  <1>4. NetType
    <2>1. [at |-> "off", session |-> 0, data |-> 0, count |-> 0] \in SenderType
      BY <1>0 DEF SenderType, Count
    <2>2. QED
      BY <2>1 DEF Init, NetType
  <1>5. TypeOK
    BY <1>1, <1>2, <1>3, <1>4, TypeParts
  <1>6. PhaseInv
    BY DEF Init, PhaseInv, Loop
  <1>7. SenderInv
    BY <1>0 DEF Init, SenderInv
  <1>8. SlotInv
    BY DEF Init, SlotInv
  <1>9. LoggerInv
    BY DEF Init, LoggerInv, Loop
  <1>10. QED
    BY <1>5, <1>6, <1>7, <1>8, <1>9 DEF IInv

\* The inductive invariant holds: the phases of the thread, the event builders, the
\* segment of the online monitor, and the data logger's account of the session.
THEOREM Inductive == Spec => []IInv
  <1>1. Init => IInv
    BY Begins
  <1>2. IInv /\ [Next]_vars => IInv'
    BY TypeStep, PhaseStep, SenderInvStep, SlotStep, LoggerNext DEF IInv
  <1>3. QED
    BY <1>1, <1>2, PTL DEF Spec

\* Every variable of the aggregator and of its peers keeps to its type.
THEOREM TypeCorrect == Spec => []TypeOK
  <1>1. IInv => TypeOK
    BY DEF IInv
  <1>2. QED
    BY <1>1, Inductive, PTL

\* When the data logger ends a session and none was cut short, every event builder has
\* ended it, MPI holds nothing for the next session, and art was offered all the data
\* and then the end of the subrun (process_fragments of AggregatorCore).
THEOREM EndsWhenComplete == Spec => []LoggerComplete
  <1>1. ASSUME IInv
        PROVE  LoggerComplete
    <2>1. SUFFICES ASSUME is_data_logger, pc = "exit", ~cut
                   PROVE  /\ network = {}
                          /\ \A s \in Sender : sender[s].session = session /\ sender[s].at = "off"
                          /\ ~early => /\ art.end # "open"
                                       /\ art.data = {[src |-> s, session |-> session, kind |-> "Data", n |-> n] :
                                                        s \in Sender, n \in 1 .. MaxData}
                                                     \cap {m \in Message : m.n <= sender[m.src].data}
      BY DEF LoggerComplete
    <2>2. TypeOK /\ CountInv /\ ArtInv /\ (\A s \in Sender : Done(s)) /\ (~early => art.end # "open")
      BY <1>1, <2>1 DEF IInv, LoggerInv
    <2>3. network = {} /\ Received = SentNow /\ \A s \in Sender : sender[s].session = session /\ sender[s].at = "off"
      BY <2>2, AllDone
    <2> DEFINE given == {m \in SentNow : m.kind = "Data"}
               all == {[src |-> s, session |-> session, kind |-> "Data", n |-> n] :
                         s \in Sender, n \in 1 .. MaxData}
               some == {m \in Message : m.n <= sender[m.src].data}
    <2>4. ~early => art.data = given
      <3>1. pc # "insert"
        BY <2>1
      <3>2. \A D : D \ {} = D
        OBVIOUS
      <3>3. QED
        BY <2>2, <2>3, <3>1, <3>2 DEF ArtInv
    <2>5. \A s \in Sender : sender[s].data \in 0 .. MaxData
      BY <2>2 DEF TypeOK
    <2>6. given \subseteq all \cap some
      <3>1. ASSUME NEW m \in SentNow, m.kind = "Data"
            PROVE  m \in all /\ m \in some
        <4>1. /\ m \in Message /\ m.src \in Sender /\ m.session = session /\ m.n \in 1 .. sender[m.src].data
          BY <3>1, SentIs
        <4>2. m.n \in 1 .. MaxData /\ m.n <= sender[m.src].data
          BY <2>5, <4>1, ConstantsAre
        <4>3. m = [src |-> m.src, session |-> session, kind |-> "Data", n |-> m.n]
          BY <3>1, <4>1 DEF Message
        <4>4. QED
          BY <4>1, <4>2, <4>3
      <3>2. QED
        BY <3>1
    <2>7. all \cap some \subseteq given
      <3>1. ASSUME NEW s \in Sender, NEW n \in 1 .. MaxData,
                   NEW m \in some, m = [src |-> s, session |-> session, kind |-> "Data", n |-> n]
            PROVE  m \in SentNow /\ m.kind = "Data"
        <4>1. m.src = s /\ m.session = session /\ m.kind = "Data" /\ m.n = n /\ m \in Message
          BY <3>1
        <4>2. n \in 1 .. sender[s].data
          BY <2>5, <3>1, <4>1
        <4>3. SentBy(m)
          BY <2>3, <4>1, <4>2 DEF SentBy
        <4>4. QED
          BY <4>1, <4>3 DEF SentNow
      <3>2. QED
        BY <3>1
    <2>8. given = all \cap some
      BY <2>6, <2>7
    <2>9. QED
      BY <2>2, <2>3, <2>4, <2>8
  <1>2. QED
    BY <1>1, Inductive, PTL

\* Once art has been given the end of the subrun it is given nothing before the next
\* session (endSubRunMsg, held back in process_fragments).
THEOREM MarkerIsLast == Spec => MarkerLast
  <1>1. ASSUME IInv, [Next]_vars
        PROVE  art.end # "open" /\ pc # "enter" => art' = art
    <2>1. TypeOK /\ PhaseInv /\ SenderInv
      BY <1>1 DEF IInv
    <2>2. SUFFICES ASSUME art.end # "open", pc # "enter"
                   PROVE  art' = art
      OBVIOUS
    <2>3. pc \notin Loop
      BY <2>1, <2>2 DEF PhaseInv
    <2>4. ASSUME NEW s \in Sender, SenderStep(s)
          PROVE  art' = art
      BY <2>1, <2>4, SenderStepIs DEF threadVars
    <2>5. CASE PeerStep
      BY <2>1, <2>5, PeerType DEF threadVars
    <2>6. CASE CommandStep
      BY <2>1, <2>6, CommandIs
    <2>7. CASE LoggerStep
      BY <2>1, <2>3, <2>7, LoggerType
    <2>8. CASE Enter
      BY <2>2, <2>8 DEF Enter
    <2>9. CASE Timeout
      BY <2>3, <2>9 DEF Timeout, Loop
    <2>10. CASE Exit
      BY <2>10 DEF Exit
    <2>11. CASE Take
      BY <2>3, <2>11 DEF Take, Loop
    <2>12. QED
      BY <1>1, <2>4, <2>5, <2>6, <2>7, <2>8, <2>9, <2>10, <2>11, Steps
  <1>2. ASSUME IInv, [Next]_vars
        PROVE  [art.end # "open" /\ pc # "enter" => art' = art]_vars
    BY <1>1, <1>2
  <1>3. QED
    BY <1>2, Inductive, PTL DEF Spec, MarkerLast

\* What the online monitor takes from shared memory refines the lossy stream: it comes
\* in the order of the copies, nothing twice, nothing from before it attached.
THEOREM FollowsTheStream == Spec => MonitorStreamSpec
  <1>1. Init => MonitorStream!Init
    BY DEF Init, MonitorStream!Init
  <1>2. ASSUME IInv, [Next]_vars
        PROVE  [MonitorStream!Next]_(MonitorStream!vars)
    <2>1. TypeOK /\ PhaseInv /\ SenderInv /\ SlotInv
      BY <1>2 DEF IInv
    <2> DEFINE c == stream.copied
    <2>2. /\ c \in Nat /\ stream.since \in Nat /\ stream.last \in Nat /\ stream.takes \in Nat
          /\ stream = [copied |-> c, since |-> stream.since, last |-> stream.last, takes |-> stream.takes]
      BY <2>1, StreamIs
    <2>3. ASSUME stream' = stream
          PROVE  [MonitorStream!Next]_(MonitorStream!vars)
      BY <2>3 DEF MonitorStream!vars
    <2>4. ASSUME NEW s \in Sender, SenderStep(s)
          PROVE  [MonitorStream!Next]_(MonitorStream!vars)
      BY <2>1, <2>3, <2>4, SenderStepIs DEF shmVars
    <2>5. CASE PeerStep
      <3>1. \/ stream' = stream
            \/ stream' = [copied |-> c + 1, since |-> stream.since, last |-> stream.last, takes |-> stream.takes]
        BY <2>1, <2>5, PeerSlot
      <3>2. CASE stream' = [copied |-> c + 1, since |-> stream.since, last |-> stream.last, takes |-> stream.takes]
        <4>1. MonitorStream!Copy
          BY <3>2 DEF MonitorStream!Copy
        <4>2. QED
          BY <4>1 DEF MonitorStream!Next
      <3>3. QED
        BY <2>3, <3>1, <3>2
    <2>6. CASE CommandStep
      BY <2>1, <2>3, <2>6, CommandIs DEF shmVars
    <2>7. CASE LoggerStep
      BY <2>1, <2>3, <2>7, LoggerType DEF shmVars
    <2>8. CASE Enter
      <3>1. stream' = stream \/ stream' = [stream EXCEPT !.since = c]
        BY <2>1, <2>8, EnterIs DEF TypeOK
      <3>2. CASE stream' = [stream EXCEPT !.since = c]
        <4>1. stream' = [copied |-> c, since |-> c, last |-> stream.last, takes |-> stream.takes]
          BY <2>2, <3>2
        <4>2. MonitorStream!Attach
          BY <4>1 DEF MonitorStream!Attach
        <4>3. QED
          BY <4>2 DEF MonitorStream!Next
      <3>3. QED
        BY <2>3, <3>1, <3>2
    <2>9. CASE Timeout
      BY <2>1, <2>3, <2>9, TimeoutIs DEF shmVars
    <2>10. CASE Exit
      BY <2>1, <2>3, <2>10, ExitIs
    <2>11. CASE Take
      <3> DEFINE g == shm["self"]
                 n == slot[g].n
      <3>1. /\ ~is_data_logger /\ g \in Segment /\ slot[g] \in Copied
            /\ stream' = [stream EXCEPT !.last = n, !.takes = @ + 1]
        BY <2>1, <2>11, TakeIs
      <3>2. slot[g] # None /\ g # 0
        BY <3>1 DEF None, Copied, Segment
      <3>3. stream.since < n /\ stream.last < n /\ n <= c /\ n \in Nat
        <4>1. stream.since < n /\ stream.last < n /\ n <= c
          BY <2>1, <3>1, <3>2 DEF SlotInv
        <4>2. n \in Nat
          BY <3>1, ConstantsAre DEF Copied
        <4>3. QED
          BY <4>1, <4>2
      <3> HIDE DEF n, g
      <3>4. stream' = [copied |-> c, since |-> stream.since, last |-> n, takes |-> stream.takes + 1]
        BY <2>2, <3>1
      <3>5. n \in stream.since + 1 .. c
        BY <2>2, <3>3
      <3>6. MonitorStream!Take
        BY <3>3, <3>4, <3>5 DEF MonitorStream!Take
      <3>7. QED
        BY <3>6 DEF MonitorStream!Next
    <2>12. QED
      BY <1>2, <2>4, <2>5, <2>6, <2>7, <2>8, <2>9, <2>10, <2>11, Steps
  <1>3. QED
    BY <1>1, <1>2, Inductive, PTL DEF Spec, MonitorStreamSpec, MonitorStream!Spec
=============================================================================
