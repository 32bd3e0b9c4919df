--------------------------- MODULE DataLoggerArt ----------------------------
(***************************************************************************)
(* The art job of the data logger: the event store used by AggregatorCore  *)
(* as in EventStoreUse, with a group of sequence IDs in each RawEvent;     *)
(* NetMonTransportService, which takes the RawEvents off the queue and     *)
(* gives their messages out one by one; and NetMonInput, which makes runs, *)
(* subruns and events of them.                                             *)
(*                                                                         *)
(* A fragment here is a message of an event builder: an event, made in the *)
(* subrun during which it arrives.  The ends of the subruns that arrive    *)
(* with the events are put on the queue behind the flush, as one.          *)
(***************************************************************************)
EXTENDS EventStoreUse, Art

VARIABLES
  art_initialized_,    \* AggregatorCore: an Init message has come
  subrunOf,            \* accepted fragment -> its subrun (it is in the message)
  unended,             \* runs whose last subrun was ended without a message (history)
  recvd_fragments_,    \* NetMonTransportService: what is left of a RawEvent
  constructed, shutdownMsgReceived_, outputFileCloseNeeded_,  \* NetMonInput
  written              \* the calls of the output modules (history)

loggerVars == <<art_initialized_, subrunOf, unended>>
inputVars == <<recvd_fragments_, constructed, shutdownMsgReceived_, outputFileCloseNeeded_>>
allVars == <<vars, artVars, loggerVars, inputVars, written>>

AllTypeOK ==
  /\ TypeOK
  /\ ArtTypeOK
  /\ art_initialized_ \in BOOLEAN
  /\ subrunOf \in [accepted -> (1 .. MaxRun) \X (1 .. MaxSubrun)]
  /\ unended \subseteq 1 .. MaxRun
  /\ recvd_fragments_ \subseteq Fragment /\ Cardinality(recvd_fragments_) < FragmentsPerEvent
  /\ constructed \in BOOLEAN /\ shutdownMsgReceived_ \in BOOLEAN /\ outputFileCloseNeeded_ \in BOOLEAN
  /\ \A i \in DOMAIN written : written[i].call \in {"write", "writeSubRun"}

AllInit ==
  /\ Init
  /\ ArtInit
  /\ art_initialized_ = FALSE
  /\ subrunOf = [f \in {} |-> 0]
  /\ unended = {}
  /\ recvd_fragments_ = {}
  /\ constructed = FALSE /\ shutdownMsgReceived_ = FALSE /\ outputFileCloseNeeded_ = FALSE
  /\ written = <<>>

-----------------------------------------------------------------------------
\* AggregatorCore.

\* The Init message is the first to come and finds the queue empty; later ones are ignored.
ReceiveInit ==
  /\ client = "running"
  /\ ~art_initialized_
  /\ art_initialized_' = TRUE
  /\ Enqueue("init")
  /\ UNCHANGED <<useVars, subrunOf, unended>>

\* A message before the Init would be dropped.
ReceiveEvent(f) ==
  /\ art_initialized_
  /\ InsertFragment(f)
  /\ subrunOf' = [g \in accepted' |-> IF g = f THEN <<run_id, subrun_id>> ELSE subrunOf[g]]
  /\ UNCHANGED <<art_initialized_, unended>>

\* All messages have come: the flush, then the end of the subrun, tried once.
FlushStore ==
  /\ art_initialized_
  /\ BeginFlush \/ FlushOne \/ EndFlush
  /\ UNCHANGED loggerVars
EndSession ==
  /\ EndSubrun
  /\ unended' = IF Full THEN unended \cup {run_id} ELSE unended \ {run_id}
  /\ UNCHANGED <<art_initialized_, subrunOf>>

\* Without a message that ends the subrun, a session that times out is over with
\* neither: what is in the store stays there, as after a flush that failed.
Cut ==
  /\ Goto("running", "ended")
  /\ flushFailed' = (flushFailed \/ DOMAIN events # {})
  /\ unended' = unended \cup {run_id}
  /\ UNCHANGED <<storeVars, runs, accepted, art_initialized_, subrunOf>>

\* stop puts no marker on the queue.
StopRun ==
  /\ Goto("ended", "idle")
  /\ UNCHANGED <<storeVars, runs, accepted, flushFailed, loggerVars>>

Command == (StartRun \/ StartSubrun \/ EndOfData) /\ UNCHANGED loggerVars

-----------------------------------------------------------------------------
\* NetMonTransportService::receiveMessage.

\* Mutant: the fragments that follow the first are dropped with their RawEvent.
RestDropped(frags, f) == {}

Rest(frags, f) == frags \ {f}

\* The fragments at hand, those of the next item when none is left of the last.
AtHand ==
  IF recvd_fragments_ # {} THEN recvd_fragments_
  ELSE IF queue # <<>> THEN Head(queue).frags
  ELSE {}

\* The fragments of a RawEvent are given out in the order of their sequence IDs.
ReceiveFragment(f) ==
  /\ f \in AtHand
  /\ \A g \in AtHand : f.seq <= g.seq
  /\ IF recvd_fragments_ = {} THEN Dequeue ELSE UNCHANGED storeVars
  /\ recvd_fragments_' = Rest(AtHand, f)

\* A RawEvent with a single fragment, the Init or the end of a subrun, or the end of data.
ReceiveItem(kind) ==
  /\ recvd_fragments_ = {}
  /\ Dequeue
  /\ Head(queue).kind = kind
  /\ UNCHANGED recvd_fragments_

\* A null message.
ReceiveNull == ReceiveItem("endOfData")

-----------------------------------------------------------------------------
\* NetMonInput.

\* The constructor reads the Init message; null is an exception.
Construct ==
  /\ ~constructed
  /\ ReceiveItem("init")
  /\ constructed' = TRUE
  /\ UNCHANGED <<artVars, shutdownMsgReceived_, outputFileCloseNeeded_, written>>
ConstructFails ==
  /\ ~constructed
  /\ ReceiveNull
  /\ complained' = TRUE
  /\ UNCHANGED <<inR, inSR, open, constructed, shutdownMsgReceived_, outputFileCloseNeeded_, written>>

\* The run is compared, but of the subrun only its number within the run.
NewRun(subrun) == inR # subrun[1]
NewSubrun(subrun) == inSR = NoSubrun \/ inSR[2] # subrun[2]

\* A fragment is an event message.
readAndConstructPrincipal(f) ==
  LET subrun == subrunOf[f] IN
    Made(IF NewRun(subrun) THEN subrun[1] ELSE None,
         IF NewSubrun(subrun) THEN subrun ELSE NoSubrun,
         <<[subrun |-> subrun, event |-> f]>>)

\* Mutant: neighbouring ends of subruns all make the flush subrun.
ReadEndSubRunAlways == Made(Flush, FlushSubrun, <<>>)

\* Two neighbouring ends of subruns: art is at the flush subrun already.
ReadEndSubRun ==
  IF inR = Flush /\ inSR = FlushSubrun THEN Made(None, NoSubrun, <<>>)
  ELSE Made(Flush, FlushSubrun, <<>>)

\* The file is closed: the outputs write the subrun that is open.
Close == CloseFile /\ written' = written \o EndOpen

Read(made) ==
  /\ TakeOver(made)
  /\ written' = written \o Calls(made)
  /\ UNCHANGED <<constructed, shutdownMsgReceived_>>

\* readNext returns true, or false to have the file closed, or false on a null message.
ReadNextEvent ==
  /\ ~outputFileCloseNeeded_
  /\ \E f \in AtHand : ReceiveFragment(f) /\ Read(readAndConstructPrincipal(f))
  /\ UNCHANGED outputFileCloseNeeded_
ReadNextEndSubRun ==
  /\ ~outputFileCloseNeeded_
  /\ ReceiveItem("endSubrun")
  /\ Read(ReadEndSubRun)
  /\ outputFileCloseNeeded_' = TRUE
ReadNextClose ==
  /\ outputFileCloseNeeded_
  /\ outputFileCloseNeeded_' = FALSE
  /\ Close
  /\ UNCHANGED <<storeVars, recvd_fragments_, constructed, shutdownMsgReceived_>>
ReadNextEnd ==
  /\ ~outputFileCloseNeeded_
  /\ ReceiveNull
  /\ shutdownMsgReceived_' = TRUE
  /\ Close
  /\ UNCHANGED <<constructed, outputFileCloseNeeded_>>

ArtStep ==
  /\ ~shutdownMsgReceived_ /\ ~complained
  /\ \/ Construct \/ ConstructFails
     \/ constructed /\ (ReadNextEvent \/ ReadNextEndSubRun \/ ReadNextClose \/ ReadNextEnd)
  /\ UNCHANGED <<useVars, loggerVars>>

-----------------------------------------------------------------------------

\* endOfData returns when the thread of art has returned, also when art has thrown.
JoinArt ==
  /\ Goto("joining", "shutdown")
  /\ shutdownMsgReceived_ \/ complained
  /\ UNCHANGED <<storeVars, runs, accepted, flushFailed, loggerVars>>

CallerStep ==
  /\ \/ ReceiveInit \/ \E f \in Fragment : ReceiveEvent(f)
     \/ FlushStore \/ EndSession \/ Cut
     \/ StopRun \/ Command \/ JoinArt
  /\ UNCHANGED <<artVars, inputVars, written>>

\* A shutdown that finds the queue full, with nobody left to read it, is refused.
AllTerminated == (client = "shutdown" \/ complained) /\ UNCHANGED allVars

AllNext == CallerStep \/ ArtStep \/ AllTerminated

AllSpec == AllInit /\ [][AllNext]_allVars

-----------------------------------------------------------------------------
\* Properties.

Written(call) == {i \in DOMAIN written : written[i].call = call}
EndedSubruns == {written[i].subrun : i \in Written("writeSubRun")}

Record ==
  INSTANCE SubrunRecord WITH
    None <- NoSubrun,
    current <- open,
    ended <- EndedSubruns,
    recorded <- [i \in Written("write") |-> written[i]]

\* As long as no events were left in the store, the data logger writes the subruns of its
\* event builders in order, each once, and every event once, in its own subrun; whichever
\* ends of subruns were lost or are neighbours, and however the events were grouped.
RecordsSubruns == Record!Init /\ [][flushFailed' \/ Record!Next]_<<open, written>>

\* art never complains, unless events were left in the store, no Init came before the
\* end of data, or the last subrun of some run was not ended and the next run used the
\* same subrun number.
NeverComplains ==
  complained => ~art_initialized_ \/ flushFailed \/ \E run \in unended : run < run_id

\* When endOfData has returned and art has not complained, every event that was accepted
\* has been written and every subrun that had an event has been ended.
ShutdownDelivers ==
  client = "shutdown" /\ ~flushFailed /\ ~complained =>
    /\ accepted = {written[i].event : i \in Written("write")}
    /\ EndedSubruns = {subrunOf[f] : f \in accepted}
=============================================================================
