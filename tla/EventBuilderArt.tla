-------------------------- MODULE EventBuilderArt ---------------------------
(***************************************************************************)
(* The art job of an event builder: the event store used as in             *)
(* EventStoreUse, RawEventQueueReader, which makes runs, subruns and       *)
(* events of what it takes off the queue, and NetMonOutput with            *)
(* NetMonTransportService, which send them to the aggregators.             *)
(*                                                                         *)
(* The messages of one subrun travel over one connection: it is made by    *)
(* the first message and ended, with its end-of-data fragments, after the  *)
(* message that ends the subrun.                                           *)
(***************************************************************************)
EXTENDS EventStoreUse, Art, SequencesExt

VARIABLES
  shutdownMsgReceived, outputFileCloseNeeded,  \* RawEventQueueReader
  initMsgSent_,                                \* NetMonOutput
  sent,        \* the messages sent, "eod" ending a connection (history)
  markerLost   \* some end of a subrun did not fit in the queue (history)

readerVars == <<shutdownMsgReceived, outputFileCloseNeeded>>
outputVars == <<initMsgSent_, sent>>
allVars == <<vars, artVars, readerVars, outputVars, markerLost>>

Message == [type : {"init", "data", "endSubrun", "shutdown", "eod"}]

AllTypeOK ==
  /\ TypeOK
  /\ ArtTypeOK
  /\ shutdownMsgReceived \in BOOLEAN /\ outputFileCloseNeeded \in BOOLEAN
  /\ initMsgSent_ \in BOOLEAN /\ markerLost \in BOOLEAN
  /\ \A i \in DOMAIN sent : [type |-> sent[i].type] \in Message

AllInit ==
  /\ Init
  /\ ArtInit
  /\ shutdownMsgReceived = FALSE /\ outputFileCloseNeeded = FALSE
  /\ initMsgSent_ = FALSE
  /\ sent = <<>>
  /\ markerLost = FALSE

-----------------------------------------------------------------------------
\* NetMonOutput and NetMonTransportService.

initMessage == [type |-> "init"]
endOfData == [type |-> "eod"]

\* write and writeSubRun, the latter with the end of the connection.
MessagesOf(c) ==
  IF c.call = "write" THEN <<[type |-> "data", subrun |-> c.subrun, event |-> c.event]>>
  ELSE <<[type |-> "endSubrun", subrun |-> c.subrun], endOfData>>

Messages(calls) == FlattenSeq([i \in DOMAIN calls |-> MessagesOf(calls[i])])

\* Mutant: each subrun begins with an Init.
OutputInitAgain(calls) ==
  /\ initMsgSent_' = (initMsgSent_ \/ calls # <<>>)
  /\ sent' = sent \o (IF calls = <<>> THEN <<>> ELSE <<initMessage>>) \o Messages(calls)

\* The first of them sends an Init message before.
Output(calls) ==
  /\ initMsgSent_' = (initMsgSent_ \/ calls # <<>>)
  /\ sent' = sent \o (IF initMsgSent_ \/ calls = <<>> THEN <<>> ELSE <<initMessage>>) \o Messages(calls)

\* endJob, and the transport service destroyed: the message opens a connection of
\* its own, if there is none.
OutputEndJob(calls) ==
  /\ sent' = sent \o Messages(calls) \o <<[type |-> "shutdown"], endOfData>>
  /\ UNCHANGED initMsgSent_

-----------------------------------------------------------------------------
\* RawEventQueueReader.

NewRun(item) == inR # item.run
SubrunOf(item) == <<item.run, item.subrun>>

ReadEvent(item) ==
  Made(IF NewRun(item) THEN item.run ELSE None,
       IF inSR # SubrunOf(item) THEN SubrunOf(item) ELSE NoSubrun,
       <<[subrun |-> SubrunOf(item), event |-> item]>>)

ReadEndOfRun == Made(Flush, FlushSubrun, <<>>)

\* Mutant: an end of subrun always makes the flush subrun of the run.
ReadEndOfSubrunFlush(item) ==
  Made(IF NewRun(item) THEN item.run ELSE None, <<item.run, Flush>>, <<>>)

\* Only a subrun with events, the current one, needs a flush subrun to be ended; a
\* subrun without events is made, so that the file that is then closed has one.
ReadEndOfSubrun(item) ==
  CASE NewRun(item) -> Made(item.run, SubrunOf(item), <<>>)
    [] ~NewRun(item) /\ inSR # NoSubrun /\ ~IsFlush(inSR) /\ inSR[2] = item.subrun ->
         Made(None, <<inR, Flush>>, <<>>)
    [] OTHER -> Made(None, SubrunOf(item), <<>>)

Read(item) ==
  CASE item.kind = "event" -> ReadEvent(item)
    [] item.kind = "endRun" -> ReadEndOfRun
    [] item.kind = "endSubrun" -> ReadEndOfSubrun(item)

\* readNext returns true: art takes over what it made.
ReadNext ==
  LET item == Head(queue) IN
    /\ ~outputFileCloseNeeded
    /\ Dequeue
    /\ item.kind # "endOfData"
    /\ outputFileCloseNeeded' = (item.kind = "endSubrun")
    /\ TakeOver(Read(item))
    /\ Output(Calls(Read(item)))
    /\ UNCHANGED shutdownMsgReceived

\* readNext returns false: the file is to be closed, ...
ReadNextClose ==
  /\ outputFileCloseNeeded
  /\ outputFileCloseNeeded' = FALSE
  /\ CloseFile
  /\ Output(EndOpen)
  /\ UNCHANGED <<storeVars, shutdownMsgReceived>>

\* ... or there is no more data: the job ends.  (The run has ended by then, or its
\* markers were lost; an Init has been sent before if a subrun is open.)
ReadNextEnd ==
  /\ ~outputFileCloseNeeded
  /\ Dequeue
  /\ Head(queue).kind = "endOfData"
  /\ shutdownMsgReceived' = TRUE
  /\ CloseFile
  /\ OutputEndJob(EndOpen)
  /\ UNCHANGED outputFileCloseNeeded

\* art ends when hasMoreData is false, or when it has thrown.
ArtDone == shutdownMsgReceived \/ complained

ArtStep ==
  /\ ~ArtDone
  /\ ReadNext \/ ReadNextClose \/ ReadNextEnd
  /\ UNCHANGED <<useVars, markerLost>>

-----------------------------------------------------------------------------

\* A caller that finds the queue full gives up the end of the subrun.
CallerStep ==
  /\ Caller \/ \E f \in Fragment : InsertFragment(f)
  /\ markerLost' = (markerLost \/ (client = "flushed" /\ Full))
  /\ UNCHANGED <<artVars, readerVars, outputVars>>

\* endOfData returns when the thread of art has returned, also when art has thrown.
JoinThrown ==
  /\ Goto("joining", "shutdown")
  /\ complained
  /\ UNCHANGED <<storeVars, runs, accepted, flushFailed, artVars, readerVars, outputVars, markerLost>>

\* A shutdown that finds the queue full, with nobody left to read it, is refused.
AllTerminated == (client = "shutdown" \/ complained) /\ UNCHANGED allVars

AllNext == CallerStep \/ ArtStep \/ JoinThrown \/ AllTerminated

Join == client = "joining" /\ (CallerStep \/ JoinThrown)

AllSpec == AllInit /\ [][AllNext]_allVars

\* art keeps reading, and endOfData waits for it to return.
AllFairSpec == AllSpec /\ WF_allVars(ArtStep) /\ WF_allVars(Join)

-----------------------------------------------------------------------------
\* Properties.

Sent(type) == {i \in DOMAIN sent : sent[i].type = type}
EndedSubruns == {sent[i].subrun : i \in Sent("endSubrun")}

Record ==
  INSTANCE SubrunRecord WITH
    None <- NoSubrun,
    current <- open,
    ended <- EndedSubruns,
    recorded <- [i \in Sent("data") |-> sent[i]]

\* As long as every flush has succeeded, an event builder tells the aggregators of its
\* subruns in order, of the end of each once, and sends each event once, while its own
\* subrun is the current one; whichever markers were lost and whichever subruns are empty.
RecordsSubruns == Record!Init /\ [][flushFailed' \/ Record!Next]_<<open, sent>>

\* As long as every flush has succeeded, every connection carries one subrun: its events,
\* then its end, once; and the Init is the first message of all.  Only a shutdown may
\* travel alone.  (An event that a failed flush left in the store may come after the end
\* of its subrun, and then shares a connection with the next.)
ConnectionPerSubrun ==
  ~flushFailed =>
    \A i \in Sent("eod") :
      LET first == Max({0} \cup {j \in Sent("eod") : j < i}) + 1
          messages == {sent[j] : j \in first .. i - 1}
          ends == {j \in first .. i - 1 : sent[j].type = "endSubrun"}
      IN  /\ Cardinality(ends) = 1 \/ (sent[i - 1].type = "shutdown" /\ first = i - 1)
          /\ Cardinality({m.subrun : m \in {n \in messages : n.type \in {"data", "endSubrun"}}}) <= 1
          /\ initMessage \in messages <=> first = 1 /\ sent[1].type = "init"

\* art never complains, unless the end of some subrun was lost and the run marker
\* after it was not.
NeverComplains == complained => markerLost

\* When endOfData has returned, everything accepted has been sent, and the end of every
\* subrun that had an event or whose marker was not lost; empty subruns included.
ShutdownDelivers ==
  client = "shutdown" /\ ~flushFailed /\ ~complained =>
    /\ accepted = UNION {sent[i].event.frags : i \in Sent("data")}
    /\ EndedSubruns = {SubrunOf(popped[i]) :
                         i \in {j \in DOMAIN popped : popped[j].kind \in {"event", "endSubrun"}}}
=============================================================================
