------------------------------ MODULE RHandles ------------------------------
(***************************************************************************)
(* The receiving end of the fragment transport, artdaq/DAQrate/RHandles,   *)
(* fed by SrcCount senders (artdaq/DAQrate/SHandles) through MPI.          *)
(*                                                                         *)
(* Message n of a source is the n-th message that source addressed to this *)
(* receiver.  The last one, sent by ~SHandles, is the End-Of-Data (EOD)    *)
(* fragment, whose payload is the number of messages sent before it.       *)
(* Ranks are abstracted to source indices (rank - src_start_).             *)
(*                                                                         *)
(* MPI is external.  Receives posted for a source match the messages of    *)
(* that source in the order they were sent, but a later, shorter transfer  *)
(* may complete before an earlier, longer one.  Which of the buffers       *)
(* posted for a source takes its next message is left open: they are       *)
(* interchangeable for that source.                                        *)
(***************************************************************************)
EXTENDS Integers, FiniteSets

CONSTANTS
  SrcCount,      \* src_count_
  BufferCount,   \* buffer_count_
  MaxFragments,  \* bound: data fragments one source may send
  Polling,       \* TRUE: the caller passes a timeout (MPI_Testsome); FALSE: MPI_Waitany
  ForcedExit     \* TRUE: the caller may destroy the object while sources are active

\* The constructor throws for an empty set of sources or of buffers.
ASSUME RHandlesAssumption ==
  /\ SrcCount \in Nat \ {0}
  /\ BufferCount \in Nat \ {0}
  /\ MaxFragments \in Nat
  /\ Polling \in BOOLEAN
  /\ ForcedExit \in BOOLEAN

Source == 0 .. SrcCount - 1
Buffer == 0 .. BufferCount - 1
MPI_ANY_SOURCE == -1

VARIABLES
  issued,   \* per source: messages handed to MPI (the EOD included)
  ended,    \* per source: ~SHandles has sent the EOD
  matched,  \* per source: messages matched with a posted receive
  reqs,     \* per buffer: state of its MPI_Request
  content,  \* per buffer: number of the message it holds, 0 if none
  req_sources,         \* per buffer: source it was posted for, or MPI_ANY_SOURCE
  last_source_posted,  \* source of the most recent post_
  ready,               \* ready_indices_: finished requests saved by MPI_Testsome
  src_status,          \* per source: SENDING, PENDING (EOD seen) or DONE
  expected_count,      \* per source: count announced by its EOD
  recv_frag_count,     \* per source: data fragments received
  delivered,           \* per source: messages returned by recvFragment (history)
  phase,    \* "open", "repost" (in cancelAndRepost_), "closed", or the exception thrown
  cursor,   \* loop index of cancelAndRepost_
  doneSrc   \* argument of cancelAndRepost_

netVars == <<issued, ended, matched>>
bufVars == <<reqs, content, req_sources, last_source_posted, ready>>
srcVars == <<src_status, expected_count, recv_frag_count, delivered>>
ctlVars == <<phase, cursor, doneSrc>>
vars == <<netVars, bufVars, srcVars, ctlVars>>

RequestState == {"null", "posted", "matched", "complete"}
SourceStatus == {"SENDING", "PENDING", "DONE"}
Phase == {"open", "repost", "closed", "extra_fragments", "err_request"}

TypeOK ==
  /\ issued \in [Source -> 0 .. MaxFragments + 1]
  /\ ended \in [Source -> BOOLEAN]
  /\ matched \in [Source -> 0 .. MaxFragments + 1]
  /\ reqs \in [Buffer -> RequestState]
  /\ content \in [Buffer -> 0 .. MaxFragments + 1]
  /\ req_sources \in [Buffer -> Source \cup {MPI_ANY_SOURCE}]
  /\ last_source_posted \in Source
  /\ ready \in SUBSET Buffer
  /\ src_status \in [Source -> SourceStatus]
  /\ expected_count \in [Source -> 0 .. MaxFragments]
  /\ recv_frag_count \in [Source -> Nat]
  /\ delivered \in [Source -> SUBSET (1 .. MaxFragments + 1)]
  /\ phase \in Phase
  /\ cursor \in 0 .. BufferCount
  /\ doneSrc \in Source

\* The constructor posts buffer i for source i modulo the number of sources.
Init ==
  /\ issued = [s \in Source |-> 0]
  /\ ended = [s \in Source |-> FALSE]
  /\ matched = [s \in Source |-> 0]
  /\ reqs = [b \in Buffer |-> "posted"]
  /\ content = [b \in Buffer |-> 0]
  /\ req_sources = [b \in Buffer |-> b % SrcCount]
  /\ last_source_posted = (BufferCount - 1) % SrcCount
  /\ ready = {}
  /\ src_status = [s \in Source |-> "SENDING"]
  /\ expected_count = [s \in Source |-> 0]
  /\ recv_frag_count = [s \in Source |-> 0]
  /\ delivered = [s \in Source |-> {}]
  /\ phase = "open"
  /\ cursor = 0
  /\ doneSrc = 0

-----------------------------------------------------------------------------
\* The senders.

\* SHandles::sendFragment to this receiver.
SendFragment(s) ==
  /\ ~ended[s]
  /\ issued[s] < MaxFragments
  /\ issued' = [issued EXCEPT ![s] = @ + 1]
  /\ UNCHANGED <<ended, matched, bufVars, srcVars, ctlVars>>

\* ~SHandles: the EOD carries the number of fragments sent before it.
SendEOD(s) ==
  /\ ~ended[s]
  /\ ended' = [ended EXCEPT ![s] = TRUE]
  /\ issued' = [issued EXCEPT ![s] = @ + 1]
  /\ UNCHANGED <<matched, bufVars, srcVars, ctlVars>>

IsEOD(s, n) == ended[s] /\ n = issued[s]

-----------------------------------------------------------------------------
\* MPI (external): matching in sending order, completion in any order.

Match(s) ==
  /\ matched[s] < issued[s]
  /\ \E b \in Buffer :
       /\ reqs[b] = "posted"
       /\ req_sources[b] = s
       /\ reqs' = [reqs EXCEPT ![b] = "matched"]
       /\ content' = [content EXCEPT ![b] = matched[s] + 1]
  /\ matched' = [matched EXCEPT ![s] = @ + 1]
  /\ UNCHANGED <<issued, ended, req_sources, last_source_posted, ready, srcVars, ctlVars>>

Complete(b) ==
  /\ reqs[b] = "matched"
  /\ reqs' = [reqs EXCEPT ![b] = "complete"]
  /\ UNCHANGED <<netVars, content, req_sources, last_source_posted, ready, srcVars, ctlVars>>

-----------------------------------------------------------------------------
\* The receiver.

anySourceActive == \E s \in Source : src_status[s] # "DONE"

\* nextSource_() returns next when the sources have the given status: the first
\* source after last_source_posted_ that is not DONE.  The search stops before
\* it comes back to last_source_posted_ itself.
NextSource(next, status) ==
  \/ /\ next = MPI_ANY_SOURCE
     /\ \A s \in Source \ {last_source_posted} : status[s] = "DONE"
  \/ \E k \in 1 .. SrcCount - 1 :
       /\ next = (last_source_posted + k) % SrcCount
       /\ status[next] # "DONE"
       /\ \A j \in 1 .. k - 1 : status[(last_source_posted + j) % SrcCount] = "DONE"

\* Mutant: the receive is posted for the source posted before.
PostStale(b, s, r) ==
  /\ reqs' = [r EXCEPT ![b] = "posted"]
  /\ req_sources' = [req_sources EXCEPT ![b] = last_source_posted]
  /\ last_source_posted' = s

\* post_(b, s), requests being r just before.
Post(b, s, r) ==
  /\ reqs' = [r EXCEPT ![b] = "posted"]
  /\ req_sources' = [req_sources EXCEPT ![b] = s]
  /\ last_source_posted' = s

\* Mutant: a buffer is retired when the next source in turn is DONE.
PostAdjacentOrRetire(b, status, r) ==
  LET next == (last_source_posted + 1) % SrcCount
  IN  IF status[next] # "DONE"
      THEN Post(b, next, r)
      ELSE /\ reqs' = [r EXCEPT ![b] = "null"]
           /\ req_sources' = [req_sources EXCEPT ![b] = MPI_ANY_SOURCE]
           /\ UNCHANGED last_source_posted

\* Give buffer b to the next active source, or retire it.
PostNextOrRetire(b, status, r) ==
  \/ \E next \in Source : NextSource(next, status) /\ Post(b, next, r)
  \/ /\ NextSource(MPI_ANY_SOURCE, status)
     /\ reqs' = [r EXCEPT ![b] = "null"]
     /\ req_sources' = [req_sources EXCEPT ![b] = MPI_ANY_SOURCE]
     /\ UNCHANGED last_source_posted

Completed == {b \in Buffer : reqs[b] = "complete"}

\* recvFragment obtains the finished request of buffer b.  MPI_Testsome
\* deallocates every completed request; the batch is consumed by this and the
\* following calls, in an order that is left open.  With nothing completed the
\* call returns RECV_TIMEOUT, or MPI_Waitany blocks, and nothing changes.
Arrived(b) ==
  \/ /\ ready = {}
     /\ b \in Completed
     /\ ready' = IF Polling THEN Completed \ {b} ELSE {}
  \/ /\ b \in ready
     /\ ready' = ready \ {b}

\* The requests once the batch of this call is saved.
RequestsAfter(b) ==
  [c \in Buffer |-> IF c = b \/ c \in ready' THEN "null" ELSE reqs[c]]

\* Fragment accounting for the message in buffer b, and the status it leads to.
CountAfter(b) ==
  LET s == req_sources[b] IN recv_frag_count[s] + (IF IsEOD(s, content[b]) THEN 0 ELSE 1)
\* Mutant: the EOD counts itself.
ExpectedWithEOD(b) ==
  LET s == req_sources[b]
  IN  IF IsEOD(s, content[b]) THEN content[b] ELSE expected_count[s]
ExpectedAfter(b) ==
  LET s == req_sources[b]
  IN  IF IsEOD(s, content[b]) THEN content[b] - 1 ELSE expected_count[s]
StatusSeen(b) ==
  LET s == req_sources[b] IN IF IsEOD(s, content[b]) THEN "PENDING" ELSE src_status[s]
\* Mutant: a source is DONE as soon as its EOD is seen.
IsLastUncounted(b) == StatusSeen(b) = "PENDING"
IsLast(b) == StatusSeen(b) = "PENDING" /\ CountAfter(b) = ExpectedAfter(b)

Account(b) ==
  LET s == req_sources[b]
  IN  /\ recv_frag_count' = [recv_frag_count EXCEPT ![s] = CountAfter(b)]
      /\ expected_count' = [expected_count EXCEPT ![s] = ExpectedAfter(b)]
      /\ delivered' = [delivered EXCEPT ![s] = @ \cup {content[b]}]
      /\ content' = [content EXCEPT ![b] = 0]

\* recvFragment takes a message that is not the last of its source.  The buffer
\* is posted again for that source; but if the source was DONE already, the
\* message is an extra fragment and the call throws.
ReceiveMore(b) ==
  /\ phase = "open"
  /\ anySourceActive
  /\ Arrived(b)
  /\ ~IsLast(b)
  /\ Account(b)
  /\ src_status' = [src_status EXCEPT ![req_sources[b]] = StatusSeen(b)]
  /\ IF StatusSeen(b) = "DONE"
     THEN /\ phase' = "extra_fragments"
          /\ reqs' = RequestsAfter(b)
          /\ UNCHANGED <<req_sources, last_source_posted>>
     ELSE Post(b, req_sources[b], RequestsAfter(b)) /\ UNCHANGED phase
  /\ UNCHANGED <<netVars, cursor, doneSrc>>

\* recvFragment takes the last message of a source: the source is DONE, its
\* buffer goes to another source, and cancelAndRepost_ starts.
ReceiveLast(b) ==
  LET status == [src_status EXCEPT ![req_sources[b]] = "DONE"]
  IN  /\ phase = "open"
      /\ anySourceActive
      /\ Arrived(b)
      /\ IsLast(b)
      /\ Account(b)
      /\ src_status' = status
      /\ PostNextOrRetire(b, status, RequestsAfter(b))
      /\ phase' = "repost"
      /\ cursor' = 0
      /\ doneSrc' = req_sources[b]
      /\ UNCHANGED netVars

\* One iteration of cancelAndRepost_.  A receive that is still posted is
\* cancelled.  MPI does not cancel a matched one: MPI_Wait completes it and its
\* message is dropped.  MPI_Cancel refuses a request that is already gone.
CancelAndRepost ==
  /\ phase = "repost"
  /\ cursor < BufferCount
  /\ IF req_sources[cursor] = doneSrc
     THEN IF reqs[cursor] = "null"
          THEN phase' = "err_request" /\ UNCHANGED <<bufVars, cursor>>
          ELSE /\ content' = [content EXCEPT ![cursor] = 0]
               /\ PostNextOrRetire(cursor, src_status, reqs)
               /\ cursor' = cursor + 1
               /\ UNCHANGED <<ready, phase>>
     ELSE cursor' = cursor + 1 /\ UNCHANGED <<bufVars, phase>>
  /\ UNCHANGED <<netVars, srcVars, doneSrc>>

\* cancelAndRepost_ and recvFragment return.
EndRepost ==
  /\ phase = "repost"
  /\ cursor = BufferCount
  /\ phase' = "open"
  /\ UNCHANGED <<netVars, bufVars, srcVars, cursor, doneSrc>>

\* ~RHandles: waitAll_ cancels the buffers that still have a source.
Destroy ==
  /\ phase = "open"
  /\ anySourceActive => ForcedExit
  /\ phase' = IF \E b \in Buffer : req_sources[b] # MPI_ANY_SOURCE /\ reqs[b] = "null"
              THEN "err_request" ELSE "closed"
  /\ reqs' = [b \in Buffer |-> "null"]
  /\ UNCHANGED <<netVars, content, req_sources, last_source_posted, ready, srcVars, cursor, doneSrc>>

\* The receiver is gone, destroyed or by an exception: nothing more need happen.
Terminated == phase \notin {"open", "repost"} /\ UNCHANGED vars

Sender(s) == SendFragment(s) \/ SendEOD(s)
Receiver ==
  \/ \E b \in Buffer : ReceiveMore(b) \/ ReceiveLast(b)
  \/ CancelAndRepost
  \/ EndRepost
Next ==
  \/ \E s \in Source : Sender(s) \/ Match(s)
  \/ \E b \in Buffer : Complete(b)
  \/ Receiver
  \/ Destroy
  \/ Terminated

Spec == Init /\ [][Next]_vars

\* The receive loop keeps calling recvFragment, MPI makes progress, and a run is
\* always stopped in the end, which destroys the SHandles of every sender.
FairSpec ==
  /\ Spec
  /\ \A s \in Source : WF_vars(SendEOD(s)) /\ WF_vars(Match(s))
  /\ \A b \in Buffer : WF_vars(Complete(b))
  /\ WF_vars(Receiver)

-----------------------------------------------------------------------------
\* Properties.

\* Once recvFragment has declared a source DONE, every message of that source,
\* its EOD included, has been returned to the caller, whatever the order in
\* which the buffers completed; none is left in a buffer or in MPI.
DoneMeansAllDelivered ==
  \A s \in Source : src_status[s] = "DONE" =>
    /\ ended[s]
    /\ delivered[s] = 1 .. issued[s]
    /\ matched[s] = issued[s]

\* The two LogicErrors of the receive path never fire: no fragment arrives from
\* a source that is DONE, and cancelAndRepost_ cancels only live requests.
NoLogicError == phase \notin {"extra_fragments", "err_request"}

\* A receive that cancelAndRepost_ is about to cancel is unmatched, so that the
\* cancellation drops no message.
CancelDropsNothing ==
  phase = "repost" => \A b \in cursor .. BufferCount - 1 :
                        req_sources[b] = doneSrc => reqs[b] = "posted"

\* While a source is active, some buffer is posted for, or holds a message of,
\* an active source: the receiver never waits on nothing, with no more buffers
\* than sources, and although nextSource_() skips last_source_posted_.
ActiveSourceListened ==
  phase \in {"open", "repost"} /\ anySourceActive =>
    \E b \in Buffer : /\ req_sources[b] # MPI_ANY_SOURCE
                      /\ src_status[req_sources[b]] # "DONE"
                      /\ reqs[b] # "null" \/ b \in ready

\* With as many buffers as sources no active source is ever without a buffer.
EverySourceListened ==
  phase \in {"open", "repost"} =>
    \A s \in Source : src_status[s] # "DONE" => \E b \in Buffer : req_sources[b] = s

\* When all senders have finished, all sources are eventually DONE, even with
\* fewer buffers than sources.
AllEventuallyDone == (\A s \in Source : ended[s]) ~> ~anySourceActive

\* What the receiver promises: an unordered, reliable, terminating stream.
Stream == INSTANCE FragmentStream WITH
            sent <- issued,
            closed <- ended,
            got <- delivered,
            finished <- [s \in Source |-> src_status[s] = "DONE"]
StreamSpec == Stream!Spec
=============================================================================
