------------------------------ MODULE SHandles ------------------------------
(***************************************************************************)
(* artdaq/DAQrate/SHandles: the sending end of the fragment transport, one *)
(* operator for each method.  A module that EXTENDS this one says who calls *)
(* them.                                                                   *)
(*                                                                         *)
(* A message is copied into a buffer, and MPI reads it from there when it  *)
(* sends it: the buffer must not be used before.  A request of MPI_Isend is *)
(* a member of inflight until MPI has read the buffer; MPI_Send returns at *)
(* that moment.  dest_start_ is 0.                                         *)
(***************************************************************************)
EXTENDS Naturals, Sequences, FiniteSets, SequencesExt

CONSTANTS
  BufferCount,    \* buffer_count_
  DestCount,      \* dest_count_
  BroadcastSends  \* broadcast_sends_

ASSUME SHandlesAssumption ==
  /\ BufferCount \in Nat \ {0}
  /\ DestCount \in Nat \ {0}
  /\ BroadcastSends \in BOOLEAN

VARIABLES
  synchronous_sends,
  pos,              \* the next buffer findAvailable tests
  payload,          \* per buffer, the message in it
  sent_frag_count,  \* per destination
  outbox,           \* what the current sendFragment or destructor has still to send
  blocking,         \* what MPI_Send waits for, or NoRequest
  inflight,         \* the requests MPI has not finished
  stream,           \* per destination, the messages given to MPI (history)
  carried           \* per destination, those messages as MPI read them, or NoMessage

handleVars == <<synchronous_sends, pos, payload, sent_frag_count, outbox, blocking>>
mpiVars == <<inflight, stream, carried>>
sendVars == <<handleVars, mpiVars>>

Buffer == 0 .. BufferCount - 1
Dest == 0 .. DestCount - 1

\* A fragment, with its place in the run; or an EOD, with the number it announces.
Message == [eod : BOOLEAN, run : Nat, from : Nat, n : Nat]
EODFrag(n) == [eod |-> TRUE, run |-> 0, from |-> 0, n |-> n]
NoMessage == [eod |-> FALSE, run |-> 0, from |-> 0, n |-> 0]

Request == [to : Dest, nth : Nat, buffer : Buffer]
NoRequest == [to |-> 0, nth |-> 0, buffer |-> 0]

SendTypeOK ==
  /\ synchronous_sends \in BOOLEAN
  /\ pos \in Buffer
  /\ payload \in [Buffer -> Message]
  /\ sent_frag_count \in [Dest -> Nat]
  /\ outbox \in Seq([to : Dest, msg : Message])
  /\ blocking \in Request
  /\ inflight \subseteq Request
  /\ stream \in [Dest -> Seq(Message)]
  /\ carried \in [Dest -> Seq(Message)]

\* A new SHandles.
Fresh ==
  [pos |-> 0, payload |-> [b \in Buffer |-> NoMessage], count |-> [d \in Dest |-> 0]]

SHandlesInit ==
  /\ synchronous_sends \in BOOLEAN
  /\ pos = Fresh.pos /\ payload = Fresh.payload /\ sent_frag_count = Fresh.count
  /\ outbox = <<>>
  /\ blocking = NoRequest
  /\ inflight = {}
  /\ stream = [d \in Dest |-> <<>>]
  /\ carried = [d \in Dest |-> <<>>]

NewSHandles ==
  /\ pos' = Fresh.pos /\ payload' = Fresh.payload /\ sent_frag_count' = Fresh.count
  /\ UNCHANGED <<synchronous_sends, outbox, blocking, mpiVars>>

-----------------------------------------------------------------------------
\* The methods.

calcDest(frag) == frag.n % DestCount

ToAll(MessageTo(_)) == [i \in 1 .. DestCount |-> [to |-> i - 1, msg |-> MessageTo(i - 1)]]

Destinations(frag) == IF BroadcastSends THEN Dest ELSE {calcDest(frag)}

sendFragment(frag) ==
  /\ outbox' = IF BroadcastSends THEN ToAll(LAMBDA d : frag)
               ELSE <<[to |-> calcDest(frag), msg |-> frag]>>
  /\ UNCHANGED <<synchronous_sends, pos, payload, sent_frag_count, blocking, mpiVars>>

\* Mutant: the EOD announces the fragments sent to all destinations.
sendEODFragsTotal ==
  /\ outbox' = ToAll(LAMBDA d : EODFrag(FoldFunction(+, 0, sent_frag_count)))
  /\ UNCHANGED <<synchronous_sends, pos, payload, sent_frag_count, blocking, mpiVars>>

\* The destructor begins.
sendEODFrags ==
  /\ outbox' = ToAll(LAMBDA d : EODFrag(sent_frag_count[d]))
  /\ UNCHANGED <<synchronous_sends, pos, payload, sent_frag_count, blocking, mpiVars>>

\* Mutant: the answer of MPI_Test is not looked at.
AvailableUntested(b) == TRUE

\* MPI_Test would say that buffer b is free.
Available(b) == \A r \in inflight : r.buffer # b

\* The EODs are not counted.
Counted(dest, msg) ==
  sent_frag_count' = IF msg.eod THEN sent_frag_count ELSE [sent_frag_count EXCEPT ![dest] = @ + 1]

\* The message is put in the buffer, and the send begins.
SendFrom(b) ==
  LET dest == Head(outbox).to
      msg == Head(outbox).msg
      request == [to |-> dest, nth |-> Len(stream[dest]) + 1, buffer |-> b]
  IN
  /\ payload' = [payload EXCEPT ![b] = msg]
  /\ outbox' = Tail(outbox)
  /\ inflight' = inflight \cup {request}
  /\ stream' = [stream EXCEPT ![dest] = Append(@, msg)]
  /\ carried' = [carried EXCEPT ![dest] = Append(@, NoMessage)]
  /\ IF synchronous_sends THEN blocking' = request /\ UNCHANGED sent_frag_count
     ELSE Counted(dest, msg) /\ UNCHANGED blocking

\* One round of the loop of findAvailable, and the send when it finds.
TestBuffer ==
  /\ outbox # <<>>
  /\ blocking = NoRequest
  /\ pos' = (pos + 1) % BufferCount
  /\ IF Available(pos) THEN SendFrom(pos)
     ELSE UNCHANGED <<payload, outbox, sent_frag_count, blocking, mpiVars>>
  /\ UNCHANGED synchronous_sends

\* MPI_Send returns.
SendReturns ==
  /\ blocking # NoRequest
  /\ blocking \notin inflight
  /\ Counted(blocking.to, payload[blocking.buffer])
  /\ blocking' = NoRequest
  /\ UNCHANGED <<synchronous_sends, pos, payload, outbox, mpiVars>>

\* sendFragment has returned.
SendDone == outbox = <<>> /\ blocking = NoRequest

\* Mutant: the destructor does not wait.
waitAllNot == TRUE

waitAll == inflight = {}

\* The destructor has returned.
Destroyed == SendDone /\ waitAll

-----------------------------------------------------------------------------
\* MPI reads a buffer.
Transfer ==
  /\ \E r \in inflight :
       /\ inflight' = inflight \ {r}
       /\ carried' = [carried EXCEPT ![r.to][r.nth] = payload[r.buffer]]
  /\ UNCHANGED <<handleVars, stream>>
=============================================================================
