------------------------- MODULE BoardReaderProofs -------------------------
(***************************************************************************)
(* Proofs about the board reader and its SHandles: whatever the number of  *)
(* generators, destinations and buffers, in blocking and in non-blocking   *)
(* mode, with and without broadcasting, and whatever throws.               *)
(***************************************************************************)
EXTENDS BoardReader, SequenceTheorems, FiniteSetTheorems, TLAPS

-----------------------------------------------------------------------------
(* The inductive invariant, by parts.                                      *)

\* The destructor of an SHandles is under way.
Ending == pc \in {"old_eod", "eod"} \/ cmd = "init"

\* The EOD of destination d is still to be sent.
Waiting(d) == Ending /\ d >= DestCount - Len(outbox)

\* Where the two threads are, and whether there is an SHandles.
PhaseInv ==
  /\ state = "Ready" => pc = "none" /\ cmd \in {"idle", "init"}
  /\ state = "Paused" => pc = "none" /\ cmd = "idle"
  /\ cmd = "init" => state = "Ready" /\ sender
  /\ pc \in {"old_eod", "next", "send", "eod", "threw"} => sender
  /\ pc = "ended" => ~sender
  /\ ~sender => SendDone /\ inflight = {}
  /\ ~Ending /\ pc # "send" => SendDone
  /\ pc # "send" => frags = <<>>

\* A buffer is not used again before MPI has read it.
MPIInv ==
  /\ \A d \in Dest : Len(carried[d]) = Len(stream[d])
  /\ \A r \in inflight : r.nth \in 1 .. Len(stream[r.to]) /\ payload[r.buffer] = stream[r.to][r.nth]
  /\ blocking # NoRequest =>
       /\ stream[blocking.to] # <<>>
       /\ payload[blocking.buffer] = stream[blocking.to][Len(stream[blocking.to])]

\* k is the place of the last EOD of the messages, 0 if there is none.
LastEOD(messages, k) ==
  /\ k \in 0 .. Len(messages)
  /\ k = 0 \/ messages[k].eod
  /\ \A j \in k + 1 .. Len(messages) : ~messages[j].eod

\* A destination whose messages the SHandles still counts.
Counting(d) == sender /\ (Ending => Waiting(d))
Uncounted(d) ==
  IF blocking # NoRequest /\ blocking.to = d /\ ~payload[blocking.buffer].eod THEN 1 ELSE 0

CountInv ==
  /\ \A d \in Dest :
       IF Counting(d)
       THEN \E k \in 0 .. Len(stream[d]) :
              LastEOD(stream[d], k) /\ sent_frag_count[d] + Uncounted(d) = Len(stream[d]) - k
       ELSE LastEOD(stream[d], Len(stream[d]))
  /\ Ending => /\ Len(outbox) <= DestCount
               /\ blocking # NoRequest => payload[blocking.buffer].eod
               /\ \A i \in 1 .. Len(outbox) :
                    /\ outbox[i].to = DestCount - Len(outbox) + i - 1
                    /\ outbox[i].msg = EODFrag(sent_frag_count[outbox[i].to])

\* An EOD announces what came since the one before.
Announces(messages, i) ==
  \E k \in 0 .. i - 1 : /\ k = 0 \/ messages[k].eod
                        /\ \A j \in k + 1 .. i - 1 : ~messages[j].eod
                        /\ messages[i].n = i - 1 - k
AnnouncedInv ==
  \A d \in Dest : \A i \in 1 .. Len(stream[d]) : stream[d][i].eod => Announces(stream[d], i)

\* The EODs each destination has had, or has waiting.
Due == session - (IF sender /\ ~Ending THEN 1 ELSE 0) - (IF pc \in {"begin", "old_eod"} THEN 1 ELSE 0)
SessionInv ==
  \A d \in Dest : Cardinality(EODs(stream[d])) + (IF Waiting(d) THEN 1 ELSE 0) = Due

\* frags are the last of the fragments taken; the one before them is the one in the
\* outbox, when there is one.
Handed == Len(taken) - Len(frags)
InOutbox(d) == ~Ending /\ \E i \in DOMAIN outbox : outbox[i].to = d
OutboxInv ==
  /\ \A i \in 1 .. Len(taken) : ~taken[i].eod
  /\ Len(frags) <= Len(taken)
  /\ \A i \in 1 .. Len(frags) : frags[i] = taken[Handed + i]
  /\ ~Ending =>
       /\ \A i \in 1 .. Len(outbox) :
            /\ Handed >= 1
            /\ ~outbox[i].msg.eod
            /\ outbox[i].msg = taken[Handed]
            /\ outbox[i].to \in Destinations(taken[Handed])
       /\ \A i, j \in 1 .. Len(outbox) : outbox[i].to = outbox[j].to => i = j

\* What destination d was given, by its place among the fragments taken.
GivenAs(d, at) ==
  /\ \A j \in DataIn(stream[d]) :
       at[j] <= Handed /\ (InOutbox(d) => at[j] < Handed) /\ taken[at[j]] = stream[d][j]
  /\ \A j, k \in DataIn(stream[d]) : j < k => at[j] < at[k]
  /\ \A i \in 1 .. Handed : d \in Destinations(taken[i]) =>
       \/ \E j \in DataIn(stream[d]) : at[j] = i
       \/ taken[i] \in overlarge
       \/ i = Handed /\ InOutbox(d)
GivenInv == \A d \in Dest : \E at \in [DataIn(stream[d]) -> DOMAIN taken] : GivenAs(d, at)

IInv ==
  /\ TypeOK
  /\ PhaseInv /\ MPIInv /\ CarriedAsGiven
  /\ CountInv /\ AnnouncedInv /\ SessionInv
  /\ OutboxInv /\ GivenInv

-----------------------------------------------------------------------------
(* What the methods of SHandles do.                                        *)

Entry == [to : Dest, msg : Message]  \* of the outbox

LEMMA ConstantsAre ==
  /\ DestCount \in Nat /\ DestCount >= 1 /\ BufferCount \in Nat /\ BufferCount >= 1
  /\ 0 \in Dest /\ 0 \in Buffer
  /\ \A d \in Dest : d \in Nat /\ d < DestCount
  /\ NoMessage \in Message /\ ~NoMessage.eod
  BY SHandlesAssumption DEF Dest, Buffer, NoMessage, Message, NoRequest

LEMMA EntryType ==
  ASSUME SendTypeOK
  PROVE  /\ outbox \in Seq(Entry) /\ Len(outbox) \in Nat /\ DOMAIN outbox = 1 .. Len(outbox)
         /\ \A i \in 1 .. Len(outbox) : outbox[i] \in Entry /\ outbox[i].to \in Dest /\ outbox[i].msg \in Message
  <1>1. outbox \in Seq(Entry)
    BY DEF SendTypeOK, Entry
  <1>2. \A i \in 1 .. Len(outbox) : outbox[i] \in Entry
    BY <1>1, ElementOfSeq
  <1>3. QED
    BY <1>1, <1>2, LenProperties DEF Entry

LEMMA StreamType ==
  ASSUME SendTypeOK, NEW d \in Dest
  PROVE  /\ stream[d] \in Seq(Message) /\ Len(stream[d]) \in Nat
         /\ DOMAIN stream[d] = 1 .. Len(stream[d])
         /\ \A i \in 1 .. Len(stream[d]) : stream[d][i] \in Message
         /\ carried[d] \in Seq(Message) /\ Len(carried[d]) \in Nat
         /\ DOMAIN carried[d] = 1 .. Len(carried[d])
  <1>1. stream[d] \in Seq(Message) /\ carried[d] \in Seq(Message)
    BY DEF SendTypeOK
  <1>2. QED
    BY <1>1, LenProperties, ElementOfSeq

\* The first entry of the outbox is sent from the buffer that was found.
Give == TestBuffer /\ Available(pos)

LEMMA GiveIs ==
  ASSUME SendTypeOK, Give
  PROVE  \E d \in Dest, m \in Message :
           /\ outbox # <<>> /\ d = outbox[1].to /\ m = outbox[1].msg /\ blocking = NoRequest
           /\ outbox' \in Seq(Entry) /\ Len(outbox') = Len(outbox) - 1
           /\ \A i \in 1 .. Len(outbox') : outbox'[i] = outbox[i + 1]
           /\ payload' = [payload EXCEPT ![pos] = m]
           /\ inflight' = inflight \cup {[to |-> d, nth |-> Len(stream[d]) + 1, buffer |-> pos]}
           /\ stream' = [stream EXCEPT ![d] = Append(stream[d], m)]
           /\ carried' = [carried EXCEPT ![d] = Append(carried[d], NoMessage)]
           /\ IF synchronous_sends
              THEN /\ blocking' = [to |-> d, nth |-> Len(stream[d]) + 1, buffer |-> pos]
                   /\ UNCHANGED sent_frag_count
              ELSE /\ blocking' = blocking
                   /\ sent_frag_count' = IF m.eod THEN sent_frag_count
                                         ELSE [sent_frag_count EXCEPT ![d] = sent_frag_count[d] + 1]
           /\ UNCHANGED synchronous_sends /\ pos' = (pos + 1) % BufferCount
  <1>1. outbox # <<>> /\ outbox \in Seq(Entry)
    BY EntryType DEF Give, TestBuffer
  <1>2. /\ Head(outbox) \in Entry /\ Tail(outbox) \in Seq(Entry) /\ Len(Tail(outbox)) = Len(outbox) - 1
        /\ \A i \in 1 .. Len(Tail(outbox)) : Tail(outbox)[i] = outbox[i + 1]
        /\ Head(outbox) = outbox[1]
    BY <1>1, HeadTailProperties
  <1> DEFINE d == Head(outbox).to
             m == Head(outbox).msg
  <1>3. d \in Dest /\ m \in Message
    BY <1>2 DEF Entry
  <1>4. /\ payload' = [payload EXCEPT ![pos] = m]
        /\ inflight' = inflight \cup {[to |-> d, nth |-> Len(stream[d]) + 1, buffer |-> pos]}
        /\ stream' = [stream EXCEPT ![d] = Append(stream[d], m)]
        /\ carried' = [carried EXCEPT ![d] = Append(carried[d], NoMessage)]
        /\ outbox' = Tail(outbox)
    BY DEF Give, TestBuffer, SendFrom
  <1>5. IF synchronous_sends
        THEN /\ blocking' = [to |-> d, nth |-> Len(stream[d]) + 1, buffer |-> pos]
             /\ UNCHANGED sent_frag_count
        ELSE /\ blocking' = blocking
             /\ sent_frag_count' = IF m.eod THEN sent_frag_count
                                   ELSE [sent_frag_count EXCEPT ![d] = sent_frag_count[d] + 1]
    BY DEF Give, TestBuffer, SendFrom, Counted
  <1>6. blocking = NoRequest /\ UNCHANGED synchronous_sends /\ pos' = (pos + 1) % BufferCount
    BY DEF Give, TestBuffer
  <1>7. d = outbox[1].to /\ m = outbox[1].msg
    BY <1>2
  <1> HIDE DEF d, m
  <1>8. QED
    BY <1>1, <1>2, <1>3, <1>4, <1>5, <1>6, <1>7

\* What a list of one entry for each destination is.
LEMMA EODsAre ==
  ASSUME SendTypeOK, sendEODFrags
  PROVE  /\ outbox' \in Seq(Entry) /\ Len(outbox') = DestCount
         /\ \A i \in 1 .. DestCount : /\ outbox'[i].to = i - 1
                                      /\ outbox'[i].msg = EODFrag(sent_frag_count[i - 1])
         /\ UNCHANGED <<synchronous_sends, pos, payload, sent_frag_count, blocking, mpiVars>>
  <1>1. outbox' = [i \in 1 .. DestCount |-> [to |-> i - 1, msg |-> EODFrag(sent_frag_count[i - 1])]]
    BY DEF sendEODFrags, ToAll
  <1>2. \A i \in 1 .. DestCount : [to |-> i - 1, msg |-> EODFrag(sent_frag_count[i - 1])] \in Entry
    <2>1. ASSUME NEW i \in 1 .. DestCount
          PROVE  i - 1 \in Dest /\ EODFrag(sent_frag_count[i - 1]) \in Message
      <3>1. i - 1 \in Dest
        BY ConstantsAre DEF Dest
      <3>2. sent_frag_count[i - 1] \in Nat
        BY <3>1 DEF SendTypeOK
      <3>3. QED
        BY <3>1, <3>2 DEF EODFrag, Message
    <2>2. QED
      BY <2>1 DEF Entry
  <1>3. DestCount \in Nat
    BY ConstantsAre
  <1>4. outbox' \in Seq(Entry) /\ Len(outbox') = DestCount
    BY <1>1, <1>2, <1>3
  <1>5. \A i \in 1 .. DestCount : /\ outbox'[i].to = i - 1
                                  /\ outbox'[i].msg = EODFrag(sent_frag_count[i - 1])
    BY <1>1
  <1>6. UNCHANGED <<synchronous_sends, pos, payload, sent_frag_count, blocking, mpiVars>>
    BY DEF sendEODFrags
  <1>7. QED
    BY <1>4, <1>5, <1>6

LEMMA FragmentIs ==
  ASSUME SendTypeOK, NEW f \in Message, sendFragment(f)
  PROVE  /\ outbox' \in Seq(Entry)
         /\ \A i \in 1 .. Len(outbox') : outbox'[i].to \in Destinations(f) /\ outbox'[i].msg = f
         /\ \A d \in Destinations(f) : \E i \in 1 .. Len(outbox') : outbox'[i].to = d
         /\ \A i, j \in 1 .. Len(outbox') : outbox'[i].to = outbox'[j].to => i = j
         /\ UNCHANGED <<synchronous_sends, pos, payload, sent_frag_count, blocking, mpiVars>>
         /\ Destinations(f) \subseteq Dest
  <1>0. DestCount \in Nat /\ DestCount >= 1
    BY ConstantsAre
  <1>1. UNCHANGED <<synchronous_sends, pos, payload, sent_frag_count, blocking, mpiVars>>
    BY DEF sendFragment
  <1>2. CASE BroadcastSends
    <2>1. outbox' = [i \in 1 .. DestCount |-> [to |-> i - 1, msg |-> f]]
      BY <1>2 DEF sendFragment, ToAll
    <2>2. Destinations(f) = Dest
      BY <1>2 DEF Destinations
    <2>3. \A i \in 1 .. DestCount : i - 1 \in Dest /\ [to |-> i - 1, msg |-> f] \in Entry
      BY <1>0 DEF Dest, Entry
    <2>4. outbox' \in Seq(Entry) /\ Len(outbox') = DestCount
      BY <2>1, <2>3, <1>0
    <2>5. \A i \in 1 .. DestCount : outbox'[i].to = i - 1 /\ outbox'[i].msg = f
      BY <2>1
    <2>6. ASSUME NEW d \in Dest
          PROVE  \E i \in 1 .. DestCount : outbox'[i].to = d
      <3>1. d + 1 \in 1 .. DestCount /\ (d + 1) - 1 = d
        BY <1>0 DEF Dest
      <3>2. QED
        BY <2>5, <3>1
    <2>7. \A i, j \in 1 .. Len(outbox') : outbox'[i].to = outbox'[j].to => i = j
      BY <1>0, <2>4, <2>5
    <2>8. \A i \in 1 .. Len(outbox') : outbox'[i].to \in Destinations(f) /\ outbox'[i].msg = f
      BY <2>2, <2>3, <2>4, <2>5
    <2>9. \A d \in Destinations(f) : \E i \in 1 .. Len(outbox') : outbox'[i].to = d
      BY <2>2, <2>4, <2>6
    <2>10. QED
      BY <1>1, <2>2, <2>4, <2>7, <2>8, <2>9
  <1>3. CASE ~BroadcastSends
    <2>1. outbox' = <<[to |-> calcDest(f), msg |-> f]>>
      BY <1>3 DEF sendFragment
    <2>2. Destinations(f) = {calcDest(f)}
      BY <1>3 DEF Destinations
    <2>3. f.n \in Nat
      BY DEF Message
    <2>4. calcDest(f) \in Dest
      BY <1>0, <2>3 DEF calcDest, Dest
    <2>5. [to |-> calcDest(f), msg |-> f] \in Entry
      BY <2>4 DEF Entry
    <2> DEFINE e == [to |-> calcDest(f), msg |-> f]
    <2>6. e.to = calcDest(f) /\ e.msg = f /\ e \in Entry /\ outbox' = <<e>>
      BY <2>1, <2>5
    <2> HIDE DEF e
    <2>7. outbox' \in Seq(Entry) /\ Len(outbox') = 1 /\ outbox'[1] = e
      BY <2>6
    <2>8. QED
      BY <1>1, <2>2, <2>4, <2>6, <2>7
  <1>4. QED
    BY <1>2, <1>3

-----------------------------------------------------------------------------
(* The types.                                                              *)

LEMMA MethodTypes ==
  ASSUME SendTypeOK
  PROVE  /\ NewSHandles => SendTypeOK'
         /\ sendEODFrags => SendTypeOK'
         /\ \A f \in Message : sendFragment(f) => SendTypeOK'
         /\ TestBuffer => SendTypeOK'
         /\ SendReturns => SendTypeOK'
         /\ Transfer => SendTypeOK'
         /\ UNCHANGED sendVars => SendTypeOK'
  <1>1. ASSUME NewSHandles
        PROVE  SendTypeOK'
    <2>1. /\ pos' = 0 /\ payload' = [b \in Buffer |-> NoMessage] /\ sent_frag_count' = [d \in Dest |-> 0]
          /\ UNCHANGED <<synchronous_sends, outbox, blocking, inflight, stream, carried>>
      BY <1>1 DEF NewSHandles, Fresh, mpiVars
    <2>2. pos' \in Buffer /\ payload' \in [Buffer -> Message] /\ sent_frag_count' \in [Dest -> Nat]
      BY <2>1, ConstantsAre
    <2>3. QED
      BY <2>1, <2>2 DEF SendTypeOK
  <1>2. ASSUME sendEODFrags
        PROVE  SendTypeOK'
    <2>1. outbox' \in Seq(Entry)
          /\ UNCHANGED <<synchronous_sends, pos, payload, sent_frag_count, blocking, mpiVars>>
      BY <1>2, EODsAre
    <2>2. QED
      BY <2>1 DEF SendTypeOK, Entry, mpiVars
  <1>3. ASSUME NEW f \in Message, sendFragment(f)
        PROVE  SendTypeOK'
    <2>1. outbox' \in Seq(Entry)
          /\ UNCHANGED <<synchronous_sends, pos, payload, sent_frag_count, blocking, mpiVars>>
      BY <1>3, FragmentIs
    <2>2. QED
      BY <2>1 DEF SendTypeOK, Entry, mpiVars
  <1>4. ASSUME TestBuffer
        PROVE  SendTypeOK'
    <2>1. pos' \in Buffer
      <3>1. pos' = (pos + 1) % BufferCount /\ pos \in Nat
        BY <1>4 DEF TestBuffer, SendTypeOK, Buffer
      <3>2. QED
        BY <3>1, ConstantsAre DEF Buffer
    <2>2. CASE ~Available(pos)
      BY <1>4, <2>1, <2>2 DEF TestBuffer, SendTypeOK, mpiVars
    <2>3. CASE Available(pos)
      <3>1. PICK d \in Dest, m \in Message :
              /\ outbox' \in Seq(Entry)
              /\ payload' = [payload EXCEPT ![pos] = m]
              /\ inflight' = inflight \cup {[to |-> d, nth |-> Len(stream[d]) + 1, buffer |-> pos]}
              /\ stream' = [stream EXCEPT ![d] = Append(stream[d], m)]
              /\ carried' = [carried EXCEPT ![d] = Append(carried[d], NoMessage)]
              /\ IF synchronous_sends
                 THEN /\ blocking' = [to |-> d, nth |-> Len(stream[d]) + 1, buffer |-> pos]
                      /\ UNCHANGED sent_frag_count
                 ELSE /\ blocking' = blocking
                      /\ sent_frag_count' = IF m.eod THEN sent_frag_count
                                            ELSE [sent_frag_count EXCEPT ![d] = sent_frag_count[d] + 1]
              /\ UNCHANGED synchronous_sends
        BY <1>4, <2>3, GiveIs DEF Give
      <3>2. pos \in Buffer /\ payload \in [Buffer -> Message] /\ sent_frag_count \in [Dest -> Nat]
            /\ stream \in [Dest -> Seq(Message)] /\ carried \in [Dest -> Seq(Message)]
            /\ inflight \subseteq Request /\ blocking \in Request
        BY DEF SendTypeOK
      <3>3. payload' \in [Buffer -> Message]
        BY <3>1, <3>2
      <3>4. stream' \in [Dest -> Seq(Message)] /\ carried' \in [Dest -> Seq(Message)]
        <4>1. Append(stream[d], m) \in Seq(Message) /\ Append(carried[d], NoMessage) \in Seq(Message)
          BY <3>2, ConstantsAre, AppendProperties
        <4>2. QED
          BY <3>1, <3>2, <4>1
      <3>5. [to |-> d, nth |-> Len(stream[d]) + 1, buffer |-> pos] \in Request
        BY <3>2, StreamType DEF Request
      <3>6. inflight' \subseteq Request /\ blocking' \in Request
        BY <3>1, <3>2, <3>5
      <3>7. sent_frag_count' \in [Dest -> Nat]
        <4>1. \/ sent_frag_count' = sent_frag_count
              \/ sent_frag_count' = [sent_frag_count EXCEPT ![d] = sent_frag_count[d] + 1]
          BY <3>1
        <4>2. sent_frag_count[d] + 1 \in Nat
          BY <3>2
        <4>3. QED
          BY <3>2, <4>1, <4>2
      <3>8. QED
        BY <2>1, <3>1, <3>3, <3>4, <3>6, <3>7 DEF SendTypeOK, Entry
    <2>4. QED
      BY <2>2, <2>3
  <1>5. ASSUME SendReturns
        PROVE  SendTypeOK'
    <2>1. blocking' = NoRequest /\ NoRequest \in Request
      BY <1>5, ConstantsAre DEF SendReturns, Request, NoRequest
    <2>2. sent_frag_count' \in [Dest -> Nat]
      <3>1. blocking.to \in Dest /\ sent_frag_count \in [Dest -> Nat]
        BY DEF SendTypeOK, Request
      <3>2. QED
        BY <1>5, <3>1 DEF SendReturns, Counted
    <2>3. UNCHANGED <<synchronous_sends, pos, payload, outbox, inflight, stream, carried>>
      BY <1>5 DEF SendReturns, mpiVars
    <2>4. QED
      BY <2>1, <2>2, <2>3 DEF SendTypeOK
  <1>6. ASSUME Transfer
        PROVE  SendTypeOK'
    <2>1. PICK r \in inflight :
            /\ inflight' = inflight \ {r}
            /\ carried' = [carried EXCEPT ![r.to][r.nth] = payload[r.buffer]]
      BY <1>6 DEF Transfer
    <2>2. r.to \in Dest /\ r.buffer \in Buffer /\ r.nth \in Nat /\ payload[r.buffer] \in Message
      BY DEF SendTypeOK, Request
    <2>3. [carried[r.to] EXCEPT ![r.nth] = payload[r.buffer]] \in Seq(Message)
      <3>1. carried[r.to] \in Seq(Message) /\ DOMAIN carried[r.to] = 1 .. Len(carried[r.to])
            /\ carried[r.to] \in [1 .. Len(carried[r.to]) -> Message]
        BY <2>2, LenProperties DEF SendTypeOK
      <3>2. CASE r.nth \in 1 .. Len(carried[r.to])
        BY <2>2, <3>1, <3>2, ExceptSeq
      <3>3. CASE r.nth \notin 1 .. Len(carried[r.to])
        <4>1. [carried[r.to] EXCEPT ![r.nth] = payload[r.buffer]] = carried[r.to]
          BY <3>1, <3>3
        <4>2. QED
          BY <3>1, <4>1
      <3>4. QED
        BY <3>2, <3>3
    <2>4. carried' = [carried EXCEPT ![r.to] = [carried[r.to] EXCEPT ![r.nth] = payload[r.buffer]]]
      BY <2>1
    <2>5. carried' \in [Dest -> Seq(Message)]
      BY <2>2, <2>3, <2>4 DEF SendTypeOK
    <2>6. UNCHANGED <<synchronous_sends, pos, payload, sent_frag_count, outbox, blocking, stream>>
      BY <1>6 DEF Transfer, handleVars
    <2>7. QED
      BY <2>1, <2>5, <2>6 DEF SendTypeOK
  <1>7. ASSUME UNCHANGED sendVars
        PROVE  SendTypeOK'
    BY <1>7 DEF SendTypeOK, sendVars, handleVars, mpiVars
  <1>8. QED
    BY <1>1, <1>2, <1>3, <1>4, <1>5, <1>6, <1>7

LEMMA GeneratorsAre == Generator \subseteq Nat /\ 1 \in Generator /\ IsFiniteSet(Generator) /\ InUse \subseteq Generator
  <1>1. Children \in Nat /\ Children >= 1
    BY BoardReaderAssumption
  <1>2. IsFiniteSet(1 .. Children)
    BY <1>1, FS_Interval
  <1>3. QED
    BY <1>1, <1>2 DEF Generator, InUse

\* What getNext makes of the fragments of the generators it asked.
LEMMA NextIs ==
  ASSUME TypeOK, getNext
  PROVE  \E new \in Seq(Message) :
           /\ \A i \in 1 .. Len(new) : ~new[i].eod
           /\ \/ frags' = new /\ taken' = taken \o new /\ pc' = "send" /\ UNCHANGED sendVars
              \/ UNCHANGED <<frags, taken>> /\ pc' = "eod" /\ sendEODFrags
           /\ pc = "next" /\ UNCHANGED <<cmd, state, run, session, sender, overlarge, composite, should_stop>>
           /\ exception' \in [Generator -> BOOLEAN] /\ generator_active' \in [Generator -> BOOLEAN]
           /\ ev_counter' \in [Generator -> Nat]
  <1>0. /\ ev_counter \in [Generator -> Nat] /\ run \in Nat
        /\ exception \in [Generator -> BOOLEAN] /\ generator_active \in [Generator -> BOOLEAN]
    BY DEF TypeOK
  <1>a. PICK outcome \in Outcomes :
           \E order \in InOrder({c \in Asked : outcome[c] \in Appends}) : Next_(outcome, order)
    BY DEF getNext
  <1>1. PICK order \in InOrder({c \in Asked : outcome[c] \in Appends}) : Next_(outcome, order)
    BY <1>a
  <1> DEFINE gens == {c \in Asked : outcome[c] \in Appends}
             new == [i \in DOMAIN order |-> FragmentOf(order[i])]
  <1>2. gens \subseteq Generator
    BY GeneratorsAre DEF Asked
  <1>3. Cardinality(gens) \in Nat
    <2>1. IsFiniteSet(gens)
      BY <1>2, GeneratorsAre, FS_Subset
    <2>2. QED
      BY <2>1, FS_CardinalityType
  <1>4. order \in [1 .. Cardinality(gens) -> gens]
    BY <1>1 DEF InOrder
  <1>5. \A c \in Generator : FragmentOf(c) \in Message /\ ~FragmentOf(c).eod
    BY <1>0, GeneratorsAre DEF FragmentOf, Message
  <1> HIDE DEF gens
  <1>6. new \in Seq(Message) /\ Len(new) = Cardinality(gens) /\ \A i \in 1 .. Cardinality(gens) : ~new[i].eod
    <2>1. DOMAIN order = 1 .. Cardinality(gens)
      BY <1>4
    <2>2. \A i \in 1 .. Cardinality(gens) : order[i] \in Generator
      BY <1>2, <1>4
    <2>3. \A i \in 1 .. Cardinality(gens) : FragmentOf(order[i]) \in Message /\ ~FragmentOf(order[i]).eod
      BY <1>5, <2>2
    <2>4. new = [i \in 1 .. Cardinality(gens) |-> FragmentOf(order[i])]
      BY <2>1
    <2> HIDE DEF new
    <2>5. new \in Seq(Message) /\ Len(new) = Cardinality(gens)
      BY <1>3, <2>3, <2>4
    <2>6. \A i \in 1 .. Cardinality(gens) : ~new[i].eod
      BY <2>3, <2>4
    <2>7. QED
      BY <2>5, <2>6
  <1>7. \/ frags' = new /\ taken' = taken \o new /\ pc' = "send" /\ UNCHANGED sendVars
        \/ UNCHANGED <<frags, taken>> /\ pc' = "eod" /\ sendEODFrags
    <2>1. DOMAIN outcome = Asked
      BY DEF Outcomes
    <2>2. anyActive(outcome) <=> \E c \in Asked : outcome[c] \in Active
      BY <2>1 DEF anyActive
    <2>3. CASE anyActive(outcome)
      BY <1>1, <2>2, <2>3 DEF Next_
    <2>4. CASE ~anyActive(outcome)
      BY <1>1, <2>2, <2>4 DEF Next_
    <2>5. QED
      BY <2>3, <2>4
  <1>8. pc = "next" /\ UNCHANGED <<cmd, state, run, session, sender, overlarge, composite, should_stop>>
    BY <1>1 DEF getNext, cmdVars, Next_
  <1>9. exception' \in [Generator -> BOOLEAN] /\ generator_active' \in [Generator -> BOOLEAN]
    <2>1. exception' = [c \in Generator |->
                         exception[c] \/ (c \in Asked /\ outcome[c] \in {"throw", "fragment_throw"})]
      BY <1>1 DEF Next_
    <2>2. exception' \in [Generator -> BOOLEAN]
      BY <2>1, Zenon
    <2>3. generator_active' =
            [c \in Generator |-> IF c \in Asked THEN outcome[c] \in Active ELSE generator_active[c]]
      BY <1>1 DEF Next_
    <2>4. ASSUME NEW c \in Generator
          PROVE  (IF c \in Asked THEN outcome[c] \in Active ELSE generator_active[c]) \in BOOLEAN
      <3>1. CASE c \in Asked /\ outcome[c] \in Active
        BY <3>1
      <3>2. CASE c \in Asked /\ outcome[c] \notin Active
        BY <3>2
      <3>3. CASE c \notin Asked
        BY <1>0, <3>3
      <3>4. QED
        BY <3>1, <3>2, <3>3
    <2>5. QED
      BY <2>2, <2>3, <2>4
  <1>10. ev_counter' \in [Generator -> Nat]
    BY <1>0, <1>1 DEF Next_
  <1> HIDE DEF new
  <1>11. QED
    BY <1>6, <1>7, <1>8, <1>9, <1>10

\* How a step uses SHandles.
Quiet == /\ UNCHANGED sendVars
         /\ \/ (Ending <=> Ending') /\ sender' = sender
            \/ Ending /\ ~Ending' /\ ~sender' /\ SendDone
         /\ Due' = Due
New == /\ NewSHandles /\ SendDone /\ inflight = {}
       /\ (pc = "begin" /\ ~sender) \/ pc = "old_eod"
       /\ pc' = "next" /\ sender'
       /\ UNCHANGED <<cmd, state, session, frags, taken, overlarge>>
Close == /\ sendEODFrags /\ SendDone
         /\ \/ pc = "begin" /\ pc' = "old_eod" /\ cmd' = cmd
            \/ pc = "next" /\ pc' = "eod" /\ cmd' = cmd
            \/ cmd = "idle" /\ state = "Ready" /\ cmd' = "init" /\ pc' = pc
         /\ sender /\ sender' /\ UNCHANGED <<session, frags, taken, overlarge>>
SendHead == /\ pc = "send" /\ SendDone
            /\ frags # <<>> /\ sendFragment(Head(frags)) /\ frags' = Tail(frags)
            /\ UNCHANGED <<pc, cmd, state, sender, session, taken, overlarge>>
Within == (TestBuffer \/ SendReturns \/ Transfer) /\ UNCHANGED <<genVars, cmdVars, threadVars, history>>

LEMMA SendSteps ==
  ASSUME TypeOK, PhaseInv, [Next]_vars
  PROVE  Quiet \/ New \/ Close \/ SendHead \/ Within
  <1>0. session \in Nat /\ SendDone \in BOOLEAN
    BY BoardReaderAssumption DEF TypeOK, SendDone
  <1> USE DEF PhaseInv, Ending, Due, Quiet
  <1>1. CASE Start
    BY <1>0, <1>1 DEF Start, Launch, cmdVars
  <1>2. CASE Resume
    BY <1>0, <1>2 DEF Resume, Launch, cmdVars
  <1>3. CASE StopOrPause
    BY <1>3 DEF StopOrPause, threadVars
  <1>4. CASE Told
    BY <1>4 DEF Told, threadVars
  <1>5. CASE Join
    BY <1>5 DEF Join
  <1>6. CASE EndInit
    BY <1>6 DEF EndInit, Destroyed
  <1>7. CASE End
    BY <1>7 DEF End, Destroyed, cmdVars
  <1>8. CASE Stopped \/ UNCHANGED vars
    BY <1>8 DEF Stopped, vars, cmdVars, threadVars
  <1>9. CASE BeginInit
    BY <1>9 DEF BeginInit, Close, threadVars, history
  <1>10. CASE Begin
    <2>1. CASE sender
      BY <1>10, <2>1 DEF Begin, Close, cmdVars, history
    <2>2. CASE ~sender
      BY <1>10, <2>2 DEF Begin, New, cmdVars, history
    <2>3. QED
      BY <2>1, <2>2
  <1>11. CASE OldDestroyed
    BY <1>11 DEF OldDestroyed, New, Destroyed, waitAll, cmdVars, history
  <1>12. CASE getNext
    <2>1. PICK new \in Seq(Message) :
            /\ \/ frags' = new /\ pc' = "send" /\ UNCHANGED sendVars
               \/ UNCHANGED <<frags, taken>> /\ pc' = "eod" /\ sendEODFrags
            /\ pc = "next" /\ UNCHANGED <<cmd, state, session, sender, overlarge>>
      BY <1>12, NextIs
    <2>2. QED
      BY <2>1 DEF Close
  <1>13. CASE SendNext
    BY <1>13 DEF SendNext, SendHead, cmdVars
  <1>14. CASE Sending \/ MPI
    BY <1>14 DEF Sending, MPI, Within
  <1>15. QED
    BY <1>1, <1>2, <1>3, <1>4, <1>5, <1>6, <1>7, <1>8, <1>9, <1>10, <1>11, <1>12, <1>13, <1>14
       DEF Next, Command, Thread

GeneratorType ==
  /\ composite \in BOOLEAN
  /\ should_stop \in [Generator -> BOOLEAN] /\ exception \in [Generator -> BOOLEAN]
  /\ ev_counter \in [Generator -> Nat]
  /\ generator_active \in [Generator -> BOOLEAN]
ThreadType ==
  /\ state \in {"Ready", "Running", "Paused", "InRun"}
  /\ cmd \in {"idle", "stop", "pause", "stop_join", "pause_join", "init"}
  /\ run \in Nat /\ session \in 0 .. MaxSession
  /\ pc \in {"none", "begin", "old_eod", "next", "send", "eod", "ended", "threw"}
  /\ sender \in BOOLEAN
DataType ==
  /\ frags \in Seq(Message) /\ taken \in Seq(Message)
  /\ overlarge \subseteq Message

LEMMA TypeParts == TypeOK <=> SendTypeOK /\ GeneratorType /\ ThreadType /\ DataType
  BY DEF TypeOK, GeneratorType, ThreadType, DataType

LEMMA GeneratorTypeStep ==
  ASSUME TypeOK, [Next]_vars
  PROVE  GeneratorType'
  <1>0. GeneratorType
    BY TypeParts
  <1> USE <1>0 DEF GeneratorType
  <1>1. CASE Start
    <2>1. PICK called \in CalledInOrder : StartCmd(called)
      BY <1>1 DEF Start
    <2>2. exception' = [c \in Generator |-> c \notin called /\ exception[c]]
      BY <2>1 DEF StartCmd
    <2>3. exception' \in [Generator -> BOOLEAN]
      BY <2>2, Zenon
    <2>4. should_stop' \in [Generator -> BOOLEAN] /\ generator_active' \in [Generator -> BOOLEAN]
          /\ composite' = composite
      BY <2>1 DEF StartCmd, Tell
    <2>5. ev_counter' \in [Generator -> Nat]
      BY <2>1 DEF StartCmd
    <2>6. QED
      BY <2>3, <2>4, <2>5
  <1>2. CASE Resume
    BY <1>2 DEF Resume, ResumeCmd, Tell
  <1>3. CASE StopOrPause
    BY <1>3 DEF StopOrPause, StopUnlocked, Tell
  <1>4. CASE Told
    BY <1>4 DEF Told, StopLocked, Tell
  <1>5. CASE EndInit
    BY <1>5 DEF EndInit
  <1>6. CASE getNext
    BY <1>6, NextIs
  <1>7. CASE BeginInit \/ Join \/ Begin \/ OldDestroyed \/ SendNext \/ End \/ Sending \/ MPI \/ Stopped
             \/ UNCHANGED vars
    <2>1. UNCHANGED genVars
      BY <1>7 DEF BeginInit, Join, Begin, OldDestroyed, SendNext, End, Sending, MPI, Stopped, vars
    <2>2. QED
      BY <2>1 DEF genVars
  <1>8. QED
    BY <1>1, <1>2, <1>3, <1>4, <1>5, <1>6, <1>7 DEF Next, Command, Thread

LEMMA DataTypeStep ==
  ASSUME TypeOK, [Next]_vars
  PROVE  DataType'
  <1>0. frags \in Seq(Message) /\ taken \in Seq(Message) /\ overlarge \subseteq Message
    BY DEF TypeOK
  <1>1. CASE getNext
    <2>1. PICK new \in Seq(Message) :
            /\ (frags' = new /\ taken' = taken \o new) \/ UNCHANGED <<frags, taken>>
            /\ overlarge' = overlarge
      BY <1>1, NextIs
    <2>2. taken \o new \in Seq(Message)
      BY <1>0, ConcatProperties
    <2>3. QED
      BY <1>0, <2>1, <2>2 DEF DataType
  <1>2. CASE SendNext
    <2>1. ASSUME frags # <<>>
          PROVE  Tail(frags) \in Seq(Message)
      BY <1>0, <2>1, HeadTailProperties
    <2>2. ToSet(frags) \subseteq Message
      BY <1>0, LenProperties, ElementOfSeq DEF ToSet
    <2>3. <<>> \in Seq(Message)
      BY EmptySeq
    <2>4. taken' = taken
      BY <1>2 DEF SendNext
    <2>5. \/ UNCHANGED <<frags, overlarge>>
          \/ frags # <<>> /\ frags' = Tail(frags) /\ overlarge' = overlarge
          \/ frags' = <<>> /\ overlarge' = overlarge \cup ToSet(frags)
      BY <1>2 DEF SendNext
    <2>6. QED
      BY <1>0, <2>1, <2>2, <2>3, <2>4, <2>5 DEF DataType
  <1>3. CASE Start \/ Resume \/ StopOrPause \/ BeginInit \/ Told \/ Join \/ EndInit \/ Begin \/ OldDestroyed
             \/ End \/ Sending \/ MPI \/ Stopped \/ UNCHANGED vars
    <2>1. UNCHANGED <<frags, taken, overlarge>>
      BY <1>3 DEF Start, Resume, StopOrPause, BeginInit, Told, Join, EndInit, Begin, OldDestroyed,
         End, Sending, MPI, Stopped, vars, threadVars, history
    <2>2. QED
      BY <1>0, <2>1 DEF DataType
  <1>4. QED
    BY <1>1, <1>2, <1>3 DEF Next, Command, Thread

LEMMA ThreadTypeStep ==
  ASSUME TypeOK, [Next]_vars
  PROVE  ThreadType'
  <1>0. /\ state \in {"Ready", "Running", "Paused", "InRun"}
        /\ cmd \in {"idle", "stop", "pause", "stop_join", "pause_join", "init"}
        /\ run \in Nat /\ session \in 0 .. MaxSession /\ MaxSession \in Nat
        /\ pc \in {"none", "begin", "old_eod", "next", "send", "eod", "ended", "threw"}
        /\ sender \in BOOLEAN
    BY BoardReaderAssumption DEF TypeOK
  <1>1. CASE Start
    BY <1>0, <1>1 DEF Start, Launch, cmdVars, ThreadType
  <1>2. CASE Resume
    BY <1>0, <1>2 DEF Resume, Launch, cmdVars, ThreadType
  <1>3. CASE StopOrPause
    BY <1>0, <1>3 DEF StopOrPause, threadVars, ThreadType
  <1>4. CASE Told
    BY <1>0, <1>4 DEF Told, threadVars, ThreadType
  <1>5. CASE Join
    BY <1>0, <1>5 DEF Join, ThreadType
  <1>6. CASE BeginInit
    BY <1>0, <1>6 DEF BeginInit, threadVars, ThreadType
  <1>7. CASE EndInit
    BY <1>0, <1>7 DEF EndInit, ThreadType
  <1>8. CASE Begin
    BY <1>0, <1>8 DEF Begin, cmdVars, ThreadType
  <1>9. CASE OldDestroyed
    BY <1>0, <1>9 DEF OldDestroyed, cmdVars, ThreadType
  <1>10. CASE getNext
    <2>1. pc' \in {"send", "eod"} /\ UNCHANGED <<cmd, state, run, session, sender>>
      BY <1>10, NextIs
    <2>2. QED
      BY <1>0, <2>1 DEF ThreadType
  <1>11. CASE SendNext
    BY <1>0, <1>11 DEF SendNext, cmdVars, ThreadType
  <1>12. CASE End
    BY <1>0, <1>12 DEF End, cmdVars, ThreadType
  <1>13. CASE Sending \/ MPI \/ Stopped \/ UNCHANGED vars
    BY <1>0, <1>13 DEF Sending, MPI, Stopped, vars, cmdVars, threadVars, ThreadType
  <1>14. QED
    BY <1>1, <1>2, <1>3, <1>4, <1>5, <1>6, <1>7, <1>8, <1>9, <1>10, <1>11, <1>12, <1>13
       DEF Next, Command, Thread

LEMMA SendTypeStep ==
  ASSUME TypeOK, PhaseInv, [Next]_vars
  PROVE  SendTypeOK'
  <1>0. SendTypeOK /\ frags \in Seq(Message)
    BY DEF TypeOK
  <1>1. CASE SendHead
    <2>1. Head(frags) \in Message
      BY <1>0, <1>1, HeadTailProperties DEF SendHead
    <2>2. QED
      BY <1>0, <1>1, <2>1, MethodTypes DEF SendHead
  <1>2. CASE Close \/ New
    BY <1>0, <1>2, MethodTypes DEF Close, New
  <1>3. CASE Within \/ Quiet
    BY <1>0, <1>3, MethodTypes DEF Within, Quiet
  <1>4. QED
    BY <1>1, <1>2, <1>3, SendSteps

LEMMA TypeStep ==
  ASSUME TypeOK, PhaseInv, [Next]_vars
  PROVE  TypeOK'
  <1>1. SendTypeOK' /\ GeneratorType' /\ ThreadType' /\ DataType'
    BY SendTypeStep, GeneratorTypeStep, ThreadTypeStep, DataTypeStep
  <1>2. QED
    BY <1>1 DEF TypeOK, GeneratorType, ThreadType, DataType

-----------------------------------------------------------------------------
(* The phases.                                                             *)

LEMMA PhaseStep ==
  ASSUME TypeOK, PhaseInv, [Next]_vars
  PROVE  PhaseInv'
  <1>0. /\ state \in {"Ready", "Running", "Paused", "InRun"}
        /\ cmd \in {"idle", "stop", "pause", "stop_join", "pause_join", "init"}
        /\ pc \in {"none", "begin", "old_eod", "next", "send", "eod", "ended", "threw"}
        /\ sender \in BOOLEAN
    BY DEF TypeOK
  <1> USE <1>0 DEF PhaseInv, Ending, SendDone
  <1>1. CASE Start
    BY <1>1 DEF Start, Launch, cmdVars, sendVars, handleVars, mpiVars
  <1>2. CASE Resume
    BY <1>2 DEF Resume, Launch, cmdVars, sendVars, handleVars, mpiVars
  <1>3. CASE StopOrPause
    BY <1>3 DEF StopOrPause, threadVars, sendVars, handleVars, mpiVars
  <1>4. CASE Told
    BY <1>4 DEF Told, threadVars, sendVars, handleVars, mpiVars
  <1>5. CASE Join
    BY <1>5 DEF Join, sendVars, handleVars, mpiVars
  <1>6. CASE BeginInit
    BY <1>6 DEF BeginInit, threadVars
  <1>7. CASE EndInit
    BY <1>7 DEF EndInit, Destroyed, waitAll, sendVars, handleVars, mpiVars
  <1>8. CASE Begin
    BY <1>8 DEF Begin, NewSHandles, mpiVars, cmdVars
  <1>9. CASE OldDestroyed
    BY <1>9 DEF OldDestroyed, Destroyed, waitAll, NewSHandles, mpiVars, cmdVars
  <1>10. CASE getNext
    <2>1. PICK new \in Seq(Message) :
            /\ \/ frags' = new /\ pc' = "send" /\ UNCHANGED sendVars
               \/ UNCHANGED frags /\ pc' = "eod" /\ sendEODFrags
            /\ pc = "next" /\ UNCHANGED <<cmd, state, sender>>
      BY <1>10, NextIs
    <2>2. QED
      BY <2>1 DEF sendVars, handleVars, mpiVars
  <1>11. CASE SendNext
    BY <1>11 DEF SendNext, cmdVars, sendVars, handleVars, mpiVars
  <1>12. CASE End
    BY <1>12 DEF End, Destroyed, waitAll, cmdVars, sendVars, handleVars, mpiVars
  <1>13. CASE Sending
    BY <1>13 DEF Sending, TestBuffer, SendReturns, cmdVars, threadVars, mpiVars
  <1>14. CASE MPI
    BY <1>14 DEF MPI, Transfer, cmdVars, threadVars, handleVars
  <1>15. CASE Stopped \/ UNCHANGED vars
    BY <1>15 DEF Stopped, vars, cmdVars, threadVars, sendVars, handleVars, mpiVars
  <1>16. QED
    BY <1>1, <1>2, <1>3, <1>4, <1>5, <1>6, <1>7, <1>8, <1>9, <1>10, <1>11, <1>12, <1>13, <1>14, <1>15
       DEF Next, Command, Thread
-----------------------------------------------------------------------------
(* MPI reads what it was given.                                            *)

LEMMA CarriedGive ==
  ASSUME TypeOK, MPIInv, CarriedAsGiven, Give
  PROVE  MPIInv' /\ CarriedAsGiven'
  <1>0. SendTypeOK /\ inflight \subseteq Request /\ pos \in Buffer /\ payload \in [Buffer -> Message]
        /\ stream \in [Dest -> Seq(Message)] /\ carried \in [Dest -> Seq(Message)]
    BY DEF TypeOK, SendTypeOK
  <1>1. PICK d \in Dest, m \in Message :
          /\ blocking = NoRequest
          /\ payload' = [payload EXCEPT ![pos] = m]
          /\ inflight' = inflight \cup {[to |-> d, nth |-> Len(stream[d]) + 1, buffer |-> pos]}
          /\ stream' = [stream EXCEPT ![d] = Append(stream[d], m)]
          /\ carried' = [carried EXCEPT ![d] = Append(carried[d], NoMessage)]
          /\ blocking' \in {blocking, [to |-> d, nth |-> Len(stream[d]) + 1, buffer |-> pos]}
    BY <1>0, GiveIs
  <1> DEFINE new == [to |-> d, nth |-> Len(stream[d]) + 1, buffer |-> pos]
             n == Len(stream[d])
  <1>2. /\ n \in Nat /\ Len(carried[d]) = n
        /\ stream'[d] = Append(stream[d], m) /\ carried'[d] = Append(carried[d], NoMessage)
        /\ Len(stream'[d]) = n + 1 /\ stream'[d][n + 1] = m
        /\ \A i \in 1 .. n : stream'[d][i] = stream[d][i]
        /\ Len(carried'[d]) = n + 1 /\ carried'[d][n + 1] = NoMessage
        /\ \A i \in 1 .. n : carried'[d][i] = carried[d][i]
    <2>1. stream[d] \in Seq(Message) /\ carried[d] \in Seq(Message) /\ Len(carried[d]) = n /\ n \in Nat
      BY <1>0, StreamType DEF MPIInv
    <2>2. stream'[d] = Append(stream[d], m) /\ carried'[d] = Append(carried[d], NoMessage)
      BY <1>0, <1>1
    <2>3. QED
      BY <2>1, <2>2, AppendProperties, ConstantsAre
  <1>3. \A e \in Dest \ {d} : stream'[e] = stream[e] /\ carried'[e] = carried[e]
    BY <1>0, <1>1
  <1>4. new.to = d /\ new.nth = n + 1 /\ new.buffer = pos
    OBVIOUS
  <1>5. payload'[pos] = m /\ \A b \in Buffer \ {pos} : payload'[b] = payload[b]
    BY <1>0, <1>1
  <1>6. inflight' = inflight \cup {new} /\ blocking' \in {NoRequest, new}
    BY <1>1
  <1>7. \A r \in inflight : r.to \in Dest /\ r.buffer \in Buffer \ {pos}
    BY <1>0 DEF Give, Available, Request
  <1>8. \A e \in Dest : Len(stream[e]) \in Nat
    BY <1>0, StreamType
  <1> HIDE DEF new, n
  <1>9. \A e \in Dest : Len(carried'[e]) = Len(stream'[e])
    BY <1>2, <1>3 DEF MPIInv
  <1>10. ASSUME NEW r \in inflight'
         PROVE  r.nth \in 1 .. Len(stream'[r.to]) /\ payload'[r.buffer] = stream'[r.to][r.nth]
    <2>1. CASE r = new
      BY <1>2, <1>4, <1>5, <2>1
    <2>2. CASE r \in inflight
      <3>1. r.nth \in 1 .. Len(stream[r.to]) /\ payload[r.buffer] = stream[r.to][r.nth]
        BY <2>2 DEF MPIInv
      <3>2. payload'[r.buffer] = payload[r.buffer]
        BY <1>5, <1>7, <2>2
      <3>3. CASE r.to = d
        <4>1. r.nth \in 1 .. n
          BY <3>1, <3>3 DEF n
        <4>2. r.nth \in 1 .. n + 1
          BY <1>2, <4>1
        <4>3. QED
          BY <1>2, <3>1, <3>2, <3>3, <4>1, <4>2
      <3>4. CASE r.to # d
        BY <1>3, <1>7, <2>2, <3>1, <3>2, <3>4
      <3>5. QED
        BY <3>3, <3>4
    <2>3. QED
      BY <1>6, <2>1, <2>2
  <1>11. blocking' # NoRequest =>
           /\ stream'[blocking'.to] # <<>>
           /\ payload'[blocking'.buffer] = stream'[blocking'.to][Len(stream'[blocking'.to])]
    <2>1. stream'[d] # <<>>
      BY <1>2, <1>0, AppendProperties
    <2>2. QED
      BY <1>2, <1>4, <1>5, <1>6, <2>1
  <1>12. ASSUME NEW e \in Dest, NEW i \in 1 .. Len(carried'[e])
         PROVE  \/ carried'[e][i] = stream'[e][i]
                \/ carried'[e][i] = NoMessage /\ \E r \in inflight' : r.to = e /\ r.nth = i
    <2>1. CASE e = d /\ i = n + 1
      BY <1>2, <1>4, <1>6, <2>1
    <2>2. CASE e # d \/ i # n + 1
      <3>1. i \in 1 .. Len(carried[e]) /\ carried'[e][i] = carried[e][i] /\ stream'[e][i] = stream[e][i]
        <4>1. CASE e = d
          BY <1>2, <2>2, <4>1
        <4>2. CASE e # d
          BY <1>3, <4>2
        <4>3. QED
          BY <4>1, <4>2
      <3>2. \/ carried[e][i] = stream[e][i]
            \/ carried[e][i] = NoMessage /\ \E r \in inflight : r.to = e /\ r.nth = i
        BY <3>1 DEF CarriedAsGiven
      <3>3. QED
        BY <1>6, <3>1, <3>2
    <2>3. QED
      BY <2>1, <2>2
  <1>13. QED
    BY <1>9, <1>10, <1>11, <1>12 DEF MPIInv, CarriedAsGiven

LEMMA CarriedTransfer ==
  ASSUME TypeOK, MPIInv, CarriedAsGiven, Transfer
  PROVE  MPIInv' /\ CarriedAsGiven'
  <1>0. SendTypeOK /\ inflight \subseteq Request /\ carried \in [Dest -> Seq(Message)]
        /\ payload \in [Buffer -> Message]
    BY DEF TypeOK, SendTypeOK
  <1>1. PICK r \in inflight :
          /\ inflight' = inflight \ {r}
          /\ carried' = [carried EXCEPT ![r.to][r.nth] = payload[r.buffer]]
          /\ UNCHANGED <<payload, blocking, stream>>
    BY DEF Transfer, handleVars
  <1>2. r.to \in Dest /\ payload[r.buffer] = stream[r.to][r.nth] /\ payload[r.buffer] \in Message
        /\ r.nth \in 1 .. Len(carried[r.to])
    BY <1>0 DEF MPIInv, Request
  <1>3. carried' = [carried EXCEPT ![r.to] = [carried[r.to] EXCEPT ![r.nth] = payload[r.buffer]]]
    BY <1>1
  <1>4. /\ carried'[r.to] = [carried[r.to] EXCEPT ![r.nth] = payload[r.buffer]]
        /\ \A e \in Dest \ {r.to} : carried'[e] = carried[e]
    BY <1>0, <1>2, <1>3
  <1>5. /\ Len(carried'[r.to]) = Len(carried[r.to])
        /\ \A i \in 1 .. Len(carried[r.to]) :
             carried'[r.to][i] = IF i = r.nth THEN stream[r.to][r.nth] ELSE carried[r.to][i]
    <2>1. carried[r.to] \in Seq(Message)
      BY <1>0, <1>2
    <2>2. QED
      BY <1>2, <1>4, <2>1, ExceptSeq
  <1>6. MPIInv'
    BY <1>1, <1>4, <1>5 DEF MPIInv
  <1>7. ASSUME NEW e \in Dest, NEW i \in 1 .. Len(carried'[e])
        PROVE  \/ carried'[e][i] = stream'[e][i]
               \/ carried'[e][i] = NoMessage /\ \E q \in inflight' : q.to = e /\ q.nth = i
    <2>1. i \in 1 .. Len(carried[e])
      BY <1>4, <1>5
    <2>2. CASE e = r.to /\ i = r.nth
      BY <1>1, <1>5, <2>1, <2>2
    <2>3. CASE ~(e = r.to /\ i = r.nth)
      <3>1. carried'[e][i] = carried[e][i]
        BY <1>4, <1>5, <2>1, <2>3
      <3>2. \/ carried[e][i] = stream[e][i]
            \/ carried[e][i] = NoMessage /\ \E q \in inflight : q.to = e /\ q.nth = i
        BY <2>1 DEF CarriedAsGiven
      <3>3. QED
        BY <1>1, <2>3, <3>1, <3>2
    <2>4. QED
      BY <2>2, <2>3
  <1>8. QED
    BY <1>6, <1>7 DEF CarriedAsGiven

LEMMA CarriedStep ==
  ASSUME TypeOK, PhaseInv, MPIInv, CarriedAsGiven, [Next]_vars
  PROVE  MPIInv' /\ CarriedAsGiven'
  <1>1. ASSUME UNCHANGED <<payload, inflight, blocking, stream, carried>>
        PROVE  MPIInv' /\ CarriedAsGiven'
    BY <1>1 DEF MPIInv, CarriedAsGiven
  <1>2. CASE Quiet
    BY <1>1, <1>2 DEF Quiet, sendVars, handleVars, mpiVars
  <1>3. CASE New
    BY <1>3 DEF New, NewSHandles, SendDone, mpiVars, MPIInv, CarriedAsGiven
  <1>4. CASE Close
    BY <1>1, <1>4 DEF Close, sendEODFrags, mpiVars
  <1>5. CASE SendHead
    BY <1>1, <1>5 DEF SendHead, sendFragment, mpiVars
  <1>6. CASE TestBuffer
    <2>1. CASE Available(pos)
      BY <1>6, <2>1, CarriedGive DEF Give
    <2>2. CASE ~Available(pos)
      BY <1>1, <1>6, <2>2 DEF TestBuffer, mpiVars
    <2>3. QED
      BY <2>1, <2>2
  <1>7. CASE SendReturns
    BY <1>7 DEF SendReturns, mpiVars, MPIInv, CarriedAsGiven
  <1>8. CASE Transfer
    BY <1>8, CarriedTransfer
  <1>9. QED
    BY <1>2, <1>3, <1>4, <1>5, <1>6, <1>7, <1>8, SendSteps DEF Within
-----------------------------------------------------------------------------
(* The EODs and what they announce.                                        *)

LEMMA AppendMessage ==
  ASSUME NEW s \in Seq(Message), NEW m \in Message
  PROVE  /\ Append(s, m) \in Seq(Message) /\ Len(s) \in Nat /\ Len(Append(s, m)) = Len(s) + 1
         /\ \A i \in 1 .. Len(s) : Append(s, m)[i] = s[i]
         /\ Append(s, m)[Len(s) + 1] = m
  BY AppendProperties, LenProperties

LEMMA LastEODAppend ==
  ASSUME NEW s \in Seq(Message), NEW m \in Message
  PROVE  /\ m.eod => LastEOD(Append(s, m), Len(Append(s, m)))
         /\ \A k \in 0 .. Len(s) : ~m.eod /\ LastEOD(s, k) => LastEOD(Append(s, m), k)
  <1> DEFINE t == Append(s, m)
             n == Len(s)
  <1>1. n \in Nat /\ Len(t) = n + 1 /\ (\A i \in 1 .. n : t[i] = s[i]) /\ t[n + 1] = m
    BY AppendMessage
  <1>2. n = Len(s)
    OBVIOUS
  <1> HIDE DEF t, n
  <1>3. ASSUME m.eod
        PROVE  LastEOD(t, Len(t))
    BY <1>1, <1>3 DEF LastEOD
  <1>4. ASSUME NEW k \in 0 .. n, ~m.eod, LastEOD(s, k)
        PROVE  LastEOD(t, k)
    <2>1. k \in 0 .. Len(t)
      BY <1>1
    <2>2. k = 0 \/ t[k].eod
      BY <1>1, <1>2, <1>4 DEF LastEOD
    <2>3. \A j \in k + 1 .. Len(t) : ~t[j].eod
      <3>1. ASSUME NEW j \in k + 1 .. n + 1
            PROVE  ~t[j].eod
        <4>1. CASE j = n + 1
          BY <1>1, <1>4, <4>1
        <4>2. CASE j # n + 1
          <5>1. j \in 1 .. n /\ j \in k + 1 .. n
            BY <1>1, <4>2
          <5>2. QED
            BY <1>1, <1>2, <1>4, <5>1 DEF LastEOD
        <4>3. QED
          BY <4>1, <4>2
      <3>2. QED
        BY <1>1, <3>1
    <2>4. QED
      BY <2>1, <2>2, <2>3 DEF LastEOD
  <1>5. QED
    BY <1>2, <1>3, <1>4 DEF t

LEMMA AnnouncesAppend ==
  ASSUME NEW s \in Seq(Message), NEW m \in Message
  PROVE  /\ \A i \in 1 .. Len(s) : Announces(s, i) => Announces(Append(s, m), i)
         /\ \A k \in 0 .. Len(s) : LastEOD(s, k) /\ m.n = Len(s) - k
                                    => Announces(Append(s, m), Len(s) + 1)
  <1> DEFINE t == Append(s, m)
             n == Len(s)
  <1>1. n \in Nat /\ (\A i \in 1 .. n : t[i] = s[i]) /\ t[n + 1] = m
    BY AppendMessage
  <1>2. n = Len(s)
    OBVIOUS
  <1> HIDE DEF t, n
  <1>3. ASSUME NEW i \in 1 .. n, Announces(s, i)
        PROVE  Announces(t, i)
    <2>1. PICK k \in 0 .. i - 1 : /\ k = 0 \/ s[k].eod
                                  /\ \A j \in k + 1 .. i - 1 : ~s[j].eod
                                  /\ s[i].n = i - 1 - k
      BY <1>3 DEF Announces
    <2>2. t[i] = s[i] /\ (k = 0 \/ t[k].eod) /\ \A j \in k + 1 .. i - 1 : ~t[j].eod
      BY <1>1, <2>1
    <2>3. QED
      BY <2>1, <2>2 DEF Announces
  <1>4. ASSUME NEW k \in 0 .. n, LastEOD(s, k), m.n = n - k
        PROVE  Announces(t, n + 1)
    <2>1. k \in 0 .. (n + 1) - 1 /\ (n + 1) - 1 - k = n - k /\ (n + 1) - 1 = n
      BY <1>1
    <2>2. (k = 0 \/ t[k].eod) /\ \A j \in k + 1 .. n : ~t[j].eod
      BY <1>1, <1>2, <1>4 DEF LastEOD
    <2>3. t[n + 1].n = n - k
      BY <1>1, <1>4
    <2>4. QED
      BY <2>1, <2>2, <2>3 DEF Announces
  <1>5. QED
    BY <1>2, <1>3, <1>4 DEF t

LEMMA AllAnnouncedAppend ==
  ASSUME NEW s \in Seq(Message), NEW m \in Message,
         \A i \in 1 .. Len(s) : s[i].eod => Announces(s, i),
         m.eod => \E k \in 0 .. Len(s) : LastEOD(s, k) /\ m.n = Len(s) - k
  PROVE  \A i \in 1 .. Len(Append(s, m)) : Append(s, m)[i].eod => Announces(Append(s, m), i)
  <1> DEFINE t == Append(s, m)
             n == Len(s)
  <1>1. n \in Nat /\ Len(t) = n + 1 /\ (\A i \in 1 .. n : t[i] = s[i]) /\ t[n + 1] = m
    BY AppendMessage
  <1>2. /\ \A i \in 1 .. n : Announces(s, i) => Announces(t, i)
        /\ \A k \in 0 .. n : LastEOD(s, k) /\ m.n = n - k => Announces(t, n + 1)
    BY AnnouncesAppend
  <1>3. \A i \in 1 .. n : s[i].eod => Announces(s, i)
    OBVIOUS
  <1>4. m.eod => \E k \in 0 .. n : LastEOD(s, k) /\ m.n = n - k
    OBVIOUS
  <1> HIDE DEF t, n
  <1>5. ASSUME NEW i \in 1 .. Len(t), t[i].eod
        PROVE  Announces(t, i)
    <2>1. CASE i \in 1 .. n
      BY <1>1, <1>2, <1>3, <1>5, <2>1
    <2>2. CASE i = n + 1
      BY <1>1, <1>2, <1>4, <1>5, <2>2
    <2>3. QED
      BY <1>1, <2>1, <2>2
  <1>6. QED
    BY <1>5 DEF t

LEMMA EODsAppend ==
  ASSUME NEW s \in Seq(Message), NEW m \in Message
  PROVE  /\ IsFiniteSet(EODs(s)) /\ Cardinality(EODs(s)) \in Nat
         /\ m.eod => Cardinality(EODs(Append(s, m))) = Cardinality(EODs(s)) + 1
         /\ ~m.eod => EODs(Append(s, m)) = EODs(s)
  <1> DEFINE t == Append(s, m)
             n == Len(s)
  <1>1. n \in Nat /\ Len(t) = n + 1 /\ (\A i \in 1 .. n : t[i] = s[i]) /\ t[n + 1] = m
    BY AppendMessage
  <1>2. DOMAIN s = 1 .. n /\ DOMAIN t = 1 .. n + 1
    BY AppendMessage, LenProperties
  <1> HIDE DEF t, n
  <1>3. EODs(s) \subseteq 1 .. n /\ n + 1 \notin EODs(s)
    BY <1>1, <1>2 DEF EODs
  <1>4. IsFiniteSet(EODs(s)) /\ Cardinality(EODs(s)) \in Nat
    <2>1. IsFiniteSet(1 .. n)
      BY <1>1, FS_Interval
    <2>2. IsFiniteSet(EODs(s))
      BY <1>3, <2>1, FS_Subset
    <2>3. QED
      BY <2>2, FS_CardinalityType
  <1>5. ASSUME m.eod
        PROVE  EODs(t) = EODs(s) \cup {n + 1}
    BY <1>1, <1>2, <1>5 DEF EODs
  <1>6. ASSUME ~m.eod
        PROVE  EODs(t) = EODs(s)
    BY <1>1, <1>2, <1>6 DEF EODs
  <1>7. m.eod => Cardinality(EODs(t)) = Cardinality(EODs(s)) + 1
    BY <1>3, <1>4, <1>5, FS_AddElement
  <1>8. QED
    BY <1>4, <1>6, <1>7 DEF t

\* The first entry of the outbox, while the EODs are sent.
LEMMA EndingGive ==
  ASSUME TypeOK, PhaseInv, CountInv, AnnouncedInv, SessionInv, Give, UNCHANGED <<cmdVars, threadVars>>, Ending
  PROVE  CountInv' /\ AnnouncedInv' /\ SessionInv'
  <1>0. /\ SendTypeOK /\ outbox # <<>> /\ sender /\ pos \in Buffer
        /\ payload \in [Buffer -> Message] /\ stream \in [Dest -> Seq(Message)]
        /\ sent_frag_count \in [Dest -> Nat]
    BY DEF TypeOK, SendTypeOK, Give, TestBuffer, PhaseInv, Ending
  <1>1. PICK d \in Dest, m \in Message :
          /\ d = outbox[1].to /\ m = outbox[1].msg /\ blocking = NoRequest
          /\ Len(outbox') = Len(outbox) - 1
          /\ \A i \in 1 .. Len(outbox') : outbox'[i] = outbox[i + 1]
          /\ payload' = [payload EXCEPT ![pos] = m]
          /\ stream' = [stream EXCEPT ![d] = Append(stream[d], m)]
          /\ IF synchronous_sends
             THEN /\ blocking' = [to |-> d, nth |-> Len(stream[d]) + 1, buffer |-> pos]
                  /\ UNCHANGED sent_frag_count
             ELSE /\ blocking' = blocking
                  /\ sent_frag_count' = IF m.eod THEN sent_frag_count
                                        ELSE [sent_frag_count EXCEPT ![d] = sent_frag_count[d] + 1]
    BY <1>0, GiveIs
  <1> DEFINE L == Len(outbox)
  <1>2. /\ L \in Nat /\ L >= 1 /\ L <= DestCount
        /\ \A i \in 1 .. L : /\ outbox[i].to = DestCount - L + i - 1
                             /\ outbox[i].msg = EODFrag(sent_frag_count[outbox[i].to])
    BY <1>0, EntryType, EmptySeq DEF CountInv
  <1>3. d = DestCount - L /\ m = EODFrag(sent_frag_count[d]) /\ m.eod /\ m.n = sent_frag_count[d]
    <2>1. d = DestCount - L + 1 - 1 /\ m = EODFrag(sent_frag_count[d]) /\ DestCount \in Nat
      BY <1>1, <1>2, ConstantsAre
    <2>2. QED
      BY <1>2, <2>1 DEF EODFrag
  <1>4. sent_frag_count' = sent_frag_count
        /\ (blocking' = NoRequest \/ (blocking'.to = d /\ blocking'.buffer = pos))
    BY <1>1, <1>3
  <1>5. payload'[pos] = m
    BY <1>0, <1>1
  <1>6. stream'[d] = Append(stream[d], m) /\ \A e \in Dest \ {d} : stream'[e] = stream[e]
    BY <1>0, <1>1
  <1>7. Ending' /\ sender' = sender /\ Due' = Due
    BY DEF Ending, Due, cmdVars, threadVars
  <1>8. Waiting(d) /\ ~Waiting(d)' /\ \A e \in Dest \ {d} : Waiting(e) <=> Waiting(e)'
    <2>1. \A e \in Dest : e \in Nat
      BY ConstantsAre
    <2>2. \A e \in Dest : (Waiting(e) <=> e >= DestCount - L) /\ (Waiting(e)' <=> e >= DestCount - (L - 1))
      BY <1>1, <1>7 DEF Waiting
    <2>3. DestCount \in Nat
      BY ConstantsAre
    <2> HIDE DEF L
    <2>4. Waiting(d) /\ ~Waiting(d)'
      BY <1>2, <1>3, <2>1, <2>2, <2>3
    <2>5. ASSUME NEW e \in Dest \ {d}
          PROVE  Waiting(e) <=> Waiting(e)'
      <3>1. e \in Nat /\ e # DestCount - L
        BY <1>3, <2>1
      <3>2. e >= DestCount - L <=> e >= DestCount - (L - 1)
        BY <1>2, <2>3, <3>1
      <3>3. QED
        BY <2>2, <3>2
    <2>6. QED
      BY <2>4, <2>5
  <1> HIDE DEF L
  <1>9. \A e \in Dest : Uncounted(e) = 0 /\ Uncounted(e)' = 0
    BY <1>1, <1>3, <1>4, <1>5 DEF Uncounted
  <1>10. PICK k \in 0 .. Len(stream[d]) : LastEOD(stream[d], k) /\ sent_frag_count[d] + 0 = Len(stream[d]) - k
    BY <1>0, <1>8, <1>9 DEF CountInv, Counting
  <1>11. stream[d] \in Seq(Message) /\ sent_frag_count[d] \in Nat
    BY <1>0
  <1>12. LastEOD(stream'[d], Len(stream'[d]))
    BY <1>3, <1>6, <1>11, LastEODAppend
  <1>13. ASSUME NEW e \in Dest
         PROVE  IF Counting(e)'
                THEN \E i \in 0 .. Len(stream'[e]) :
                       LastEOD(stream'[e], i) /\ sent_frag_count'[e] + Uncounted(e)' = Len(stream'[e]) - i
                ELSE LastEOD(stream'[e], Len(stream'[e]))
    <2>1. CASE e = d
      BY <1>7, <1>8, <1>12, <2>1 DEF Counting
    <2>2. CASE e # d
      <3>1. Counting(e) <=> Counting(e)'
        BY <1>7, <1>8, <2>2 DEF Counting
      <3>2. stream'[e] = stream[e] /\ Uncounted(e)' = Uncounted(e) /\ sent_frag_count'[e] = sent_frag_count[e]
        BY <1>4, <1>6, <1>9, <2>2
      <3>3. QED
        BY <3>1, <3>2 DEF CountInv
    <2>3. QED
      BY <2>1, <2>2
  <1>14. /\ Len(outbox') <= DestCount
         /\ blocking' # NoRequest => payload'[blocking'.buffer].eod
         /\ \A i \in 1 .. Len(outbox') :
              /\ outbox'[i].to = DestCount - Len(outbox') + i - 1
              /\ outbox'[i].msg = EODFrag(sent_frag_count'[outbox'[i].to])
    <2>1. Len(outbox') = L - 1 /\ \A i \in 1 .. L - 1 : outbox'[i] = outbox[i + 1]
      BY <1>1 DEF L
    <2>2. DestCount \in Nat
      BY ConstantsAre
    <2>3. ASSUME NEW i \in 1 .. L - 1
          PROVE  /\ outbox'[i].to = DestCount - (L - 1) + i - 1
                 /\ outbox'[i].msg = EODFrag(sent_frag_count'[outbox'[i].to])
      <3>1. i + 1 \in 1 .. L
        BY <1>2
      <3>2. outbox[i + 1].to = DestCount - L + (i + 1) - 1
            /\ outbox[i + 1].msg = EODFrag(sent_frag_count[outbox[i + 1].to])
        BY <1>2, <3>1
      <3>3. DestCount - L + (i + 1) - 1 = DestCount - (L - 1) + i - 1
        BY <1>2, <2>2
      <3>4. QED
        BY <1>4, <2>1, <3>2, <3>3
    <2>4. Len(outbox') <= DestCount
      BY <1>2, <2>1, <2>2
    <2>5. blocking' # NoRequest => payload'[blocking'.buffer].eod
      BY <1>3, <1>4, <1>5
    <2>6. \A i \in 1 .. Len(outbox') :
            /\ outbox'[i].to = DestCount - Len(outbox') + i - 1
            /\ outbox'[i].msg = EODFrag(sent_frag_count'[outbox'[i].to])
      BY <2>1, <2>3
    <2>7. QED
      BY <2>4, <2>5, <2>6
  <1>15. CountInv'
    BY <1>13, <1>14 DEF CountInv
  <1>16. AnnouncedInv'
    <2>1. ASSUME NEW e \in Dest, NEW i \in 1 .. Len(stream'[e]), stream'[e][i].eod
          PROVE  Announces(stream'[e], i)
      <3>1. CASE e # d
        BY <1>6, <2>1, <3>1 DEF AnnouncedInv
      <3>2. CASE e = d
        <4>1. m.n = Len(stream[d]) - k
          BY <1>3, <1>10, <1>11
        <4>2. \A j \in 1 .. Len(stream[d]) : stream[d][j].eod => Announces(stream[d], j)
          BY DEF AnnouncedInv
        <4>3. \A j \in 1 .. Len(stream'[d]) : stream'[d][j].eod => Announces(stream'[d], j)
          BY <1>6, <1>10, <1>11, <4>1, <4>2, AllAnnouncedAppend
        <4>4. QED
          BY <2>1, <3>2, <4>3
      <3>3. QED
        BY <3>1, <3>2
    <2>2. QED
      BY <2>1 DEF AnnouncedInv
  <1>17. SessionInv'
    <2>1. ASSUME NEW e \in Dest
          PROVE  Cardinality(EODs(stream'[e])) + (IF Waiting(e)' THEN 1 ELSE 0) = Due'
      <3>1. Cardinality(EODs(stream[e])) + (IF Waiting(e) THEN 1 ELSE 0) = Due
        BY DEF SessionInv
      <3>2. CASE e = d
        <4>1. Cardinality(EODs(stream'[d])) = Cardinality(EODs(stream[d])) + 1
              /\ Cardinality(EODs(stream[d])) \in Nat
          BY <1>3, <1>6, <1>11, EODsAppend
        <4>2. QED
          BY <1>7, <1>8, <3>1, <3>2, <4>1
      <3>3. CASE e # d
        BY <1>6, <1>7, <1>8, <3>1, <3>3
      <3>4. QED
        BY <3>2, <3>3
    <2>2. QED
      BY <2>1 DEF SessionInv
  <1>18. QED
    BY <1>15, <1>16, <1>17

\* The first entry of the outbox, while a fragment is sent.
LEMMA DataGive ==
  ASSUME TypeOK, PhaseInv, CountInv, AnnouncedInv, SessionInv, OutboxInv,
         Give, UNCHANGED <<cmdVars, threadVars>>, ~Ending
  PROVE  CountInv' /\ AnnouncedInv' /\ SessionInv'
  <1>0. /\ SendTypeOK /\ outbox # <<>> /\ sender /\ pos \in Buffer
        /\ payload \in [Buffer -> Message] /\ stream \in [Dest -> Seq(Message)]
        /\ sent_frag_count \in [Dest -> Nat]
    BY DEF TypeOK, SendTypeOK, Give, TestBuffer, PhaseInv, Ending, SendDone
  <1>1. PICK d \in Dest, m \in Message :
          /\ d = outbox[1].to /\ m = outbox[1].msg /\ blocking = NoRequest
          /\ payload' = [payload EXCEPT ![pos] = m]
          /\ stream' = [stream EXCEPT ![d] = Append(stream[d], m)]
          /\ IF synchronous_sends
             THEN /\ blocking' = [to |-> d, nth |-> Len(stream[d]) + 1, buffer |-> pos]
                  /\ UNCHANGED sent_frag_count
             ELSE /\ blocking' = blocking
                  /\ sent_frag_count' = IF m.eod THEN sent_frag_count
                                        ELSE [sent_frag_count EXCEPT ![d] = sent_frag_count[d] + 1]
    BY <1>0, GiveIs
  <1>2. ~m.eod
    <2>1. Len(outbox) >= 1 /\ Len(outbox) \in Nat
      BY <1>0, EntryType, EmptySeq
    <2>2. QED
      BY <1>1, <2>1 DEF OutboxInv
  <1>3. payload'[pos] = m
    BY <1>0, <1>1
  <1>4. stream'[d] = Append(stream[d], m) /\ \A e \in Dest \ {d} : stream'[e] = stream[e]
    BY <1>0, <1>1
  <1>5. ~Ending' /\ sender' /\ Due' = Due
    BY <1>0 DEF Ending, Due, cmdVars, threadVars
  <1>6. \A e \in Dest : Counting(e) /\ Counting(e)' /\ ~Waiting(e) /\ ~Waiting(e)'
    BY <1>0, <1>5 DEF Counting, Waiting
  <1>7. \A e \in Dest : Uncounted(e) = 0
    BY <1>1 DEF Uncounted
  <1>8. \A e \in Dest \ {d} : Uncounted(e)' = 0 /\ sent_frag_count'[e] = sent_frag_count[e]
    <2>1. blocking' = NoRequest \/ blocking'.to = d
      BY <1>1
    <2>2. \A e \in Dest \ {d} : Uncounted(e)' = 0
      BY <2>1 DEF Uncounted
    <2>3. QED
      BY <1>0, <1>1, <2>2
  <1>9. stream[d] \in Seq(Message) /\ sent_frag_count[d] \in Nat /\ Len(stream[d]) \in Nat
    BY <1>0, StreamType
  <1>10. sent_frag_count'[d] + Uncounted(d)' = sent_frag_count[d] + 1
    <2>1. CASE synchronous_sends
      <3>1. blocking'.nth = Len(stream[d]) + 1 /\ blocking'.to = d /\ blocking'.buffer = pos
        BY <1>1, <2>1
      <3>2. NoRequest.nth = 0
        BY DEF NoRequest
      <3>3. blocking' # NoRequest
        BY <1>9, <3>1, <3>2
      <3>4. Uncounted(d)' = 1
        BY <1>2, <1>3, <3>1, <3>3 DEF Uncounted
      <3>5. QED
        BY <1>1, <2>1, <3>4
    <2>2. CASE ~synchronous_sends
      <3>1. Uncounted(d)' = 0
        BY <1>1, <2>2 DEF Uncounted
      <3>2. sent_frag_count'[d] = sent_frag_count[d] + 1
        BY <1>0, <1>1, <1>2, <2>2
      <3>3. QED
        BY <1>9, <3>1, <3>2
    <2>3. QED
      BY <2>1, <2>2
  <1>11. ASSUME NEW e \in Dest
         PROVE  \E k \in 0 .. Len(stream'[e]) :
                  LastEOD(stream'[e], k) /\ sent_frag_count'[e] + Uncounted(e)' = Len(stream'[e]) - k
    <2>1. PICK k \in 0 .. Len(stream[e]) :
            LastEOD(stream[e], k) /\ sent_frag_count[e] + Uncounted(e) = Len(stream[e]) - k
      BY <1>6 DEF CountInv
    <2>2. CASE e # d
      BY <1>4, <1>7, <1>8, <2>1, <2>2
    <2>3. CASE e = d
      <3>1. Len(stream'[d]) = Len(stream[d]) + 1
        BY <1>4, <1>9, AppendMessage
      <3>2. LastEOD(stream'[d], k)
        BY <1>2, <1>4, <1>9, <2>1, <2>3, LastEODAppend
      <3>3. sent_frag_count[d] + 1 = Len(stream'[d]) - k /\ k \in 0 .. Len(stream'[d])
        BY <1>7, <1>9, <2>1, <2>3, <3>1
      <3>4. QED
        BY <1>10, <2>3, <3>2, <3>3
    <2>4. QED
      BY <2>2, <2>3
  <1>12. CountInv'
    BY <1>5, <1>6, <1>11 DEF CountInv
  <1>13. AnnouncedInv'
    <2>1. ASSUME NEW e \in Dest, NEW i \in 1 .. Len(stream'[e]), stream'[e][i].eod
          PROVE  Announces(stream'[e], i)
      <3>1. CASE e # d
        BY <1>4, <2>1, <3>1 DEF AnnouncedInv
      <3>2. CASE e = d
        <4>1. \A j \in 1 .. Len(stream[d]) : stream[d][j].eod => Announces(stream[d], j)
          BY DEF AnnouncedInv
        <4>2. \A j \in 1 .. Len(stream'[d]) : stream'[d][j].eod => Announces(stream'[d], j)
          BY <1>2, <1>4, <1>9, <4>1, AllAnnouncedAppend
        <4>3. QED
          BY <2>1, <3>2, <4>2
      <3>3. QED
        BY <3>1, <3>2
    <2>2. QED
      BY <2>1 DEF AnnouncedInv
  <1>14. SessionInv'
    <2>1. ASSUME NEW e \in Dest
          PROVE  EODs(stream'[e]) = EODs(stream[e])
      <3>1. CASE e = d
        BY <1>2, <1>4, <1>9, <3>1, EODsAppend
      <3>2. CASE e # d
        BY <1>4, <3>2
      <3>3. QED
        BY <3>1, <3>2
    <2>2. QED
      BY <1>5, <1>6, <2>1 DEF SessionInv
  <1>15. QED
    BY <1>12, <1>13, <1>14

\* When MPI_Send returns, the fragment it sent is counted.
LEMMA CountReturns ==
  ASSUME TypeOK, CountInv, AnnouncedInv, SessionInv, SendReturns, UNCHANGED <<cmdVars, threadVars>>
  PROVE  CountInv' /\ AnnouncedInv' /\ SessionInv'
  <1>1. /\ blocking # NoRequest /\ blocking' = NoRequest /\ UNCHANGED <<payload, outbox, stream>>
        /\ sent_frag_count' = IF payload[blocking.buffer].eod THEN sent_frag_count
                              ELSE [sent_frag_count EXCEPT ![blocking.to] = sent_frag_count[blocking.to] + 1]
    BY DEF SendReturns, Counted, mpiVars
  <1>2. sent_frag_count \in [Dest -> Nat] /\ blocking.to \in Dest
    BY DEF TypeOK, SendTypeOK, Request
  <1>3. (Ending <=> Ending') /\ sender' = sender /\ Due' = Due
    BY DEF Ending, Due, cmdVars, threadVars
  <1>4. \A d \in Dest : (Waiting(d) <=> Waiting(d)') /\ (Counting(d) <=> Counting(d)')
    BY <1>1, <1>3 DEF Waiting, Counting
  <1>5. ASSUME NEW d \in Dest
        PROVE  sent_frag_count'[d] + Uncounted(d)' = sent_frag_count[d] + Uncounted(d)
    <2>1. Uncounted(d)' = 0
      BY <1>1 DEF Uncounted
    <2>2. CASE blocking.to = d /\ ~payload[blocking.buffer].eod
      BY <1>1, <1>2, <2>1, <2>2 DEF Uncounted
    <2>3. CASE ~(blocking.to = d /\ ~payload[blocking.buffer].eod)
      BY <1>1, <1>2, <2>1, <2>3 DEF Uncounted
    <2>4. QED
      BY <2>2, <2>3
  <1>6. \A d \in Dest :
          IF Counting(d)'
          THEN \E k \in 0 .. Len(stream'[d]) :
                 LastEOD(stream'[d], k) /\ sent_frag_count'[d] + Uncounted(d)' = Len(stream'[d]) - k
          ELSE LastEOD(stream'[d], Len(stream'[d]))
    BY <1>1, <1>4, <1>5 DEF CountInv
  <1>7. ASSUME Ending'
        PROVE  /\ Len(outbox') <= DestCount
               /\ blocking' # NoRequest => payload'[blocking'.buffer].eod
               /\ \A i \in 1 .. Len(outbox') :
                    /\ outbox'[i].to = DestCount - Len(outbox') + i - 1
                    /\ outbox'[i].msg = EODFrag(sent_frag_count'[outbox'[i].to])
    <2>1. sent_frag_count' = sent_frag_count
      BY <1>1, <1>3, <1>7 DEF CountInv
    <2>2. QED
      BY <1>1, <1>3, <1>7, <2>1 DEF CountInv
  <1>8. CountInv'
    BY <1>6, <1>7 DEF CountInv
  <1>9. AnnouncedInv'
    BY <1>1 DEF AnnouncedInv
  <1>10. SessionInv'
    BY <1>1, <1>3, <1>4 DEF SessionInv
  <1>11. QED
    BY <1>8, <1>9, <1>10

\* The counts of a new SHandles are those since the last EODs.
LEMMA CountNew ==
  ASSUME TypeOK, PhaseInv, CountInv, AnnouncedInv, SessionInv, New
  PROVE  CountInv' /\ AnnouncedInv' /\ SessionInv'
  <1>1. /\ UNCHANGED <<stream, outbox, blocking>> /\ outbox = <<>> /\ blocking = NoRequest
        /\ sent_frag_count' = [d \in Dest |-> 0]
    BY DEF New, NewSHandles, SendDone, Fresh, mpiVars
  <1>2. cmd # "init" /\ session \in Nat
    BY DEF New, PhaseInv, TypeOK
  <1>3. sender' /\ ~Ending' /\ Due' = Due /\ (sender => Ending)
    BY <1>2 DEF New, Ending, Due
  <1>4. \A d \in Dest : ~Waiting(d) /\ ~Waiting(d)' /\ ~Counting(d) /\ Counting(d)' /\ Uncounted(d)' = 0
    <2>1. \A d \in Dest : ~Waiting(d)
      BY <1>1, ConstantsAre DEF Waiting
    <2>2. QED
      BY <1>1, <1>3, <2>1 DEF Counting, Waiting, Uncounted
  <1>5. ASSUME NEW d \in Dest
        PROVE  \E k \in 0 .. Len(stream'[d]) :
                 LastEOD(stream'[d], k) /\ sent_frag_count'[d] + Uncounted(d)' = Len(stream'[d]) - k
    <2>1. LastEOD(stream[d], Len(stream[d]))
      BY <1>4 DEF CountInv
    <2>2. Len(stream[d]) \in Nat
      BY StreamType DEF TypeOK
    <2>3. sent_frag_count'[d] = 0
      BY <1>1
    <2>4. QED
      BY <1>1, <1>4, <2>1, <2>2, <2>3
  <1>6. CountInv'
    BY <1>3, <1>4, <1>5 DEF CountInv
  <1>7. AnnouncedInv' /\ SessionInv'
    BY <1>1, <1>3, <1>4 DEF AnnouncedInv, SessionInv
  <1>8. QED
    BY <1>6, <1>7

\* The destructor begins: an EOD for each destination waits.
LEMMA CountClose ==
  ASSUME TypeOK, PhaseInv, CountInv, AnnouncedInv, SessionInv, Close
  PROVE  CountInv' /\ AnnouncedInv' /\ SessionInv'
  <1>1. /\ Len(outbox') = DestCount /\ blocking = NoRequest
        /\ UNCHANGED <<payload, sent_frag_count, blocking, stream>>
        /\ \A i \in 1 .. DestCount : /\ outbox'[i].to = i - 1
                                     /\ outbox'[i].msg = EODFrag(sent_frag_count[i - 1])
    BY EODsAre DEF TypeOK, Close, SendDone, mpiVars
  <1>2. session \in Nat /\ DestCount \in Nat
    BY ConstantsAre, BoardReaderAssumption DEF TypeOK
  <1>3. ~Ending /\ Ending' /\ sender /\ sender'
    BY DEF Close, PhaseInv, Ending
  <1>4. Due' = Due + 1
    BY <1>2, <1>3 DEF Close, PhaseInv, Ending, Due
  <1>5. \A d \in Dest : ~Waiting(d) /\ Waiting(d)' /\ Counting(d) /\ Counting(d)'
                        /\ Uncounted(d) = 0 /\ Uncounted(d)' = 0
    <2>1. \A d \in Dest : Waiting(d)'
      BY <1>1, <1>2, <1>3, ConstantsAre DEF Waiting
    <2>2. QED
      BY <1>1, <1>3, <2>1 DEF Counting, Waiting, Uncounted
  <1>6. \A d \in Dest :
          \E k \in 0 .. Len(stream'[d]) :
            LastEOD(stream'[d], k) /\ sent_frag_count'[d] + Uncounted(d)' = Len(stream'[d]) - k
    BY <1>1, <1>5 DEF CountInv
  <1>7. \A i \in 1 .. Len(outbox') :
          /\ outbox'[i].to = DestCount - Len(outbox') + i - 1
          /\ outbox'[i].msg = EODFrag(sent_frag_count'[outbox'[i].to])
    <2>1. \A i \in 1 .. DestCount : DestCount - DestCount + i - 1 = i - 1
      BY <1>2
    <2>2. QED
      BY <1>1, <2>1
  <1>8. CountInv'
    <2>1. Len(outbox') <= DestCount /\ blocking' = NoRequest
      BY <1>1, <1>2
    <2>2. QED
      BY <1>5, <1>6, <1>7, <2>1 DEF CountInv
  <1>9. AnnouncedInv'
    BY <1>1 DEF AnnouncedInv
  <1>10. SessionInv'
    <2>1. ASSUME NEW d \in Dest
          PROVE  Cardinality(EODs(stream'[d])) + (IF Waiting(d)' THEN 1 ELSE 0) = Due'
      <3>1. Cardinality(EODs(stream[d])) + 0 = Due
        BY <1>5 DEF SessionInv
      <3>2. Cardinality(EODs(stream[d])) \in Nat
        <4>1. stream[d] \in Seq(Message)
          BY StreamType DEF TypeOK
        <4>2. QED
          BY <4>1, ConstantsAre, EODsAppend
      <3>3. QED
        BY <1>1, <1>4, <1>5, <3>1, <3>2
    <2>2. QED
      BY <2>1 DEF SessionInv
  <1>11. QED
    BY <1>8, <1>9, <1>10

LEMMA CountStep ==
  ASSUME TypeOK, PhaseInv, CountInv, AnnouncedInv, SessionInv, OutboxInv, [Next]_vars
  PROVE  CountInv' /\ AnnouncedInv' /\ SessionInv'
  <1>1. CASE Quiet
    <2>1. UNCHANGED <<payload, sent_frag_count, outbox, blocking, stream>> /\ Due' = Due
      BY <1>1 DEF Quiet, sendVars, handleVars, mpiVars
    <2>2. \A d \in Dest : Uncounted(d)' = Uncounted(d)
      BY <2>1 DEF Uncounted
    <2>3. \A d \in Dest : (Waiting(d)' <=> Waiting(d)) /\ (Counting(d)' <=> Counting(d))
      <3>1. CASE (Ending <=> Ending') /\ sender' = sender
        BY <2>1, <3>1 DEF Waiting, Counting
      <3>2. CASE Ending /\ ~Ending' /\ ~sender' /\ SendDone
        <4>1. \A d \in Dest : ~Waiting(d)
          BY <3>2, ConstantsAre DEF Waiting, SendDone
        <4>2. QED
          BY <3>2, <4>1 DEF Waiting, Counting
      <3>3. QED
        BY <1>1, <3>1, <3>2 DEF Quiet
    <2>4. Ending' => Ending
      BY <1>1 DEF Quiet
    <2>5. CountInv'
      BY <2>1, <2>2, <2>3, <2>4 DEF CountInv
    <2>6. QED
      BY <2>1, <2>3, <2>5 DEF AnnouncedInv, SessionInv
  <1>2. CASE New
    BY <1>2, CountNew
  <1>3. CASE Close
    BY <1>3, CountClose
  <1>4. CASE SendHead
    <2>1. UNCHANGED <<payload, sent_frag_count, blocking, stream, pc, cmd, sender, session>> /\ pc = "send"
      BY <1>4 DEF SendHead, sendFragment, mpiVars
    <2>2. ~Ending /\ ~Ending' /\ Due' = Due
      BY <2>1 DEF PhaseInv, Ending, Due
    <2>3. \A d \in Dest : /\ Uncounted(d)' = Uncounted(d) /\ ~Waiting(d) /\ ~Waiting(d)'
                          /\ Counting(d)' <=> Counting(d)
      BY <2>1, <2>2 DEF Uncounted, Waiting, Counting
    <2>4. CountInv'
      BY <2>1, <2>2, <2>3 DEF CountInv
    <2>5. QED
      BY <2>1, <2>2, <2>3, <2>4 DEF AnnouncedInv, SessionInv
  <1>5. CASE Within
    <2>1. UNCHANGED <<cmdVars, threadVars>>
      BY <1>5 DEF Within
    <2>2. CASE Give
      BY <2>1, <2>2, EndingGive, DataGive
    <2>3. CASE SendReturns
      BY <2>1, <2>3, CountReturns
    <2>4. CASE (TestBuffer /\ ~Available(pos)) \/ Transfer
      <3>1. UNCHANGED <<payload, sent_frag_count, outbox, blocking, stream>>
        BY <2>4 DEF TestBuffer, Transfer, handleVars, mpiVars
      <3>2. (Ending <=> Ending') /\ sender' = sender /\ Due' = Due
        BY <2>1 DEF Ending, Due, cmdVars, threadVars
      <3>3. \A d \in Dest : /\ Uncounted(d)' = Uncounted(d)
                            /\ Waiting(d)' <=> Waiting(d)
                            /\ Counting(d)' <=> Counting(d)
        BY <3>1, <3>2 DEF Uncounted, Waiting, Counting
      <3>4. CountInv'
        BY <3>1, <3>2, <3>3 DEF CountInv
      <3>5. QED
        BY <3>1, <3>2, <3>3, <3>4 DEF AnnouncedInv, SessionInv
    <2>5. QED
      BY <1>5, <2>2, <2>3, <2>4 DEF Within, Give
  <1>6. QED
    BY <1>1, <1>2, <1>3, <1>4, <1>5, SendSteps

-----------------------------------------------------------------------------
(* The fragments taken from the generators, and where they are.            *)

LEMMA DataInAppend ==
  ASSUME NEW s \in Seq(Message), NEW m \in Message
  PROVE  /\ DataIn(s) \subseteq 1 .. Len(s) /\ Len(s) \in Nat
         /\ \A j \in DataIn(s) : Append(s, m)[j] = s[j]
         /\ m.eod => DataIn(Append(s, m)) = DataIn(s)
         /\ ~m.eod => DataIn(Append(s, m)) = DataIn(s) \cup {Len(s) + 1}
  <1> DEFINE t == Append(s, m)
             n == Len(s)
  <1>1. n \in Nat /\ Len(t) = n + 1 /\ (\A i \in 1 .. n : t[i] = s[i]) /\ t[n + 1] = m
    BY AppendMessage
  <1>2. DOMAIN s = 1 .. n /\ DOMAIN t = 1 .. n + 1
    BY AppendMessage, LenProperties
  <1> HIDE DEF t, n
  <1>3. DataIn(s) \subseteq 1 .. n
    BY <1>2 DEF DataIn
  <1>4. ASSUME m.eod
        PROVE  DataIn(t) = DataIn(s)
    BY <1>1, <1>2, <1>4 DEF DataIn
  <1>5. ASSUME ~m.eod
        PROVE  DataIn(t) = DataIn(s) \cup {n + 1}
    BY <1>1, <1>2, <1>5 DEF DataIn
  <1>6. \A j \in DataIn(s) : t[j] = s[j]
    BY <1>1, <1>3
  <1>7. QED
    BY <1>1, <1>3, <1>4, <1>5, <1>6 DEF t, n

LEMMA ListsType ==
  ASSUME TypeOK
  PROVE  /\ taken \in Seq(Message) /\ Len(taken) \in Nat /\ DOMAIN taken = 1 .. Len(taken)
         /\ frags \in Seq(Message) /\ Len(frags) \in Nat /\ DOMAIN frags = 1 .. Len(frags)
         /\ \A i \in 1 .. Len(frags) : frags[i] \in ToSet(frags)
  <1>1. taken \in Seq(Message) /\ frags \in Seq(Message)
    BY DEF TypeOK
  <1>2. QED
    BY <1>1, LenProperties DEF ToSet

\* What a step does to the fragments taken.
Took == /\ pc = "next"
        /\ \E new \in Seq(Message) :
             /\ \A i \in 1 .. Len(new) : ~new[i].eod
             /\ frags' = new /\ taken' = taken \o new
        /\ UNCHANGED <<sendVars, overlarge>>
TooLarge == /\ pc = "send" /\ SendDone /\ frags' = <<>> /\ overlarge' = overlarge \cup ToSet(frags)
            /\ UNCHANGED <<sendVars, taken>>

LEMMA ListSteps ==
  ASSUME TypeOK, PhaseInv, [Next]_vars
  PROVE  UNCHANGED <<frags, taken, overlarge>> \/ SendHead \/ Took \/ TooLarge
  <1>1. CASE getNext
    <2>1. PICK new \in Seq(Message) :
            /\ \A i \in 1 .. Len(new) : ~new[i].eod
            /\ \/ frags' = new /\ taken' = taken \o new /\ pc' = "send" /\ UNCHANGED sendVars
               \/ UNCHANGED <<frags, taken>> /\ pc' = "eod" /\ sendEODFrags
            /\ pc = "next" /\ UNCHANGED overlarge
      BY <1>1, NextIs
    <2>2. QED
      BY <2>1 DEF Took
  <1>2. CASE SendNext
    BY <1>2 DEF SendNext, SendHead, TooLarge, cmdVars
  <1>3. CASE Start \/ Resume \/ StopOrPause \/ BeginInit \/ Command \/ MPI \/ Stopped \/ UNCHANGED vars
    BY <1>3 DEF Start, Resume, StopOrPause, BeginInit, Command, Told, Join, EndInit, MPI, Stopped,
                vars, threadVars, history
  <1>4. CASE Begin \/ OldDestroyed \/ End \/ Sending
    BY <1>4 DEF Begin, OldDestroyed, End, Sending, threadVars, history
  <1>5. QED
    BY <1>1, <1>2, <1>3, <1>4 DEF Next, Thread

\* The rest of a step, when the lists and the streams stay as they are.
LEMMA ListsKept ==
  ASSUME OutboxInv, GivenInv, UNCHANGED <<frags, taken, overlarge, stream>>,
         \/ outbox = <<>> /\ (outbox' = <<>> \/ Ending')
         \/ outbox' = outbox /\ (Ending' <=> Ending)
  PROVE  OutboxInv' /\ GivenInv'
  <1>1. \A d \in Dest : InOutbox(d)' <=> InOutbox(d)
    BY DEF InOutbox
  <1>2. Handed' = Handed
    BY DEF Handed
  <1>3. OutboxInv'
    <2>1. CASE outbox' = outbox /\ (Ending' <=> Ending)
      BY <1>2, <2>1 DEF OutboxInv
    <2>2. CASE Ending' \/ outbox' = <<>>
      BY <1>2, <2>2, EmptySeq DEF OutboxInv
    <2>3. QED
      BY <2>1, <2>2
  <1>4. ASSUME NEW d \in Dest
        PROVE  \E at \in [DataIn(stream'[d]) -> DOMAIN taken'] : GivenAs(d, at)'
    <2>1. PICK at \in [DataIn(stream[d]) -> DOMAIN taken] : GivenAs(d, at)
      BY DEF GivenInv
    <2>2. GivenAs(d, at)'
      BY <1>1, <1>2, <2>1 DEF GivenAs
    <2>3. QED
      BY <2>1, <2>2
  <1>5. QED
    BY <1>3, <1>4 DEF GivenInv

LEMMA ListsTook ==
  ASSUME TypeOK, PhaseInv, OutboxInv, GivenInv, Took
  PROVE  OutboxInv' /\ GivenInv'
  <1>1. PICK new \in Seq(Message) :
          (\A i \in 1 .. Len(new) : ~new[i].eod) /\ frags' = new /\ taken' = taken \o new
    BY DEF Took
  <1>2. cmd # "init" /\ frags = <<>> /\ outbox = <<>> /\ outbox' = <<>> /\ stream' = stream /\ overlarge' = overlarge
    BY DEF Took, PhaseInv, Ending, SendDone, sendVars, handleVars, mpiVars
  <1> DEFINE N == Len(taken)
             K == Len(new)
  <1>3. N \in Nat /\ K \in Nat /\ Len(frags) = 0 /\ DOMAIN taken = 1 .. N
    BY <1>2, ListsType, LenProperties, EmptySeq
  <1>4. /\ Len(taken') = N + K /\ DOMAIN taken' = 1 .. N + K
        /\ \A i \in 1 .. N : taken'[i] = taken[i]
        /\ \A i \in 1 .. K : taken'[N + i] = new[i]
    <2>1. taken \in Seq(Message)
      BY ListsType
    <2>2. taken' \in Seq(Message) /\ Len(taken') = N + K
      BY <1>1, <2>1, ConcatProperties
    <2>3. \A i \in 1 .. N + K : taken'[i] = IF i <= N THEN taken[i] ELSE new[i - N]
      BY <1>1, <2>1, ConcatProperties
    <2>4. ASSUME NEW i \in 1 .. K
          PROVE  taken'[N + i] = new[i]
      <3>1. N + i \in 1 .. N + K /\ ~(N + i <= N) /\ (N + i) - N = i
        BY <1>3
      <3>2. QED
        BY <2>3, <3>1
    <2>5. QED
      BY <1>3, <2>2, <2>3, <2>4, LenProperties
  <1>5. Len(frags') = K /\ \A i \in 1 .. K : frags'[i] = new[i]
    BY <1>1
  <1> HIDE DEF N, K
  <1>6. Handed = N /\ Handed' = N
    BY <1>3, <1>4, <1>5 DEF Handed, N
  <1>7. OutboxInv'
    <2>1. \A i \in 1 .. Len(taken') : ~taken'[i].eod
      <3>1. ASSUME NEW i \in 1 .. N + K
            PROVE  ~taken'[i].eod
        <4>1. CASE i \in 1 .. N
          BY <1>4, <4>1 DEF OutboxInv, N
        <4>2. CASE i \notin 1 .. N
          <5>1. i - N \in 1 .. K /\ N + (i - N) = i
            BY <1>3, <4>2
          <5>2. QED
            BY <1>1, <1>4, <5>1 DEF K
        <4>3. QED
          BY <4>1, <4>2
      <3>2. QED
        BY <1>4, <3>1
    <2>2. Len(frags') <= Len(taken')
      BY <1>3, <1>4, <1>5
    <2>3. \A i \in 1 .. Len(frags') : frags'[i] = taken'[Handed' + i]
      BY <1>4, <1>5, <1>6
    <2>4. Len(outbox') = 0
      BY <1>2, EmptySeq
    <2>5. QED
      BY <2>1, <2>2, <2>3, <2>4 DEF OutboxInv
  <1>8. \A d \in Dest : ~InOutbox(d) /\ ~InOutbox(d)'
    <2>1. DOMAIN outbox = {} /\ DOMAIN outbox' = {}
      BY <1>2
    <2>2. QED
      BY <2>1 DEF InOutbox
  <1>9. ASSUME NEW d \in Dest
        PROVE  \E at \in [DataIn(stream'[d]) -> DOMAIN taken'] : GivenAs(d, at)'
    <2>1. PICK at \in [DataIn(stream[d]) -> DOMAIN taken] : GivenAs(d, at)
      BY DEF GivenInv
    <2>2. at \in [DataIn(stream'[d]) -> DOMAIN taken'] /\ \A j \in DataIn(stream[d]) : at[j] \in 1 .. N
      BY <1>2, <1>3, <1>4, <2>1
    <2>3. GivenAs(d, at)'
      BY <1>2, <1>4, <1>6, <1>8, <2>1, <2>2 DEF GivenAs
    <2>4. QED
      BY <2>2, <2>3
  <1>10. QED
    BY <1>7, <1>9 DEF GivenInv

LEMMA ListsTooLarge ==
  ASSUME TypeOK, PhaseInv, OutboxInv, GivenInv, TooLarge
  PROVE  OutboxInv' /\ GivenInv'
  <1>1. /\ outbox = <<>> /\ outbox' = <<>> /\ stream' = stream /\ taken' = taken
        /\ frags' = <<>> /\ overlarge' = overlarge \cup ToSet(frags)
    BY DEF TooLarge, SendDone, sendVars, handleVars, mpiVars
  <1>2. Len(taken) \in Nat /\ Len(frags) \in Nat /\ Len(frags) <= Len(taken)
        /\ Len(frags') = 0 /\ Len(outbox') = 0 /\ DOMAIN taken = 1 .. Len(taken)
    BY <1>1, ListsType, EmptySeq DEF OutboxInv
  <1>3. Handed' = Len(taken) /\ Handed \in 0 .. Len(taken)
    BY <1>1, <1>2 DEF Handed
  <1>4. OutboxInv'
    BY <1>1, <1>2 DEF OutboxInv
  <1>5. \A d \in Dest : ~InOutbox(d) /\ ~InOutbox(d)'
    <2>1. DOMAIN outbox = {} /\ DOMAIN outbox' = {}
      BY <1>1
    <2>2. QED
      BY <2>1 DEF InOutbox
  <1>6. \A i \in 1 .. Len(taken) : i > Handed => taken[i] \in overlarge'
    <2>1. ASSUME NEW i \in 1 .. Len(taken), i > Handed
          PROVE  taken[i] \in overlarge'
      <3>1. i - Handed \in 1 .. Len(frags) /\ Handed + (i - Handed) = i
        BY <1>2, <2>1 DEF Handed
      <3>2. frags[i - Handed] = taken[i]
        BY <3>1 DEF OutboxInv
      <3>3. QED
        BY <1>1, <3>1, <3>2, ListsType
    <2>2. QED
      BY <2>1
  <1>7. ASSUME NEW d \in Dest
        PROVE  \E at \in [DataIn(stream'[d]) -> DOMAIN taken'] : GivenAs(d, at)'
    <2>1. PICK at \in [DataIn(stream[d]) -> DOMAIN taken] : GivenAs(d, at)
      BY DEF GivenInv
    <2>2. \A j \in DataIn(stream[d]) : at[j] \in 1 .. Len(taken)
      BY <1>2, <2>1
    <2>3. ASSUME NEW i \in 1 .. Handed', d \in Destinations(taken'[i])
          PROVE  (\E j \in DataIn(stream'[d]) : at[j] = i) \/ taken'[i] \in overlarge'
      <3>1. CASE i > Handed
        BY <1>1, <1>3, <1>6, <3>1
      <3>2. CASE ~(i > Handed)
        <4>1. i \in 1 .. Handed
          BY <1>2, <1>3, <3>2
        <4>2. QED
          BY <1>1, <1>5, <2>1, <2>3, <4>1 DEF GivenAs
      <3>3. QED
        BY <3>1, <3>2
    <2>4. GivenAs(d, at)'
      BY <1>1, <1>3, <1>5, <2>1, <2>2, <2>3 DEF GivenAs
    <2>5. QED
      BY <1>1, <2>1, <2>4
  <1>8. QED
    BY <1>4, <1>7 DEF GivenInv

LEMMA ListsSendHead ==
  ASSUME TypeOK, PhaseInv, OutboxInv, GivenInv, SendHead
  PROVE  OutboxInv' /\ GivenInv'
  <1> DEFINE N == Len(taken)
             K == Len(frags)
             f == Head(frags)
  <1>1. /\ outbox = <<>> /\ stream' = stream /\ taken' = taken /\ overlarge' = overlarge /\ frags' = Tail(frags)
        /\ ~Ending /\ ~Ending' /\ frags # <<>>
    BY DEF SendHead, SendDone, PhaseInv, Ending, sendFragment, mpiVars
  <1>2. /\ N \in Nat /\ K \in Nat /\ K >= 1 /\ K <= N /\ DOMAIN taken = 1 .. N
        /\ Len(frags') = K - 1 /\ (\A i \in 1 .. K - 1 : frags'[i] = frags[i + 1])
        /\ f = frags[1] /\ f \in Message
    <2>1. frags \in Seq(Message) /\ frags # <<>>
      BY <1>1, ListsType
    <2>2. /\ K >= 1 /\ Len(frags') = K - 1 /\ f = frags[1] /\ f \in Message
          /\ \A i \in 1 .. Len(Tail(frags)) : Tail(frags)[i] = frags[i + 1]
      BY <1>1, <2>1, HeadTailProperties, EmptySeq
    <2>3. QED
      BY <1>1, <2>2, ListsType DEF OutboxInv
  <1>3. /\ Len(outbox') \in Nat /\ DOMAIN outbox' = 1 .. Len(outbox')
        /\ \A i \in 1 .. Len(outbox') : outbox'[i].to \in Destinations(f) /\ outbox'[i].msg = f
        /\ \A d \in Destinations(f) : \E i \in 1 .. Len(outbox') : outbox'[i].to = d
        /\ \A i, j \in 1 .. Len(outbox') : outbox'[i].to = outbox'[j].to => i = j
    <2>1. SendTypeOK /\ sendFragment(f)
      BY DEF TypeOK, SendHead
    <2>2. QED
      BY <1>2, <2>1, FragmentIs, LenProperties
  <1> HIDE DEF N, K, f
  <1>4. Handed = N - K /\ Handed' = N - K + 1
    BY <1>1, <1>2 DEF Handed, N, K
  <1>5. taken[N - K + 1] = f /\ N - K + 1 \in 1 .. N /\ ~f.eod
    <2>1. N - K + 1 \in 1 .. N
      BY <1>2
    <2>2. frags[1] = taken[Handed + 1]
      BY <1>2 DEF OutboxInv, K
    <2>3. QED
      BY <1>2, <1>4, <2>1, <2>2 DEF OutboxInv, N
  <1>6. OutboxInv'
    <2>1. ASSUME NEW i \in 1 .. K - 1
          PROVE  frags'[i] = taken'[Handed' + i]
      <3>1. i + 1 \in 1 .. K /\ Handed + (i + 1) = Handed' + i
        BY <1>2, <1>4
      <3>2. QED
        BY <1>1, <1>2, <3>1 DEF OutboxInv, K
    <2>2. Len(frags') <= Len(taken') /\ \A i \in 1 .. Len(taken') : ~taken'[i].eod
      BY <1>1, <1>2 DEF OutboxInv, N
    <2>3. \A i \in 1 .. Len(outbox') : /\ Handed' >= 1 /\ ~outbox'[i].msg.eod
                                       /\ outbox'[i].msg = taken'[Handed']
                                       /\ outbox'[i].to \in Destinations(taken'[Handed'])
      BY <1>1, <1>2, <1>3, <1>4, <1>5
    <2>4. QED
      BY <1>2, <1>3, <2>1, <2>2, <2>3 DEF OutboxInv
  <1>7. \A d \in Dest : ~InOutbox(d) /\ (d \in Destinations(f) => InOutbox(d)')
    <2>1. DOMAIN outbox = {}
      BY <1>1
    <2>2. QED
      BY <1>1, <1>3, <2>1 DEF InOutbox
  <1>8. ASSUME NEW d \in Dest
        PROVE  \E at \in [DataIn(stream'[d]) -> DOMAIN taken'] : GivenAs(d, at)'
    <2>1. PICK at \in [DataIn(stream[d]) -> DOMAIN taken] : GivenAs(d, at)
      BY DEF GivenInv
    <2>2. \A j \in DataIn(stream[d]) : at[j] \in Nat /\ at[j] <= Handed
      BY <1>2, <2>1 DEF GivenAs
    <2>3. \A j \in DataIn(stream[d]) : at[j] <= Handed' /\ at[j] < Handed'
      BY <1>2, <1>4, <2>2
    <2>4. ASSUME NEW i \in 1 .. Handed', d \in Destinations(taken'[i])
          PROVE  \/ \E j \in DataIn(stream'[d]) : at[j] = i
                 \/ taken'[i] \in overlarge'
                 \/ i = Handed' /\ InOutbox(d)'
      <3>1. CASE i = Handed'
        BY <1>1, <1>4, <1>5, <1>7, <2>4, <3>1
      <3>2. CASE i # Handed'
        <4>1. i \in 1 .. Handed
          BY <1>2, <1>4, <3>2
        <4>2. QED
          BY <1>1, <1>7, <2>1, <2>4, <4>1 DEF GivenAs
      <3>3. QED
        BY <3>1, <3>2
    <2>5. GivenAs(d, at)'
      BY <1>1, <2>1, <2>3, <2>4 DEF GivenAs
    <2>6. QED
      BY <1>1, <2>1, <2>5
  <1>9. QED
    BY <1>6, <1>8 DEF GivenInv

\* An EOD is given to MPI.
LEMMA ListsEODGiven ==
  ASSUME TypeOK, CountInv, OutboxInv, GivenInv, Give, UNCHANGED <<cmdVars, threadVars, history>>, Ending
  PROVE  OutboxInv' /\ GivenInv'
  <1>0. SendTypeOK /\ stream \in [Dest -> Seq(Message)] /\ outbox # <<>> /\ Len(outbox) \in Nat /\ Len(outbox) >= 1
    <2>1. SendTypeOK /\ outbox # <<>> /\ stream \in [Dest -> Seq(Message)]
      BY DEF TypeOK, SendTypeOK, Give, TestBuffer
    <2>2. QED
      BY <2>1, EntryType, EmptySeq
  <1>1. PICK d \in Dest, m \in Message :
          m = outbox[1].msg /\ stream' = [stream EXCEPT ![d] = Append(stream[d], m)]
    BY <1>0, GiveIs
  <1>2. m.eod
    <2>1. \A i \in 1 .. Len(outbox) : outbox[i].msg = EODFrag(sent_frag_count[outbox[i].to])
      BY DEF CountInv
    <2>2. 1 \in 1 .. Len(outbox)
      BY <1>0
    <2>3. m = EODFrag(sent_frag_count[outbox[1].to])
      BY <1>1, <2>1, <2>2
    <2>4. QED
      BY <2>3 DEF EODFrag
  <1>3. UNCHANGED <<taken, frags, overlarge>> /\ Ending' /\ Handed' = Handed
    BY DEF Ending, cmdVars, threadVars, history, Handed
  <1>4. \A e \in Dest : ~InOutbox(e) /\ ~InOutbox(e)'
    BY <1>3 DEF InOutbox
  <1>5. \A e \in Dest : /\ DataIn(stream'[e]) = DataIn(stream[e])
                        /\ \A j \in DataIn(stream[e]) : stream'[e][j] = stream[e][j]
    <2>1. stream'[d] = Append(stream[d], m) /\ \A e \in Dest \ {d} : stream'[e] = stream[e]
      BY <1>0, <1>1
    <2>2. DataIn(Append(stream[d], m)) = DataIn(stream[d])
          /\ \A j \in DataIn(stream[d]) : Append(stream[d], m)[j] = stream[d][j]
      BY <1>0, <1>2, DataInAppend
    <2>3. QED
      BY <2>1, <2>2
  <1>6. OutboxInv'
    BY <1>3 DEF OutboxInv
  <1>7. ASSUME NEW e \in Dest
        PROVE  \E at \in [DataIn(stream'[e]) -> DOMAIN taken'] : GivenAs(e, at)'
    <2>1. PICK at \in [DataIn(stream[e]) -> DOMAIN taken] : GivenAs(e, at)
      BY DEF GivenInv
    <2>2. GivenAs(e, at)'
      BY <1>3, <1>4, <1>5, <2>1 DEF GivenAs
    <2>3. QED
      BY <1>3, <1>5, <2>1, <2>2
  <1>8. QED
    BY <1>6, <1>7 DEF GivenInv

\* A fragment is given to MPI.
LEMMA ListsFragmentGiven ==
  ASSUME TypeOK, OutboxInv, GivenInv, Give, UNCHANGED <<cmdVars, threadVars, history>>, ~Ending
  PROVE  OutboxInv' /\ GivenInv'
  <1> DEFINE L == Len(outbox)
  <1>0. /\ SendTypeOK /\ stream \in [Dest -> Seq(Message)] /\ outbox # <<>>
        /\ L \in Nat /\ L >= 1 /\ DOMAIN outbox = 1 .. L
    <2>1. SendTypeOK /\ outbox # <<>> /\ stream \in [Dest -> Seq(Message)]
      BY DEF TypeOK, SendTypeOK, Give, TestBuffer
    <2>2. QED
      BY <2>1, EntryType, EmptySeq
  <1>1. PICK d \in Dest, m \in Message :
          /\ d = outbox[1].to /\ m = outbox[1].msg
          /\ outbox' \in Seq(Entry) /\ Len(outbox') = L - 1
          /\ \A i \in 1 .. Len(outbox') : outbox'[i] = outbox[i + 1]
          /\ stream' = [stream EXCEPT ![d] = Append(stream[d], m)]
    BY <1>0, GiveIs
  <1>2. UNCHANGED <<taken, frags, overlarge>> /\ ~Ending' /\ Handed' = Handed
    BY DEF Ending, cmdVars, threadVars, history, Handed
  <1>3. /\ \A i \in 1 .. L : /\ Handed >= 1 /\ ~outbox[i].msg.eod
                             /\ outbox[i].msg = taken[Handed]
                             /\ outbox[i].to \in Destinations(taken[Handed])
        /\ \A i, j \in 1 .. L : outbox[i].to = outbox[j].to => i = j
    BY DEF OutboxInv
  <1>4. m = taken[Handed] /\ ~m.eod /\ Handed \in 1 .. Len(taken) /\ DOMAIN taken = 1 .. Len(taken)
    <2>1. m = taken[Handed] /\ ~m.eod /\ Handed >= 1
      BY <1>0, <1>1, <1>3
    <2>2. QED
      BY <2>1, ListsType DEF Handed
  <1>5. DOMAIN outbox' = 1 .. L - 1 /\ \A i \in 1 .. L - 1 : i + 1 \in 1 .. L /\ outbox'[i] = outbox[i + 1]
    BY <1>0, <1>1, LenProperties
  <1> HIDE DEF L
  <1>6. OutboxInv'
    <2>1. \A i \in 1 .. L - 1 : /\ Handed' >= 1 /\ ~outbox'[i].msg.eod
                                /\ outbox'[i].msg = taken'[Handed']
                                /\ outbox'[i].to \in Destinations(taken'[Handed'])
      BY <1>2, <1>3, <1>5
    <2>2. ASSUME NEW i \in 1 .. L - 1, NEW j \in 1 .. L - 1, outbox'[i].to = outbox'[j].to
          PROVE  i = j
      <3>1. i + 1 = j + 1
        BY <1>3, <1>5, <2>2
      <3>2. QED
        BY <1>0, <3>1
    <2>3. QED
      BY <1>1, <1>2, <2>1, <2>2 DEF OutboxInv, L
  <1>7. InOutbox(d) /\ ~InOutbox(d)'
    <2>1. InOutbox(d)
      BY <1>0, <1>1 DEF InOutbox
    <2>2. ASSUME NEW i \in 1 .. L - 1, outbox'[i].to = d
          PROVE  FALSE
      <3>1. i + 1 = 1
        BY <1>0, <1>1, <1>3, <1>5, <2>2
      <3>2. QED
        BY <1>0, <3>1
    <2>3. QED
      BY <1>5, <2>1, <2>2 DEF InOutbox
  <1>8. \A e \in Dest \ {d} : InOutbox(e)' <=> InOutbox(e)
    <2>1. ASSUME NEW e \in Dest \ {d}, NEW i \in 1 .. L, outbox[i].to = e
          PROVE  \E j \in 1 .. L - 1 : outbox'[j].to = e
      <3>1. i # 1
        BY <1>1, <2>1
      <3>2. i - 1 \in 1 .. L - 1 /\ (i - 1) + 1 = i
        BY <1>0, <3>1
      <3>3. QED
        BY <1>5, <2>1, <3>2
    <2>2. QED
      BY <1>0, <1>2, <1>5, <2>1 DEF InOutbox
  <1>9. stream'[d] = Append(stream[d], m) /\ \A e \in Dest \ {d} : stream'[e] = stream[e]
    BY <1>0, <1>1
  <1>10. ASSUME NEW e \in Dest \ {d}
         PROVE  \E at \in [DataIn(stream'[e]) -> DOMAIN taken'] : GivenAs(e, at)'
    <2>1. PICK at \in [DataIn(stream[e]) -> DOMAIN taken] : GivenAs(e, at)
      BY DEF GivenInv
    <2>2. GivenAs(e, at)'
      BY <1>2, <1>8, <1>9, <2>1 DEF GivenAs
    <2>3. QED
      BY <1>2, <1>9, <2>1, <2>2
  <1>11. \E at \in [DataIn(stream'[d]) -> DOMAIN taken'] : GivenAs(d, at)'
    <2>1. PICK at \in [DataIn(stream[d]) -> DOMAIN taken] : GivenAs(d, at)
      BY DEF GivenInv
    <2> DEFINE n == Len(stream[d]) + 1
               old == DataIn(stream[d])
               new == DataIn(stream'[d])
    <2>2. /\ new = old \cup {n} /\ old \subseteq 1 .. n - 1 /\ n \in Nat
          /\ \A j \in old : stream'[d][j] = stream[d][j]
          /\ stream'[d][n] = m
      <3>1. stream[d] \in Seq(Message)
        BY <1>0
      <3>2. /\ old \subseteq 1 .. Len(stream[d]) /\ Len(stream[d]) \in Nat
            /\ \A j \in old : Append(stream[d], m)[j] = stream[d][j]
            /\ DataIn(Append(stream[d], m)) = old \cup {Len(stream[d]) + 1}
        BY <1>4, <3>1, DataInAppend
      <3>3. Append(stream[d], m)[Len(stream[d]) + 1] = m
        BY <3>1, AppendMessage
      <3>4. QED
        BY <1>9, <3>2, <3>3
    <2>3. at \in [old -> 1 .. Len(taken)] /\ \A j \in old : at[j] \in Nat /\ at[j] < Handed /\ taken[at[j]] = stream[d][j]
      BY <1>4, <1>7, <2>1 DEF GivenAs
    <2>4. \A j, k \in old : j < k => at[j] < at[k]
      BY <2>1 DEF GivenAs
    <2> HIDE DEF n, old, new
    <2>5. n \in new /\ \A j \in old : j \in new /\ j # n /\ j < n
      <3>1. \A j \in old : j \in 1 .. n - 1
        BY <2>2
      <3>2. QED
        BY <2>2, <3>1
    <2>6. PICK bt \in [new -> 1 .. Len(taken)] : bt[n] = Handed /\ \A j \in old : bt[j] = at[j]
      <3> DEFINE ct == [j \in new |-> IF j = n THEN Handed ELSE at[j]]
      <3>1. ct \in [new -> 1 .. Len(taken)]
        BY <1>4, <2>2, <2>3
      <3>2. ct[n] = Handed /\ \A j \in old : ct[j] = at[j]
        BY <2>5
      <3> HIDE DEF ct
      <3>3. QED
        BY <3>1, <3>2
    <2>7. \A j \in new : bt[j] <= Handed /\ taken[bt[j]] = stream'[d][j]
      <3>1. Handed \in Nat
        BY <1>4
      <3>2. \A j \in old : bt[j] <= Handed /\ taken[bt[j]] = stream'[d][j]
        BY <2>2, <2>3, <2>5, <2>6, <3>1
      <3>3. bt[n] <= Handed /\ taken[bt[n]] = stream'[d][n]
        BY <1>4, <2>2, <2>5, <2>6, <3>1
      <3>4. QED
        BY <2>2, <3>2, <3>3
    <2>8. ASSUME NEW j \in new, NEW k \in new, j < k
          PROVE  bt[j] < bt[k]
      <3>1. j # n
        BY <2>2, <2>5, <2>8
      <3>2. j \in old
        BY <2>2, <3>1
      <3>3. CASE k = n
        BY <2>3, <2>5, <2>6, <3>2, <3>3
      <3>4. CASE k \in old
        BY <2>4, <2>5, <2>6, <2>8, <3>2, <3>4
      <3>5. QED
        BY <2>2, <3>3, <3>4
    <2>9. ASSUME NEW i \in 1 .. Handed, d \in Destinations(taken[i])
          PROVE  (\E j \in new : bt[j] = i) \/ taken[i] \in overlarge
      <3>1. CASE i = Handed
        BY <2>5, <2>6, <3>1
      <3>2. CASE i # Handed
        <4>1. (\E j \in old : at[j] = i) \/ taken[i] \in overlarge
          BY <2>1, <2>9, <3>2 DEF GivenAs, old
        <4>2. QED
          BY <2>5, <2>6, <4>1
      <3>3. QED
        BY <3>1, <3>2
    <2>10. GivenAs(d, bt)'
      BY <1>2, <1>7, <2>7, <2>8, <2>9 DEF GivenAs, new
    <2>11. bt \in [DataIn(stream'[d]) -> DOMAIN taken']
      BY <1>2, <1>4, <2>6 DEF new
    <2>12. QED
      BY <2>10, <2>11
  <1>12. GivenInv'
    <2>1. ASSUME NEW e \in Dest
          PROVE  \E at \in [DataIn(stream'[e]) -> DOMAIN taken'] : GivenAs(e, at)'
      BY <1>10, <1>11
    <2>2. QED
      BY <2>1 DEF GivenInv
  <1>13. QED
    BY <1>6, <1>12

LEMMA ListStep ==
  ASSUME TypeOK, PhaseInv, CountInv, OutboxInv, GivenInv, [Next]_vars
  PROVE  OutboxInv' /\ GivenInv'
  <1>1. CASE SendHead
    BY <1>1, ListsSendHead
  <1>2. CASE Took
    BY <1>2, ListsTook
  <1>3. CASE TooLarge
    BY <1>3, ListsTooLarge
  <1>4. CASE Within
    <2>1. UNCHANGED <<cmdVars, threadVars, history>>
      BY <1>4 DEF Within
    <2>2. CASE Give
      BY <2>1, <2>2, ListsEODGiven, ListsFragmentGiven
    <2>3. CASE SendReturns \/ (TestBuffer /\ ~Available(pos)) \/ Transfer
      <3>1. UNCHANGED <<outbox, stream>>
        BY <2>3 DEF SendReturns, TestBuffer, Transfer, handleVars, mpiVars
      <3>2. UNCHANGED <<frags, taken, overlarge>> /\ (Ending' <=> Ending)
        BY <2>1 DEF Ending, cmdVars, threadVars, history
      <3>3. QED
        BY <3>1, <3>2, ListsKept
    <2>4. QED
      BY <1>4, <2>2, <2>3 DEF Within, Give
  <1>5. CASE (Quiet \/ New \/ Close) /\ UNCHANGED <<frags, taken, overlarge>>
    <2>1. CASE Quiet
      <3>1. UNCHANGED <<outbox, stream>>
        BY <2>1 DEF Quiet, sendVars, handleVars, mpiVars
      <3>2. (Ending' <=> Ending) \/ outbox = <<>>
        BY <2>1 DEF Quiet, SendDone
      <3>3. QED
        BY <1>5, <3>1, <3>2, ListsKept
    <2>2. CASE New
      <3>1. UNCHANGED stream /\ outbox = <<>> /\ outbox' = <<>>
        BY <2>2 DEF New, NewSHandles, SendDone, mpiVars
      <3>2. QED
        BY <1>5, <3>1, ListsKept
    <2>3. CASE Close
      <3>1. UNCHANGED stream /\ outbox = <<>> /\ Ending'
        BY <2>3 DEF Close, sendEODFrags, SendDone, mpiVars, Ending
      <3>2. QED
        BY <1>5, <3>1, ListsKept
    <2>4. QED
      BY <1>5, <2>1, <2>2, <2>3
  <1>6. QED
    BY <1>1, <1>2, <1>3, <1>4, <1>5, SendSteps, ListSteps

-----------------------------------------------------------------------------
(* The theorems.                                                           *)

LEMMA InitialState ==
  ASSUME Init
  PROVE  IInv
  <1>1. /\ outbox = <<>> /\ blocking = NoRequest /\ inflight = {}
        /\ stream = [d \in Dest |-> <<>>] /\ carried = [d \in Dest |-> <<>>]
        /\ pos = 0 /\ payload = [b \in Buffer |-> NoMessage] /\ sent_frag_count = [d \in Dest |-> 0]
        /\ synchronous_sends \in BOOLEAN
        /\ state = "Ready" /\ cmd = "idle" /\ run = 0 /\ session = 0 /\ pc = "none" /\ sender = FALSE
        /\ frags = <<>> /\ taken = <<>> /\ overlarge = {}
    BY DEF Init, SHandlesInit, Fresh
  <1>2. /\ Len(frags) = 0 /\ Len(taken) = 0 /\ Len(outbox) = 0
        /\ DOMAIN outbox = {} /\ DOMAIN taken = {}
    BY <1>1
  <1>3. ASSUME NEW d \in Dest
        PROVE  stream[d] = <<>> /\ carried[d] = <<>> /\ Len(stream[d]) = 0 /\ Len(carried[d]) = 0
               /\ DataIn(stream[d]) = {} /\ EODs(stream[d]) = {}
    <2>1. stream[d] = <<>> /\ carried[d] = <<>>
      BY <1>1
    <2>2. DOMAIN stream[d] = {}
      BY <2>1
    <2>3. QED
      BY <2>1, <2>2 DEF DataIn, EODs
  <1>4. ~Ending /\ SendDone /\ Due = 0 /\ Handed = 0
    <2>1. ~Ending /\ SendDone
      BY <1>1 DEF Ending, SendDone
    <2>2. ~sender /\ pc \notin {"begin", "old_eod"} /\ session = 0
      BY <1>1
    <2>3. Due = 0
      <3>1. Due = (0 - 0) - 0
        BY <2>2, Zenon DEF Due
      <3>2. QED
        BY <3>1
    <2>4. QED
      BY <1>2, <2>1, <2>3 DEF Handed
  <1>5. TypeOK
    <2>1. SendTypeOK
      <3>1. NoRequest \in Request
        BY ConstantsAre DEF NoRequest, Request
      <3>2. payload \in [Buffer -> Message] /\ pos \in Buffer
        BY <1>1, ConstantsAre
      <3>3. stream \in [Dest -> Seq(Message)] /\ carried \in [Dest -> Seq(Message)]
            /\ outbox \in Seq([to : Dest, msg : Message])
        BY <1>1
      <3>4. QED
        BY <1>1, <3>1, <3>2, <3>3 DEF SendTypeOK
    <2>2. GeneratorType
      BY DEF Init, GeneratorType
    <2>3. ThreadType /\ DataType
      <3>1. state \in {"Ready", "Running", "Paused", "InRun"} /\ run \in Nat /\ session \in 0 .. MaxSession
            /\ cmd \in {"idle", "stop", "pause", "stop_join", "pause_join", "init"}
        BY <1>1, BoardReaderAssumption
      <3>2. pc \in {"none", "begin", "old_eod", "next", "send", "eod", "ended", "threw"} /\ sender \in BOOLEAN
        BY <1>1
      <3>3. frags \in Seq(Message) /\ taken \in Seq(Message) /\ overlarge \subseteq Message
        BY <1>1
      <3>4. QED
        BY <3>1, <3>2, <3>3 DEF ThreadType, DataType
    <2>4. QED
      BY <2>1, <2>2, <2>3, TypeParts
  <1>6. PhaseInv
    BY <1>1, <1>4 DEF PhaseInv
  <1>7. MPIInv /\ CarriedAsGiven
    BY <1>1, <1>3 DEF MPIInv, CarriedAsGiven
  <1>8. CountInv
    BY <1>1, <1>3, <1>4 DEF CountInv, Counting, LastEOD
  <1>9. AnnouncedInv
    BY <1>3 DEF AnnouncedInv
  <1>10. SessionInv
    <2>1. ASSUME NEW d \in Dest
          PROVE  Cardinality(EODs(stream[d])) + (IF Waiting(d) THEN 1 ELSE 0) = Due
      <3>1. Cardinality(EODs(stream[d])) = 0 /\ ~Waiting(d)
        BY <1>3, <1>4, FS_EmptySet DEF Waiting
      <3>2. QED
        BY <1>4, <3>1
    <2>2. QED
      BY <2>1 DEF SessionInv
  <1>11. OutboxInv
    BY <1>2 DEF OutboxInv
  <1>12. GivenInv
    <2>1. ASSUME NEW d \in Dest
          PROVE  \E at \in [DataIn(stream[d]) -> DOMAIN taken] : GivenAs(d, at)
      <3>1. PICK at \in [DataIn(stream[d]) -> DOMAIN taken] : TRUE
        <4>1. [j \in {} |-> 0] \in [DataIn(stream[d]) -> DOMAIN taken]
          BY <1>3
        <4>2. QED
          BY <4>1
      <3>2. GivenAs(d, at)
        BY <1>3, <1>4 DEF GivenAs
      <3>3. QED
        BY <3>2
    <2>2. QED
      BY <2>1 DEF GivenInv
  <1>13. QED
    BY <1>5, <1>6, <1>7, <1>8, <1>9, <1>10, <1>11, <1>12 DEF IInv

LEMMA InductiveStep ==
  ASSUME IInv, [Next]_vars
  PROVE  IInv'
  <1>1. TypeOK /\ PhaseInv /\ MPIInv /\ CarriedAsGiven /\ CountInv /\ AnnouncedInv /\ SessionInv
        /\ OutboxInv /\ GivenInv
    BY DEF IInv
  <1>2. TypeOK'
    BY <1>1, TypeStep
  <1>3. PhaseInv'
    BY <1>1, PhaseStep
  <1>4. MPIInv' /\ CarriedAsGiven'
    BY <1>1, CarriedStep
  <1>5. CountInv' /\ AnnouncedInv' /\ SessionInv'
    BY <1>1, CountStep
  <1>6. OutboxInv' /\ GivenInv'
    BY <1>1, ListStep
  <1>7. QED
    BY <1>2, <1>3, <1>4, <1>5, <1>6 DEF IInv

\* The inductive invariant of the board reader: where the two threads are, which
\* buffers MPI still reads, what has been counted since the last EOD, and which of the
\* fragments taken were given to MPI.
THEOREM Inductive == Spec => []IInv
  <1>1. Init => IInv
    BY InitialState
  <1>2. IInv /\ [Next]_vars => IInv'
    BY InductiveStep
  <1>3. QED
    BY <1>1, <1>2, PTL DEF Spec

\* Every variable of BoardReader and SHandles keeps its type.
THEOREM TypeCorrect == Spec => []TypeOK
  <1>1. IInv => TypeOK
    BY DEF IInv
  <1>2. QED
    BY <1>1, Inductive, PTL

LEMMA LastIsMax ==
  ASSUME NEW S \in SUBSET Nat, NEW k \in S, \A y \in S : k >= y
  PROVE  Max(S) = k
  <1>1. \E x \in S : \A y \in S : x >= y
    OBVIOUS
  <1>2. Max(S) \in S /\ \A y \in S : Max(S) >= y
    BY <1>1, Zenon DEF Max
  <1>3. Max(S) >= k /\ k >= Max(S)
    BY <1>2
  <1> DEFINE m == Max(S)
  <1>4. m \in Nat /\ k \in Nat /\ m >= k /\ k >= m
    BY <1>2, <1>3
  <1> HIDE DEF m
  <1>5. m = k
    BY <1>4
  <1>6. QED
    BY <1>5 DEF m

\* The number in an EOD is that of the fragments its destination was given since the
\* EOD before, although the counts are kept by SHandles, which is destroyed and made
\* anew, and each is increased before or after MPI_Send according to the mode.
THEOREM AnnouncesItsData == Spec => []EODAnnouncesItsData
  <1>1. IInv => EODAnnouncesItsData
    <2>1. SUFFICES ASSUME IInv, NEW d \in Dest, NEW i \in 1 .. Len(stream[d]), stream[d][i].eod
                   PROVE  stream[d][i].n = i - 1 - Max({0} \cup {j \in 1 .. i - 1 : stream[d][j].eod})
      BY DEF EODAnnouncesItsData
    <2>2. Announces(stream[d], i)
      BY <2>1 DEF IInv, AnnouncedInv
    <2>3. PICK k \in 0 .. i - 1 : /\ k = 0 \/ stream[d][k].eod
                                  /\ \A j \in k + 1 .. i - 1 : ~stream[d][j].eod
                                  /\ stream[d][i].n = i - 1 - k
      BY <2>2 DEF Announces
    <2> DEFINE S == {0} \cup {j \in 1 .. i - 1 : stream[d][j].eod}
    <2>4. i \in Nat /\ S \subseteq Nat
      BY DEF IInv, TypeOK, SendTypeOK
    <2>5. k \in S
      BY <2>3, <2>4
    <2>6. \A y \in S : k >= y
      BY <2>3, <2>4
    <2> HIDE DEF S
    <2>7. Max(S) = k
      BY <2>4, <2>5, <2>6, LastIsMax
    <2>8. QED
      BY <2>3, <2>7 DEF S
  <1>2. QED
    BY <1>1, Inductive, PTL

\* Every fragment from a generator is given to its destinations once and in order, or
\* waits, or comes in one vector with a fragment that is too large.
THEOREM SendsEveryFragment == Spec => []EveryFragmentSent
  <1>1. IInv => EveryFragmentSent
    <2>1. SUFFICES ASSUME IInv, NEW d \in Dest
                   PROVE  \E at \in [DataIn(stream[d]) -> DOMAIN taken] :
                            /\ \A j \in DataIn(stream[d]) : taken[at[j]] = stream[d][j]
                            /\ \A j, k \in DataIn(stream[d]) : j < k => at[j] < at[k]
                            /\ \A i \in DOMAIN taken : d \in Destinations(taken[i]) =>
                                 \/ \E j \in DataIn(stream[d]) : at[j] = i
                                 \/ taken[i] \in overlarge \cup ToSet(frags)
                                 \/ [to |-> d, msg |-> taken[i]] \in ToSet(outbox)
      BY DEF EveryFragmentSent
    <2>2. TypeOK /\ SendTypeOK /\ OutboxInv
      BY <2>1 DEF IInv, TypeOK
    <2>3. PICK at \in [DataIn(stream[d]) -> DOMAIN taken] : GivenAs(d, at)
      BY <2>1 DEF IInv, GivenInv
    <2>4. ASSUME NEW i \in DOMAIN taken, d \in Destinations(taken[i])
          PROVE  \/ \E j \in DataIn(stream[d]) : at[j] = i
                 \/ taken[i] \in overlarge \cup ToSet(frags)
                 \/ [to |-> d, msg |-> taken[i]] \in ToSet(outbox)
      <3>1. /\ i \in 1 .. Len(taken) /\ Len(taken) \in Nat /\ Len(frags) \in Nat
            /\ \A j \in 1 .. Len(frags) : frags[j] \in ToSet(frags)
        BY <2>2, ListsType
      <3>2. CASE i > Handed
        <4>1. i - Handed \in 1 .. Len(frags) /\ Handed + (i - Handed) = i
          BY <3>1, <3>2 DEF Handed
        <4>2. frags[i - Handed] = taken[i]
          BY <2>2, <4>1 DEF OutboxInv
        <4>3. QED
          BY <3>1, <4>1, <4>2
      <3>3. CASE i <= Handed /\ ~(i = Handed /\ InOutbox(d))
        <4>1. i \in 1 .. Handed
          BY <3>1, <3>3 DEF Handed
        <4>2. QED
          BY <2>3, <2>4, <3>3, <4>1 DEF GivenAs
      <3>4. CASE i = Handed /\ InOutbox(d)
        <4>1. PICK j \in DOMAIN outbox : outbox[j].to = d /\ ~Ending
          BY <3>4 DEF InOutbox
        <4>2. j \in 1 .. Len(outbox) /\ outbox[j] \in Entry
          BY <2>2, <4>1, EntryType
        <4>3. outbox[j].msg = taken[i]
          BY <2>2, <3>4, <4>1, <4>2 DEF OutboxInv
        <4>4. outbox[j] = [to |-> d, msg |-> taken[i]]
          BY <4>1, <4>2, <4>3 DEF Entry
        <4>5. outbox[j] \in ToSet(outbox)
          BY <4>1 DEF ToSet
        <4>6. QED
          BY <4>4, <4>5
      <3>5. QED
        BY <3>1, <3>2, <3>3, <3>4 DEF Handed
    <2>5. /\ \A j \in DataIn(stream[d]) : taken[at[j]] = stream[d][j]
          /\ \A j, k \in DataIn(stream[d]) : j < k => at[j] < at[k]
      BY <2>3 DEF GivenAs
    <2>6. QED
      BY <2>4, <2>5
  <1>2. QED
    BY <1>1, Inductive, PTL

\* MPI reads each message as it was given to it: no buffer is used again before.
THEOREM CarriesAsGiven == Spec => []CarriedAsGiven
  <1>1. IInv => CarriedAsGiven
    BY DEF IInv
  <1>2. QED
    BY <1>1, Inductive, PTL

\* Between two commands, when no thread is left, every destination has had exactly one
\* EOD per session, but for that of a session whose thread threw.
THEOREM ClosesSessions == Spec => []SessionsClosed
  <1>1. IInv => SessionsClosed
    <2>1. SUFFICES ASSUME IInv, pc = "none", cmd = "idle"
                   PROVE  /\ \A d \in Dest :
                               Cardinality(EODs(stream[d])) = session - (IF sender THEN 1 ELSE 0)
                          /\ sender \/ inflight = {}
      BY DEF SessionsClosed
    <2>2. TypeOK /\ SessionInv /\ PhaseInv /\ sender \in BOOLEAN /\ session \in Nat
      BY <2>1, BoardReaderAssumption DEF IInv, TypeOK
    <2>3. ~Ending /\ Due = session - (IF sender THEN 1 ELSE 0)
      BY <2>1, <2>2 DEF Ending, Due
    <2>4. ASSUME NEW d \in Dest
          PROVE  Cardinality(EODs(stream[d])) = session - (IF sender THEN 1 ELSE 0)
      <3>1. Cardinality(EODs(stream[d])) + 0 = Due
        BY <2>2, <2>3 DEF SessionInv, Waiting
      <3>2. stream[d] \in Seq(Message)
        BY <2>2 DEF TypeOK, SendTypeOK
      <3>3. Cardinality(EODs(stream[d])) \in Nat
        BY <3>2, ConstantsAre, EODsAppend
      <3>4. QED
        BY <2>3, <3>1, <3>3
    <2>5. sender \/ inflight = {}
      BY <2>2 DEF PhaseInv
    <2>6. QED
      BY <2>4, <2>5
  <1>2. QED
    BY <1>1, Inductive, PTL
=============================================================================
