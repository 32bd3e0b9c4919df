--------------------------- MODULE RHandlesProofs ---------------------------
(***************************************************************************)
(* Proofs about the receiver, for every number of sources, buffers and     *)
(* fragments.                                                              *)
(***************************************************************************)
EXTENDS RHandles, FiniteSetTheorems, TLAPS

-----------------------------------------------------------------------------
(* The inductive invariant, by parts.                                      *)

\* A buffer holds a message exactly when its receive was matched and not yet
\* returned; it has no source exactly when it has neither receive nor message.
BufferInv ==
  phase \in {"open", "repost"} =>
    \A b \in Buffer :
      /\ content[b] # 0 <=> reqs[b] \in {"matched", "complete"} \/ b \in ready
      /\ b \in ready => reqs[b] = "null"
      /\ req_sources[b] = MPI_ANY_SOURCE <=> reqs[b] = "null" /\ b \notin ready

\* Messages are matched after they are sent, and the messages in the buffers are
\* distinct, matched and not delivered.
HeldInv ==
  /\ \A s \in Source : matched[s] <= issued[s]
  /\ \A s \in Source : delivered[s] \subseteq 1 .. matched[s]
  /\ \A b \in Buffer : content[b] # 0 =>
       /\ req_sources[b] \in Source
       /\ content[b] <= matched[req_sources[b]]
       /\ content[b] \notin delivered[req_sources[b]]
  /\ \A b, c \in Buffer :
       b # c /\ content[b] # 0 /\ content[b] = content[c] => req_sources[b] # req_sources[c]

\* The data fragments among the delivered messages of s.
DataDelivered(s) == IF ended[s] THEN delivered[s] \ {issued[s]} ELSE delivered[s]

\* recv_frag_count counts them; PENDING and DONE tell that the EOD was delivered,
\* and expected_count is then the number of fragments the source sent.
CountInv ==
  \A s \in Source :
    /\ recv_frag_count[s] = Cardinality(DataDelivered(s))
    /\ ~ended[s] => issued[s] <= MaxFragments
    /\ ended[s] => issued[s] >= 1
    /\ src_status[s] # "SENDING" =>
         ended[s] /\ issued[s] \in delivered[s] /\ expected_count[s] = issued[s] - 1
    /\ src_status[s] = "SENDING" => ~(ended[s] /\ issued[s] \in delivered[s])
    /\ src_status[s] = "DONE" => recv_frag_count[s] = expected_count[s]
    /\ src_status[s] = "PENDING" => recv_frag_count[s] # expected_count[s]

\* The source posted last is active as long as any source is, and has a buffer:
\* this is what makes it safe for nextSource_() to skip it.
LastPostedInv ==
  anySourceActive =>
    /\ src_status[last_source_posted] # "DONE"
    /\ \E b \in Buffer : req_sources[b] = last_source_posted

RepostInv ==
  /\ phase = "repost" => src_status[doneSrc] = "DONE"
  /\ phase # "extra_fragments"
  /\ ~ForcedExit => phase # "err_request"

IInv == TypeOK /\ BufferInv /\ HeldInv /\ CountInv /\ LastPostedInv /\ RepostInv

-----------------------------------------------------------------------------
(* Lemmas.                                                                 *)

\* A remainder is a source index.
LEMMA ModSource == \A n \in Int : n % SrcCount \in Source
  BY RHandlesAssumption DEF Source

\* There is a buffer.
LEMMA BufferCountPositive == BufferCount \in Nat /\ BufferCount >= 1 /\ 0 \in Buffer
  BY RHandlesAssumption DEF Buffer

\* MPI_ANY_SOURCE is no source index.
LEMMA SourceIsNotAny == \A s \in Source : s \in Nat /\ s # MPI_ANY_SOURCE
  BY RHandlesAssumption DEF Source, MPI_ANY_SOURCE

\* A subset of 1..n of n elements is 1..n.
LEMMA FullInterval ==
  ASSUME NEW n \in Nat, NEW S \in SUBSET (1 .. n), Cardinality(S) = n
  PROVE  S = 1 .. n
  <1>1. IsFiniteSet(1 .. n) /\ Cardinality(1 .. n) = n
    BY FS_Interval, 1 \in Int, n \in Int, 1 <= n + 1
  <1>2. QED
    BY <1>1, FS_Subset

\* A finite set of naturals in an interval has a natural cardinality.
LEMMA SubIntervalFinite ==
  ASSUME NEW n \in Nat, NEW S \in SUBSET (1 .. n)
  PROVE  IsFiniteSet(S) /\ Cardinality(S) \in Nat
  <1>1. IsFiniteSet(1 .. n)
    BY FS_Interval, 1 \in Int, n \in Int
  <1>2. QED
    BY <1>1, FS_Subset, FS_CardinalityType

\* A source is declared DONE only when all its messages were delivered.
LEMMA DoneComplete == IInv => DoneMeansAllDelivered
  <1>1. SUFFICES ASSUME IInv, NEW s \in Source, src_status[s] = "DONE"
                 PROVE  ended[s] /\ delivered[s] = 1 .. issued[s] /\ matched[s] = issued[s]
    BY DEF DoneMeansAllDelivered
  <1> DEFINE n == issued[s] - 1
             D == delivered[s] \ {issued[s]}
  <1>2. ended[s] /\ issued[s] \in delivered[s] /\ Cardinality(D) = n
    BY <1>1 DEF IInv, CountInv, DataDelivered
  <1>3. issued[s] \in Nat /\ n \in Nat /\ matched[s] \in Nat /\ matched[s] <= issued[s]
    BY <1>1, <1>2, RHandlesAssumption DEF IInv, CountInv, HeldInv, TypeOK
  <1>4. D \in SUBSET (1 .. n)
    BY <1>1, <1>3 DEF IInv, HeldInv
  <1>5. D = 1 .. n
    BY <1>2, <1>3, <1>4, FullInterval
  <1>6. issued[s] \in 1 .. matched[s]
    BY <1>1, <1>2 DEF IInv, HeldInv
  <1>7. 1 .. issued[s] = (1 .. n) \cup {issued[s]}
    BY <1>3, <1>6
  <1>8. delivered[s] = D \cup {issued[s]}
    BY <1>2
  <1>9. delivered[s] = 1 .. issued[s]
    BY <1>5, <1>7, <1>8
  <1>10. QED
    BY <1>2, <1>3, <1>6, <1>9

\* The message a buffer holds was sent and not delivered, so its source is active.
LEMMA HeldIsActive ==
  ASSUME IInv, NEW b \in Buffer, content[b] # 0
  PROVE  /\ req_sources[b] \in Source
         /\ content[b] \in 1 .. issued[req_sources[b]]
         /\ content[b] \notin delivered[req_sources[b]]
         /\ src_status[req_sources[b]] # "DONE"
  <1> DEFINE s == req_sources[b]
  <1>1. s \in Source /\ content[b] <= matched[s] /\ content[b] \notin delivered[s]
    BY DEF IInv, HeldInv
  <1>2. matched[s] \in Nat /\ issued[s] \in Nat /\ content[b] \in Nat /\ matched[s] <= issued[s]
    BY <1>1, RHandlesAssumption DEF IInv, HeldInv, TypeOK
  <1>3. content[b] \in 1 .. issued[s]
    BY <1>1, <1>2
  <1>4. src_status[s] # "DONE"
    BY <1>1, <1>3, DoneComplete DEF DoneMeansAllDelivered
  <1>5. QED
    BY <1>1, <1>3, <1>4

\* A request that recvFragment obtains belongs to a buffer that holds a message.
LEMMA ArrivedHolds ==
  ASSUME IInv, phase = "open", NEW b \in Buffer, Arrived(b)
  PROVE  /\ content[b] # 0
         /\ ready' \in SUBSET Buffer
         /\ b \notin ready'
         /\ \A c \in Buffer : c # b =>
              (reqs[c] \in {"matched", "complete"} \/ c \in ready) =
              (RequestsAfter(b)[c] \in {"matched", "complete"} \/ c \in ready')
         /\ \A c \in Buffer : c # b =>
              (reqs[c] = "null" /\ c \notin ready) =
              (RequestsAfter(b)[c] = "null" /\ c \notin ready')
         /\ \A c \in ready' : RequestsAfter(b)[c] = "null"
         /\ RequestsAfter(b) \in [Buffer -> RequestState]
  BY DEF IInv, BufferInv, TypeOK, Arrived, Completed, RequestsAfter, RequestState

\* The accounting of one received message keeps the counts exact.
LEMMA AccountingKeepsCounts ==
  ASSUME IInv, NEW b \in Buffer, content[b] # 0,
         Account(b), UNCHANGED netVars,
         src_status' = [src_status EXCEPT ![req_sources[b]] =
                          IF IsLast(b) THEN "DONE" ELSE StatusSeen(b)]
  PROVE  /\ CountInv'
         /\ src_status' \in [Source -> SourceStatus]
         /\ expected_count' \in [Source -> 0 .. MaxFragments]
         /\ recv_frag_count' \in [Source -> Nat]
         /\ delivered' \in [Source -> SUBSET (1 .. MaxFragments + 1)]
  <1>1. PICK s \in Source, k \in Nat :
           /\ s = req_sources[b] /\ k = content[b]
           /\ k \in 1 .. issued[s]
           /\ k \notin delivered[s]
           /\ src_status[s] # "DONE"
    BY HeldIsActive, RHandlesAssumption DEF IInv, TypeOK
  <1>2. TypeOK /\ CountInv /\ HeldInv
    BY DEF IInv
  <1>3. issued[s] \in Nat /\ issued[s] <= MaxFragments + 1 /\ MaxFragments \in Nat /\ k \in Nat /\ k >= 1
    BY <1>1, <1>2, RHandlesAssumption DEF TypeOK
  <1>4. /\ recv_frag_count' = [recv_frag_count EXCEPT ![s] = CountAfter(b)]
        /\ expected_count' = [expected_count EXCEPT ![s] = ExpectedAfter(b)]
        /\ delivered' = [delivered EXCEPT ![s] = @ \cup {k}]
        /\ issued' = issued /\ ended' = ended /\ matched' = matched
    BY <1>1 DEF Account, netVars
  <1>5. StatusSeen(b) \in SourceStatus /\ StatusSeen(b) # "DONE"
    BY <1>1, <1>2 DEF StatusSeen, TypeOK, SourceStatus
  <1>6. src_status' \in [Source -> SourceStatus]
    BY <1>1, <1>2, <1>5 DEF TypeOK, SourceStatus
  <1>7. ExpectedAfter(b) \in 0 .. MaxFragments /\ CountAfter(b) \in Nat
    BY <1>1, <1>2, <1>3 DEF ExpectedAfter, CountAfter, TypeOK
  <1>8. /\ expected_count' \in [Source -> 0 .. MaxFragments]
        /\ recv_frag_count' \in [Source -> Nat]
    BY <1>1, <1>2, <1>4, <1>7 DEF TypeOK
  <1>9. delivered' \in [Source -> SUBSET (1 .. MaxFragments + 1)]
    BY <1>1, <1>2, <1>3, <1>4 DEF TypeOK
  <1>10. IsFiniteSet(DataDelivered(s)) /\ Cardinality(DataDelivered(s)) \in Nat
    <2>1. DataDelivered(s) \in SUBSET (1 .. MaxFragments + 1)
      BY <1>1, <1>2 DEF TypeOK, DataDelivered
    <2>2. MaxFragments + 1 \in Nat
      BY <1>3
    <2>3. QED
      BY ONLY <2>1, <2>2, SubIntervalFinite
  <1>11. CountAfter(b) = Cardinality(DataDelivered(s)')
    <2>1. CASE IsEOD(s, k)
      <3>1. DataDelivered(s)' = DataDelivered(s)
        <4>1. ended[s] /\ k = issued[s] /\ delivered'[s] = delivered[s] \cup {k}
          BY <1>1, <1>2, <1>4, <2>1 DEF IsEOD, TypeOK
        <4>2. ended'[s] /\ issued'[s] = issued[s]
          BY <1>4, <4>1
        <4>3. delivered'[s] \ {issued'[s]} = delivered[s] \ {issued[s]}
          BY <4>1, <4>2
        <4>4. QED
          BY <4>1, <4>2, <4>3 DEF DataDelivered
      <3>2. QED
        BY <1>1, <1>2, <2>1, <3>1 DEF CountAfter, CountInv, TypeOK
    <2>2. CASE ~IsEOD(s, k)
      <3>1. DataDelivered(s)' = DataDelivered(s) \cup {k} /\ k \notin DataDelivered(s)
        <4>1. delivered'[s] = delivered[s] \cup {k} /\ (ended[s] => k # issued[s])
          BY <1>1, <1>2, <1>4, <2>2 DEF IsEOD, TypeOK
        <4>2. ended' = ended /\ issued'[s] = issued[s]
          BY <1>4
        <4>3. CASE ended[s]
          BY <1>1, <4>1, <4>2, <4>3 DEF DataDelivered
        <4>4. CASE ~ended[s]
          BY <1>1, <4>1, <4>2, <4>4 DEF DataDelivered
        <4>5. QED
          BY <4>3, <4>4
      <3>2. Cardinality(DataDelivered(s) \cup {k}) = Cardinality(DataDelivered(s)) + 1
        BY <1>10, <3>1, FS_AddElement
      <3>3. QED
        BY <1>1, <1>2, <2>2, <3>1, <3>2 DEF CountAfter, CountInv
    <2>3. QED
      BY <2>1, <2>2
  <1>12. ASSUME NEW x \in Source, x # s
         PROVE  /\ recv_frag_count'[x] = recv_frag_count[x]
                /\ expected_count'[x] = expected_count[x]
                /\ delivered'[x] = delivered[x]
                /\ src_status'[x] = src_status[x]
                /\ DataDelivered(x)' = DataDelivered(x)
    <2>1. /\ recv_frag_count'[x] = recv_frag_count[x]
          /\ expected_count'[x] = expected_count[x]
          /\ delivered'[x] = delivered[x]
          /\ src_status'[x] = src_status[x]
      BY <1>1, <1>2, <1>4, <1>12 DEF TypeOK
    <2>2. QED
      BY <1>4, <2>1 DEF DataDelivered
  <1>13. /\ recv_frag_count'[s] = CountAfter(b)
         /\ expected_count'[s] = ExpectedAfter(b)
         /\ delivered'[s] = delivered[s] \cup {k}
         /\ src_status'[s] = IF IsLast(b) THEN "DONE" ELSE StatusSeen(b)
    BY <1>1, <1>2, <1>4 DEF TypeOK
  <1>14. /\ StatusSeen(b) # "SENDING" =>
              ended[s] /\ issued[s] \in delivered'[s] /\ ExpectedAfter(b) = issued[s] - 1
         /\ StatusSeen(b) = "SENDING" => ~(ended[s] /\ issued[s] \in delivered'[s])
    BY <1>1, <1>2, <1>13 DEF StatusSeen, ExpectedAfter, IsEOD, CountInv
  <1>15. IsLast(b) <=> StatusSeen(b) = "PENDING" /\ CountAfter(b) = ExpectedAfter(b)
    BY DEF IsLast
  <1>16. CountInv'
    <2> SUFFICES ASSUME NEW x \in Source
        PROVE  /\ recv_frag_count'[x] = Cardinality(DataDelivered(x)')
               /\ ~ended[x] => issued[x] <= MaxFragments
               /\ ended[x] => issued[x] >= 1
               /\ src_status'[x] # "SENDING" =>
                    ended[x] /\ issued[x] \in delivered'[x] /\ expected_count'[x] = issued[x] - 1
               /\ src_status'[x] = "SENDING" => ~(ended[x] /\ issued[x] \in delivered'[x])
               /\ src_status'[x] = "DONE" => recv_frag_count'[x] = expected_count'[x]
               /\ src_status'[x] = "PENDING" => recv_frag_count'[x] # expected_count'[x]
      BY <1>4 DEF CountInv
    <2>1. CASE x # s
      BY <1>2, <1>12, <2>1 DEF CountInv
    <2>2. CASE x = s
      BY <1>1, <1>2, <1>5, <1>11, <1>13, <1>14, <1>15, <2>2 DEF CountInv
    <2>3. QED
      BY <2>1, <2>2
  <1>17. QED
    BY <1>6, <1>8, <1>9, <1>16

\* Taking a message out of a buffer keeps the held messages distinct and new.
LEMMA AccountingKeepsHeld ==
  ASSUME IInv, NEW b \in Buffer, content[b] # 0,
         Account(b), UNCHANGED netVars,
         \A c \in Buffer : c # b => req_sources'[c] = req_sources[c]
  PROVE  HeldInv' /\ content' \in [Buffer -> 0 .. MaxFragments + 1]
  <1> DEFINE s == req_sources[b]
             k == content[b]
  <1>1. TypeOK /\ HeldInv /\ MaxFragments \in Nat
    BY RHandlesAssumption DEF IInv
  <1>2. s \in Source /\ k <= matched[s]
    BY <1>1 DEF HeldInv
  <1>3. matched[s] \in Nat /\ k \in Nat
    BY <1>1, <1>2 DEF TypeOK
  <1>4. /\ content' = [content EXCEPT ![b] = 0]
        /\ delivered' = [delivered EXCEPT ![s] = @ \cup {k}]
        /\ issued' = issued /\ matched' = matched
    BY DEF Account, netVars
  <1>5. content' \in [Buffer -> 0 .. MaxFragments + 1]
    BY <1>1, <1>4 DEF TypeOK
  <1>6. \A x \in Source : delivered'[x] \subseteq 1 .. matched'[x]
    BY <1>1, <1>2, <1>3, <1>4 DEF TypeOK, HeldInv
  <1>7. ASSUME NEW c \in Buffer, content'[c] # 0
        PROVE  /\ c # b /\ content'[c] = content[c] /\ req_sources'[c] = req_sources[c]
               /\ req_sources'[c] \in Source
               /\ content'[c] <= matched'[req_sources'[c]]
               /\ content'[c] \notin delivered'[req_sources'[c]]
    <2>1. c # b /\ content'[c] = content[c] /\ req_sources'[c] = req_sources[c]
      BY <1>1, <1>4, <1>7 DEF TypeOK
    <2>2. /\ req_sources[c] \in Source
          /\ content[c] <= matched[req_sources[c]]
          /\ content[c] \notin delivered[req_sources[c]]
      BY <1>1, <1>7, <2>1 DEF HeldInv
    <2>3. content[c] = k => req_sources[c] # s
      BY <1>1, <2>1 DEF HeldInv
    <2>4. QED
      BY <1>1, <1>2, <1>4, <2>1, <2>2, <2>3 DEF TypeOK
  <1>8. \A x \in Source : matched'[x] <= issued'[x]
    BY <1>1, <1>4 DEF HeldInv
  <1>9. \A c, d \in Buffer :
          c # d /\ content'[c] # 0 /\ content'[c] = content'[d] => req_sources'[c] # req_sources'[d]
    BY <1>1, <1>7 DEF HeldInv
  <1>10. QED
    BY <1>5, <1>6, <1>7, <1>8, <1>9 DEF HeldInv

\* What taking the message of b leaves for the other buffers, when b itself is
\* posted for a source or retired.
LEMMA ReceiveKeepsBuffers ==
  ASSUME IInv, phase = "open", NEW b \in Buffer, Arrived(b), Account(b),
         NEW dest \in Source \cup {MPI_ANY_SOURCE},
         req_sources' = [req_sources EXCEPT ![b] = dest],
         reqs' = [RequestsAfter(b) EXCEPT ![b] =
                    IF dest = MPI_ANY_SOURCE THEN "null" ELSE "posted"]
  PROVE  /\ BufferInv'
         /\ reqs' \in [Buffer -> RequestState]
         /\ req_sources' \in [Buffer -> Source \cup {MPI_ANY_SOURCE}]
         /\ ready' \in SUBSET Buffer
         /\ \A c \in Buffer : c # b => req_sources'[c] = req_sources[c]
         /\ req_sources'[b] = dest
  <1>1. TypeOK /\ BufferInv
    BY DEF IInv
  <1>2. content' = [content EXCEPT ![b] = 0]
    BY DEF Account
  <1>3. /\ \A c \in Buffer : c # b => req_sources'[c] = req_sources[c]
        /\ req_sources'[b] = dest
        /\ req_sources' \in [Buffer -> Source \cup {MPI_ANY_SOURCE}]
    BY <1>1 DEF TypeOK
  <1>4. /\ \A c \in Buffer : c # b => reqs'[c] = RequestsAfter(b)[c]
        /\ reqs'[b] = IF dest = MPI_ANY_SOURCE THEN "null" ELSE "posted"
        /\ reqs' \in [Buffer -> RequestState]
    BY ArrivedHolds DEF RequestState
  <1>5. ready' \in SUBSET Buffer /\ b \notin ready'
    BY ArrivedHolds
  <1>6. ASSUME NEW c \in Buffer
        PROVE  /\ content'[c] # 0 <=> reqs'[c] \in {"matched", "complete"} \/ c \in ready'
               /\ c \in ready' => reqs'[c] = "null"
               /\ req_sources'[c] = MPI_ANY_SOURCE <=> reqs'[c] = "null" /\ c \notin ready'
    <2>1. CASE c = b
      BY <1>1, <1>2, <1>3, <1>4, <1>5, <2>1 DEF TypeOK
    <2>2. CASE c # b
      <3>1. content'[c] = content[c]
        BY <1>1, <1>2, <2>2 DEF TypeOK
      <3>2. /\ (reqs[c] \in {"matched", "complete"} \/ c \in ready) =
               (reqs'[c] \in {"matched", "complete"} \/ c \in ready')
            /\ (reqs[c] = "null" /\ c \notin ready) = (reqs'[c] = "null" /\ c \notin ready')
            /\ c \in ready' => reqs'[c] = "null"
        BY <1>4, <2>2, ArrivedHolds
      <3>3. /\ content[c] # 0 <=> reqs[c] \in {"matched", "complete"} \/ c \in ready
            /\ req_sources[c] = MPI_ANY_SOURCE <=> reqs[c] = "null" /\ c \notin ready
        BY <1>1 DEF BufferInv
      <3>4. QED
        BY <1>3, <2>2, <3>1, <3>2, <3>3
    <2>3. QED
      BY <2>1, <2>2
  <1>7. QED
    BY <1>3, <1>4, <1>5, <1>6 DEF BufferInv

-----------------------------------------------------------------------------
(* The actions.                                                            *)

\* The constructor establishes the invariant.
LEMMA InitIInv == Init => IInv
  <1> SUFFICES ASSUME Init PROVE IInv
    OBVIOUS
  <1>1. TypeOK
    <2>1. last_source_posted \in Source
      BY ModSource, BufferCountPositive DEF Init
    <2>2. req_sources \in [Buffer -> Source \cup {MPI_ANY_SOURCE}]
      BY ModSource, BufferCountPositive DEF Init, Buffer
    <2>3. 0 \in Source
      BY RHandlesAssumption DEF Source
    <2>4. QED
      BY <2>1, <2>2, <2>3, BufferCountPositive, RHandlesAssumption
      DEF Init, TypeOK, RequestState, SourceStatus, Phase
  <1>2. BufferInv
    BY ModSource, SourceIsNotAny DEF Init, BufferInv, Buffer
  <1>3. HeldInv
    BY DEF Init, HeldInv
  <1>4. CountInv
    BY FS_EmptySet, RHandlesAssumption DEF Init, CountInv, DataDelivered
  <1>5. LastPostedInv
    <2>1. BufferCount - 1 \in Buffer
      BY BufferCountPositive DEF Buffer
    <2>2. req_sources[BufferCount - 1] = last_source_posted
      BY <2>1 DEF Init
    <2>3. src_status[last_source_posted] # "DONE"
      BY <1>1 DEF Init, TypeOK
    <2>4. QED
      BY <2>1, <2>2, <2>3 DEF LastPostedInv
  <1>6. RepostInv
    BY DEF Init, RepostInv
  <1>7. QED
    BY <1>1, <1>2, <1>3, <1>4, <1>5, <1>6 DEF IInv

\* A sender that sends a fragment keeps the invariant.
LEMMA SendFragmentStep ==
  ASSUME IInv, NEW s \in Source, SendFragment(s)
  PROVE  IInv'
  <1>1. /\ ~ended[s] /\ issued[s] < MaxFragments
        /\ issued' = [issued EXCEPT ![s] = @ + 1]
        /\ UNCHANGED <<ended, matched, bufVars, srcVars, ctlVars>>
    BY DEF SendFragment
  <1>2. TypeOK'
    BY <1>1, RHandlesAssumption DEF IInv, TypeOK, bufVars, srcVars, ctlVars
  <1>3. BufferInv'
    BY <1>1 DEF IInv, BufferInv, bufVars, ctlVars
  <1>4. \A x \in Source : issued[x] \in Nat /\ matched[x] \in Nat /\ issued'[x] \in Nat /\ issued'[x] >= issued[x]
    BY <1>1, RHandlesAssumption DEF IInv, TypeOK
  <1>5. HeldInv'
    BY <1>1, <1>4 DEF IInv, HeldInv, bufVars, srcVars
  <1>6. \A x \in Source : DataDelivered(x)' = DataDelivered(x)
    BY <1>1 DEF IInv, TypeOK, DataDelivered, srcVars
  <1>7. \A x \in Source : x # s => issued'[x] = issued[x]
    BY <1>1 DEF IInv, TypeOK
  <1>8. issued'[s] <= MaxFragments
    BY <1>1, <1>4, RHandlesAssumption DEF IInv, TypeOK
  <1>9. CountInv'
    BY <1>1, <1>6, <1>7, <1>8 DEF IInv, CountInv, srcVars
  <1>10. LastPostedInv' /\ RepostInv'
    BY <1>1 DEF IInv, LastPostedInv, RepostInv, anySourceActive, bufVars, srcVars, ctlVars
  <1>11. QED
    BY <1>2, <1>3, <1>5, <1>9, <1>10 DEF IInv

\* A sender that sends its EOD keeps the invariant.
LEMMA SendEODStep ==
  ASSUME IInv, NEW s \in Source, SendEOD(s)
  PROVE  IInv'
  <1>1. /\ ~ended[s]
        /\ ended' = [ended EXCEPT ![s] = TRUE]
        /\ issued' = [issued EXCEPT ![s] = @ + 1]
        /\ UNCHANGED <<matched, bufVars, srcVars, ctlVars>>
    BY DEF SendEOD
  <1>2. issued[s] <= MaxFragments
    BY <1>1 DEF IInv, CountInv
  <1>3. TypeOK'
    BY <1>1, <1>2, RHandlesAssumption DEF IInv, TypeOK, bufVars, srcVars, ctlVars
  <1>4. BufferInv'
    BY <1>1 DEF IInv, BufferInv, bufVars, ctlVars
  <1>5. \A x \in Source : issued[x] \in Nat /\ matched[x] \in Nat /\ issued'[x] \in Nat /\ issued'[x] >= issued[x]
    BY <1>1, RHandlesAssumption DEF IInv, TypeOK
  <1>6. HeldInv'
    BY <1>1, <1>5 DEF IInv, HeldInv, bufVars, srcVars
  <1>7. issued'[s] \notin delivered[s] /\ issued'[s] >= 1 /\ ended'[s]
    BY <1>1, <1>5 DEF IInv, TypeOK, HeldInv
  <1>8. \A x \in Source : x # s => issued'[x] = issued[x] /\ ended'[x] = ended[x]
    BY <1>1 DEF IInv, TypeOK
  <1>9. \A x \in Source : DataDelivered(x)' = DataDelivered(x)
    BY <1>1, <1>7, <1>8 DEF DataDelivered, srcVars
  <1>10. src_status[s] = "SENDING"
    BY <1>1 DEF IInv, CountInv
  <1>11. CountInv'
    BY <1>1, <1>7, <1>8, <1>9, <1>10 DEF IInv, CountInv, srcVars
  <1>12. LastPostedInv' /\ RepostInv'
    BY <1>1 DEF IInv, LastPostedInv, RepostInv, anySourceActive, bufVars, srcVars, ctlVars
  <1>13. QED
    BY <1>3, <1>4, <1>6, <1>11, <1>12 DEF IInv

\* A match by MPI keeps the invariant.
LEMMA MatchStep ==
  ASSUME IInv, NEW s \in Source, Match(s)
  PROVE  IInv'
  <1>1. PICK b \in Buffer :
          /\ reqs[b] = "posted" /\ req_sources[b] = s
          /\ reqs' = [reqs EXCEPT ![b] = "matched"]
          /\ content' = [content EXCEPT ![b] = matched[s] + 1]
    BY DEF Match
  <1>2. /\ matched[s] < issued[s]
        /\ matched' = [matched EXCEPT ![s] = @ + 1]
        /\ UNCHANGED <<issued, ended, req_sources, last_source_posted, ready, srcVars, ctlVars>>
    BY DEF Match
  <1>3. \A x \in Source : issued[x] \in Nat /\ matched[x] \in Nat /\ issued[x] <= MaxFragments + 1
    BY RHandlesAssumption DEF IInv, TypeOK
  <1>4. matched[s] + 1 \in 0 .. MaxFragments + 1 /\ matched[s] + 1 # 0
    BY <1>2, <1>3, RHandlesAssumption
  <1>5. TypeOK'
    BY <1>1, <1>2, <1>4 DEF IInv, TypeOK, RequestState, srcVars, ctlVars
  <1>6. b \notin ready \/ phase \notin {"open", "repost"}
    BY <1>1 DEF IInv, BufferInv
  <1>7. BufferInv'
    BY <1>1, <1>2, <1>4, <1>6 DEF IInv, TypeOK, BufferInv, ctlVars
  <1>8. \A x \in Source : /\ matched'[x] \in Nat /\ matched[x] <= matched'[x] /\ matched'[x] <= issued[x]
                          /\ x # s => matched'[x] = matched[x]
    BY <1>2, <1>3 DEF IInv, TypeOK, HeldInv
  <1>9. \A x \in Source : delivered[x] \subseteq 1 .. matched'[x]
    BY <1>3, <1>8 DEF IInv, HeldInv
  <1>10. matched[s] + 1 \notin delivered[s]
    BY <1>3 DEF IInv, HeldInv
  <1>11. \A c \in Buffer : content[c] \in Nat /\ (c # b => content'[c] = content[c])
    BY <1>1, RHandlesAssumption DEF IInv, TypeOK
  <1>12. content'[b] = matched[s] + 1 /\ matched'[s] = matched[s] + 1
    BY <1>1, <1>2 DEF IInv, TypeOK
  <1>13. ASSUME NEW c \in Buffer, content'[c] # 0
         PROVE  /\ req_sources[c] \in Source
                /\ content'[c] <= matched'[req_sources[c]]
                /\ content'[c] \notin delivered[req_sources[c]]
    <2>1. CASE c = b
      BY <1>1, <1>3, <1>10, <1>12, <2>1
    <2>2. CASE c # b
      <3>1. /\ req_sources[c] \in Source
            /\ content[c] <= matched[req_sources[c]]
            /\ content[c] \notin delivered[req_sources[c]]
        BY <1>11, <1>13, <2>2 DEF IInv, HeldInv
      <3>2. QED
        BY <1>3, <1>8, <1>11, <2>2, <3>1
    <2>3. QED
      BY <2>1, <2>2
  <1>14. \A c \in Buffer : c # b /\ content[c] # 0 /\ req_sources[c] = s => content[c] < matched[s] + 1
    BY <1>3, <1>11 DEF IInv, HeldInv
  <1>15. ASSUME NEW c \in Buffer, NEW d \in Buffer, c # d, content'[c] # 0, content'[c] = content'[d]
         PROVE  req_sources[c] # req_sources[d]
    <2>1. CASE c = b
      BY <1>1, <1>3, <1>11, <1>12, <1>14, <1>15, <2>1
    <2>2. CASE d = b
      BY <1>1, <1>3, <1>11, <1>12, <1>14, <1>15, <2>2
    <2>3. CASE c # b /\ d # b
      BY <1>11, <1>15, <2>3 DEF IInv, HeldInv
    <2>4. QED
      BY <2>1, <2>2, <2>3
  <1>16. HeldInv'
    BY <1>2, <1>8, <1>9, <1>13, <1>15 DEF HeldInv, srcVars
  <1>17. CountInv' /\ LastPostedInv' /\ RepostInv'
    BY <1>2 DEF IInv, CountInv, DataDelivered, LastPostedInv, RepostInv, anySourceActive,
                srcVars, ctlVars
  <1>18. QED
    BY <1>5, <1>7, <1>16, <1>17 DEF IInv

\* The completion of a transfer keeps the invariant.
LEMMA CompleteStep ==
  ASSUME IInv, NEW b \in Buffer, Complete(b)
  PROVE  IInv'
  <1>1. /\ reqs[b] = "matched" /\ reqs' = [reqs EXCEPT ![b] = "complete"]
        /\ UNCHANGED <<netVars, content, req_sources, last_source_posted, ready, srcVars, ctlVars>>
    BY DEF Complete
  <1>2. TypeOK'
    BY <1>1 DEF IInv, TypeOK, RequestState, netVars, srcVars, ctlVars
  <1>3. BufferInv'
    BY <1>1 DEF IInv, TypeOK, BufferInv, ctlVars
  <1>4. HeldInv' /\ CountInv' /\ LastPostedInv' /\ RepostInv'
    BY <1>1 DEF IInv, HeldInv, CountInv, DataDelivered, LastPostedInv, RepostInv,
                anySourceActive, netVars, srcVars, ctlVars
  <1>5. QED
    BY <1>2, <1>3, <1>4 DEF IInv

\* recvFragment keeps the invariant when the source has more to come.
LEMMA ReceiveMoreStep ==
  ASSUME IInv, NEW b \in Buffer, ReceiveMore(b)
  PROVE  IInv'
  <1>1. /\ phase = "open" /\ Arrived(b) /\ ~IsLast(b) /\ Account(b)
        /\ src_status' = [src_status EXCEPT ![req_sources[b]] = StatusSeen(b)]
        /\ UNCHANGED netVars /\ cursor' = cursor /\ doneSrc' = doneSrc
    BY DEF ReceiveMore
  <1>2. content[b] # 0
    BY <1>1, ArrivedHolds
  <1>3. PICK s \in Source : s = req_sources[b] /\ src_status[s] # "DONE"
    BY <1>2, HeldIsActive
  <1>4. StatusSeen(b) # "DONE"
    BY <1>3 DEF StatusSeen
  <1>5. /\ req_sources' = [req_sources EXCEPT ![b] = s]
        /\ reqs' = [RequestsAfter(b) EXCEPT ![b] = IF s = MPI_ANY_SOURCE THEN "null" ELSE "posted"]
        /\ last_source_posted' = s
        /\ phase' = phase
    BY <1>3, <1>4, SourceIsNotAny DEF ReceiveMore, Post
  <1>6. /\ BufferInv'
        /\ reqs' \in [Buffer -> RequestState]
        /\ req_sources' \in [Buffer -> Source \cup {MPI_ANY_SOURCE}]
        /\ ready' \in SUBSET Buffer
        /\ \A c \in Buffer : c # b => req_sources'[c] = req_sources[c]
        /\ req_sources'[b] = s
    <2>1. s \in Source \cup {MPI_ANY_SOURCE}
      OBVIOUS
    <2>2. QED
      BY <1>1, <1>5, <2>1, ReceiveKeepsBuffers
  <1>7. HeldInv' /\ content' \in [Buffer -> 0 .. MaxFragments + 1]
    BY <1>1, <1>2, <1>6, AccountingKeepsHeld
  <1>8. /\ CountInv'
        /\ src_status' \in [Source -> SourceStatus]
        /\ expected_count' \in [Source -> 0 .. MaxFragments]
        /\ recv_frag_count' \in [Source -> Nat]
        /\ delivered' \in [Source -> SUBSET (1 .. MaxFragments + 1)]
    BY <1>1, <1>2, AccountingKeepsCounts
  <1>9. TypeOK'
    BY <1>1, <1>5, <1>6, <1>7, <1>8 DEF IInv, TypeOK, netVars
  <1>10. src_status'[s] # "DONE"
    BY <1>1, <1>3, <1>4 DEF IInv, TypeOK
  <1>11. LastPostedInv'
    BY <1>5, <1>6, <1>10 DEF LastPostedInv
  <1>12. RepostInv'
    BY <1>1, <1>5 DEF RepostInv
  <1>13. QED
    BY <1>6, <1>7, <1>8, <1>9, <1>11, <1>12 DEF IInv

\* A source that nextSource_() returns is active; when it returns none, only
\* last_source_posted_ may be.
LEMMA NextSourceActive ==
  ASSUME NEW status, NEW next, last_source_posted \in Source
  PROVE  /\ NextSource(next, status) /\ next \in Source => status[next] # "DONE"
         /\ NextSource(MPI_ANY_SOURCE, status) =>
              \A s \in Source \ {last_source_posted} : status[s] = "DONE"
  <1>1. NextSource(next, status) /\ next \in Source => status[next] # "DONE"
    BY SourceIsNotAny DEF NextSource
  <1>2. \A k \in 1 .. SrcCount - 1 : MPI_ANY_SOURCE # (last_source_posted + k) % SrcCount
    <2> SUFFICES ASSUME NEW k \in 1 .. SrcCount - 1
                 PROVE  MPI_ANY_SOURCE # (last_source_posted + k) % SrcCount
      OBVIOUS
    <2>1. last_source_posted + k \in Int
      BY SourceIsNotAny
    <2>2. QED
      BY <2>1, ModSource, SourceIsNotAny
  <1>3. QED
    BY <1>1, <1>2 DEF NextSource

\* After buffer b of source s, now DONE, was posted for dest or retired, the
\* source posted last is still active and listened to, if any is.
LEMMA RepostKeepsLastPosted ==
  ASSUME IInv, NEW b \in Buffer, NEW s \in Source, req_sources[b] = s,
         src_status' \in [Source -> SourceStatus],
         src_status'[s] = "DONE",
         \A x \in Source : x # s => src_status'[x] = src_status[x],
         NEW dest \in Source \cup {MPI_ANY_SOURCE}, NextSource(dest, src_status'),
         req_sources' = [req_sources EXCEPT ![b] = dest],
         last_source_posted' = IF dest = MPI_ANY_SOURCE THEN last_source_posted ELSE dest
  PROVE  LastPostedInv' /\ last_source_posted' \in Source
  <1>1. last_source_posted \in Source
    BY DEF IInv, TypeOK
  <1>2. /\ req_sources'[b] = dest
        /\ \A c \in Buffer : c # b => req_sources'[c] = req_sources[c]
    BY DEF IInv, TypeOK
  <1>3. CASE dest \in Source
    <2>1. src_status'[dest] # "DONE" /\ last_source_posted' = dest
      BY <1>1, <1>3, NextSourceActive, SourceIsNotAny
    <2>2. QED
      BY <1>2, <1>3, <2>1 DEF LastPostedInv
  <1>4. CASE dest = MPI_ANY_SOURCE
    <2>1. \A x \in Source \ {last_source_posted} : src_status'[x] = "DONE"
      BY <1>1, <1>4, NextSourceActive
    <2>2. last_source_posted' = last_source_posted
      BY <1>4
    <2>3. SUFFICES ASSUME anySourceActive'
                   PROVE  /\ src_status'[last_source_posted] # "DONE"
                          /\ \E c \in Buffer : req_sources'[c] = last_source_posted
      BY <1>1, <2>2 DEF LastPostedInv
    <2>4. src_status'[last_source_posted] # "DONE"
      BY <2>1, <2>3 DEF anySourceActive
    <2>5. last_source_posted # s /\ src_status[last_source_posted] # "DONE"
      BY <1>1, <2>4
    <2>6. PICK c \in Buffer : req_sources[c] = last_source_posted
      BY <1>1, <2>5 DEF IInv, LastPostedInv, anySourceActive
    <2>7. QED
      BY <1>2, <2>4, <2>5, <2>6
  <1>5. QED
    BY <1>3, <1>4

\* recvFragment keeps the invariant when the source becomes DONE.
LEMMA ReceiveLastStep ==
  ASSUME IInv, NEW b \in Buffer, ReceiveLast(b)
  PROVE  IInv'
  <1>1. /\ phase = "open" /\ Arrived(b) /\ IsLast(b) /\ Account(b)
        /\ src_status' = [src_status EXCEPT ![req_sources[b]] = "DONE"]
        /\ PostNextOrRetire(b, src_status', RequestsAfter(b))
        /\ phase' = "repost" /\ cursor' = 0 /\ doneSrc' = req_sources[b]
        /\ UNCHANGED netVars
    BY DEF ReceiveLast
  <1>2. content[b] # 0
    BY <1>1, ArrivedHolds
  <1>3. PICK s \in Source : s = req_sources[b]
    BY <1>2, HeldIsActive
  <1>4. PICK dest \in Source \cup {MPI_ANY_SOURCE} :
          /\ NextSource(dest, src_status')
          /\ req_sources' = [req_sources EXCEPT ![b] = dest]
          /\ reqs' = [RequestsAfter(b) EXCEPT ![b] = IF dest = MPI_ANY_SOURCE THEN "null" ELSE "posted"]
          /\ last_source_posted' = IF dest = MPI_ANY_SOURCE THEN last_source_posted ELSE dest
    BY <1>1, SourceIsNotAny DEF PostNextOrRetire, Post
  <1>5. /\ BufferInv'
        /\ reqs' \in [Buffer -> RequestState]
        /\ req_sources' \in [Buffer -> Source \cup {MPI_ANY_SOURCE}]
        /\ ready' \in SUBSET Buffer
        /\ \A c \in Buffer : c # b => req_sources'[c] = req_sources[c]
    BY <1>1, <1>4, ReceiveKeepsBuffers
  <1>6. HeldInv' /\ content' \in [Buffer -> 0 .. MaxFragments + 1]
    BY <1>1, <1>2, <1>5, AccountingKeepsHeld
  <1>7. /\ CountInv'
        /\ src_status' \in [Source -> SourceStatus]
        /\ expected_count' \in [Source -> 0 .. MaxFragments]
        /\ recv_frag_count' \in [Source -> Nat]
        /\ delivered' \in [Source -> SUBSET (1 .. MaxFragments + 1)]
    BY <1>1, <1>2, AccountingKeepsCounts
  <1>8. src_status'[s] = "DONE" /\ \A x \in Source : x # s => src_status'[x] = src_status[x]
    BY <1>1, <1>3 DEF IInv, TypeOK
  <1>9. LastPostedInv' /\ last_source_posted' \in Source
    BY <1>3, <1>4, <1>7, <1>8, RepostKeepsLastPosted
  <1>10. TypeOK'
    BY <1>1, <1>3, <1>5, <1>6, <1>7, <1>9, BufferCountPositive DEF IInv, TypeOK, Phase, netVars
  <1>11. RepostInv'
    BY <1>1, <1>3, <1>8 DEF RepostInv
  <1>12. QED
    BY <1>5, <1>6, <1>7, <1>9, <1>10, <1>11 DEF IInv

\* A buffer still posted for a DONE source holds no message and is not in the
\* saved batch: its receive is unmatched.
LEMMA DoneSourceUnmatched ==
  ASSUME IInv, phase \in {"open", "repost"}, NEW b \in Buffer, NEW s \in Source,
         req_sources[b] = s, src_status[s] = "DONE"
  PROVE  content[b] = 0 /\ reqs[b] = "posted" /\ b \notin ready
  <1>1. content[b] = 0
    BY HeldIsActive
  <1>2. reqs[b] \notin {"matched", "complete", "null"} /\ b \notin ready
    BY <1>1, SourceIsNotAny DEF IInv, BufferInv
  <1>3. QED
    BY <1>1, <1>2 DEF IInv, TypeOK, RequestState

\* An iteration of cancelAndRepost_ keeps the invariant.
LEMMA CancelAndRepostStep ==
  ASSUME IInv, CancelAndRepost
  PROVE  IInv'
  <1>1. /\ phase = "repost" /\ cursor \in Buffer /\ cursor + 1 \in 0 .. BufferCount
        /\ UNCHANGED <<netVars, srcVars, doneSrc>>
    BY BufferCountPositive DEF CancelAndRepost, IInv, TypeOK, Buffer
  <1>2. CASE req_sources[cursor] # doneSrc
    <2>1. cursor' = cursor + 1 /\ UNCHANGED <<bufVars, phase>>
      BY <1>2 DEF CancelAndRepost
    <2>2. TypeOK' /\ BufferInv' /\ RepostInv'
      BY <1>1, <2>1 DEF IInv, TypeOK, BufferInv, RepostInv, netVars, bufVars, srcVars
    <2>3. HeldInv' /\ CountInv' /\ LastPostedInv'
      BY <1>1, <2>1 DEF IInv, HeldInv, CountInv, DataDelivered, LastPostedInv, anySourceActive,
                        netVars, bufVars, srcVars
    <2>4. QED
      BY <2>2, <2>3 DEF IInv
  <1>3. CASE req_sources[cursor] = doneSrc
    <2>1. PICK b \in Buffer, s \in Source : b = cursor /\ s = doneSrc /\ src_status[s] = "DONE"
      BY <1>1 DEF IInv, TypeOK, RepostInv
    <2>2. content[b] = 0 /\ reqs[b] = "posted" /\ b \notin ready
      BY <1>1, <1>3, <2>1, DoneSourceUnmatched
    <2>3. /\ content' = [content EXCEPT ![b] = 0]
          /\ PostNextOrRetire(b, src_status, reqs)
          /\ cursor' = cursor + 1
          /\ UNCHANGED <<ready, phase>>
      BY <1>3, <2>1, <2>2 DEF CancelAndRepost
    <2>4. PICK dest \in Source \cup {MPI_ANY_SOURCE} :
            /\ NextSource(dest, src_status)
            /\ req_sources' = [req_sources EXCEPT ![b] = dest]
            /\ reqs' = [reqs EXCEPT ![b] = IF dest = MPI_ANY_SOURCE THEN "null" ELSE "posted"]
            /\ last_source_posted' = IF dest = MPI_ANY_SOURCE THEN last_source_posted ELSE dest
      BY <2>3, SourceIsNotAny DEF PostNextOrRetire, Post
    <2>5. src_status' = src_status /\ src_status \in [Source -> SourceStatus]
      BY <1>1 DEF srcVars, IInv, TypeOK
    <2>6. LastPostedInv' /\ last_source_posted' \in Source
      BY <1>3, <2>1, <2>4, <2>5, RepostKeepsLastPosted
    <2>7. content' = content
      BY <2>2, <2>3 DEF IInv, TypeOK
    <2>8. TypeOK'
      BY <1>1, <2>3, <2>4, <2>6, <2>7 DEF IInv, TypeOK, RequestState, netVars, srcVars
    <2>9. BufferInv'
      BY <1>1, <2>2, <2>3, <2>4, <2>7, SourceIsNotAny DEF IInv, TypeOK, BufferInv
    <2>10. \A c \in Buffer : content[c] # 0 => req_sources'[c] = req_sources[c]
      BY <2>2, <2>4 DEF IInv, TypeOK
    <2>11. HeldInv'
      BY <1>1, <2>7, <2>10 DEF IInv, HeldInv, netVars, srcVars
    <2>12. CountInv' /\ RepostInv'
      BY <1>1, <2>3 DEF IInv, CountInv, DataDelivered, RepostInv, netVars, srcVars
    <2>13. QED
      BY <2>6, <2>8, <2>9, <2>11, <2>12 DEF IInv
  <1>4. QED
    BY <1>2, <1>3

\* The return of cancelAndRepost_ keeps the invariant.
LEMMA EndRepostStep == IInv /\ EndRepost => IInv'
  <1> SUFFICES ASSUME IInv, EndRepost PROVE IInv'
    OBVIOUS
  <1>1. /\ phase = "repost" /\ phase' = "open"
        /\ UNCHANGED <<netVars, bufVars, srcVars, cursor, doneSrc>>
    BY DEF EndRepost
  <1>2. TypeOK' /\ BufferInv' /\ RepostInv'
    BY <1>1 DEF IInv, TypeOK, Phase, BufferInv, RepostInv, netVars, bufVars, srcVars
  <1>3. HeldInv' /\ CountInv' /\ LastPostedInv'
    BY <1>1 DEF IInv, HeldInv, CountInv, DataDelivered, LastPostedInv, anySourceActive,
                netVars, bufVars, srcVars
  <1>4. QED
    BY <1>2, <1>3 DEF IInv

\* ~RHandles keeps the invariant.
LEMMA DestroyStep == IInv /\ Destroy => IInv'
  <1> SUFFICES ASSUME IInv, Destroy PROVE IInv'
    OBVIOUS
  <1>1. /\ phase' \in {"closed", "err_request"}
        /\ reqs' = [c \in Buffer |-> "null"]
        /\ UNCHANGED <<netVars, content, req_sources, last_source_posted, ready, srcVars, cursor, doneSrc>>
    BY DEF Destroy
  <1>2. TypeOK'
    BY <1>1 DEF IInv, TypeOK, RequestState, Phase, netVars, srcVars
  <1>3. BufferInv'
    BY <1>1 DEF BufferInv
  <1>4. RepostInv'
    <2>1. CASE ForcedExit
      BY <1>1, <2>1 DEF RepostInv
    <2>2. CASE ~ForcedExit
      <3>1. phase = "open" /\ ~anySourceActive
        BY <2>2 DEF Destroy
      <3>2. \A b \in Buffer : content[b] = 0
        BY <3>1, HeldIsActive DEF anySourceActive
      <3>3. \A b \in Buffer : req_sources[b] # MPI_ANY_SOURCE => reqs[b] # "null"
        BY <3>1, <3>2 DEF IInv, BufferInv
      <3>4. phase' = "closed"
        BY <3>3 DEF Destroy
      <3>5. QED
        BY <3>4 DEF RepostInv
    <2>3. QED
      BY <2>1, <2>2
  <1>5. HeldInv' /\ CountInv' /\ LastPostedInv'
    BY <1>1 DEF IInv, HeldInv, CountInv, DataDelivered, LastPostedInv, anySourceActive, netVars, srcVars
  <1>6. QED
    BY <1>2, <1>3, <1>4, <1>5 DEF IInv

\* The invariant depends on the variables only.
LEMMA StutterStep == IInv /\ UNCHANGED vars => IInv'
  <1> SUFFICES ASSUME IInv, UNCHANGED vars PROVE IInv'
    OBVIOUS
  <1>1. UNCHANGED <<netVars, bufVars, srcVars, ctlVars>>
    BY DEF vars
  <1>2. TypeOK' /\ BufferInv' /\ RepostInv'
    BY <1>1 DEF IInv, TypeOK, BufferInv, RepostInv, netVars, bufVars, srcVars, ctlVars
  <1>3. HeldInv' /\ CountInv' /\ LastPostedInv'
    BY <1>1 DEF IInv, HeldInv, CountInv, DataDelivered, LastPostedInv, anySourceActive,
                netVars, bufVars, srcVars
  <1>4. QED
    BY <1>2, <1>3 DEF IInv

\* Every step keeps the invariant.
LEMMA NextIInv == IInv /\ [Next]_vars => IInv'
  <1> SUFFICES ASSUME IInv, [Next]_vars PROVE IInv'
    OBVIOUS
  <1>1. ASSUME NEW s \in Source, Sender(s) \/ Match(s) PROVE IInv'
    BY <1>1, SendFragmentStep, SendEODStep, MatchStep DEF Sender
  <1>2. ASSUME NEW b \in Buffer, Complete(b) \/ ReceiveMore(b) \/ ReceiveLast(b) PROVE IInv'
    BY <1>2, CompleteStep, ReceiveMoreStep, ReceiveLastStep
  <1>3. CASE CancelAndRepost \/ EndRepost \/ Destroy
    BY <1>3, CancelAndRepostStep, EndRepostStep, DestroyStep
  <1>4. CASE Terminated \/ UNCHANGED vars
    BY <1>4, StutterStep DEF Terminated
  <1>5. QED
    BY <1>1, <1>2, <1>3, <1>4 DEF Next, Receiver

\* The inductive invariant holds of every execution of the receiver.
THEOREM Inductive == Spec => []IInv
  BY InitIInv, NextIInv, PTL DEF Spec

-----------------------------------------------------------------------------
(* The properties.                                                         *)

\* Every variable of the receiver keeps its type.
THEOREM TypeCorrect == Spec => []TypeOK
  <1>1. IInv => TypeOK
    BY DEF IInv
  <1>2. QED
    BY <1>1, Inductive, PTL

\* recvFragment declares a source DONE only when it returned all its messages.
THEOREM DoneDeliversAll == Spec => []DoneMeansAllDelivered
  BY DoneComplete, Inductive, PTL

\* The receiver never waits on buffers none of which can be filled.
THEOREM ReceiverListens == Spec => []ActiveSourceListened
  <1>1. IInv => ActiveSourceListened
    <2> SUFFICES ASSUME IInv, phase \in {"open", "repost"}, anySourceActive
                 PROVE  \E b \in Buffer : /\ req_sources[b] # MPI_ANY_SOURCE
                                          /\ src_status[req_sources[b]] # "DONE"
                                          /\ reqs[b] # "null" \/ b \in ready
      BY DEF ActiveSourceListened
    <2>1. PICK b \in Buffer : req_sources[b] = last_source_posted
      BY DEF IInv, LastPostedInv
    <2>2. src_status[req_sources[b]] # "DONE" /\ req_sources[b] # MPI_ANY_SOURCE
      BY <2>1, SourceIsNotAny DEF IInv, LastPostedInv, TypeOK
    <2>3. reqs[b] # "null" \/ b \in ready
      BY <2>2 DEF IInv, BufferInv
    <2>4. QED
      BY <2>2, <2>3
  <1>2. QED
    BY <1>1, Inductive, PTL

\* cancelAndRepost_ never drops a message that MPI has already matched.
THEOREM CancelSafe == Spec => []CancelDropsNothing
  <1>1. IInv => CancelDropsNothing
    <2> SUFFICES ASSUME IInv, phase = "repost", NEW b \in cursor .. BufferCount - 1,
                        req_sources[b] = doneSrc
                 PROVE  reqs[b] = "posted"
      BY DEF CancelDropsNothing
    <2>1. b \in Buffer
      BY BufferCountPositive DEF IInv, TypeOK, Buffer
    <2>2. doneSrc \in Source /\ src_status[doneSrc] = "DONE"
      BY DEF IInv, TypeOK, RepostInv
    <2>3. QED
      BY <2>1, <2>2, DoneSourceUnmatched
  <1>2. QED
    BY <1>1, Inductive, PTL

\* When the object is destroyed only once all sources are DONE, none of its
\* LogicErrors is ever thrown.
THEOREM NoErrors ==
  ASSUME ~ForcedExit
  PROVE  Spec => []NoLogicError
  <1>1. IInv => NoLogicError
    BY DEF IInv, RepostInv, NoLogicError
  <1>2. QED
    BY <1>1, Inductive, PTL

\* Every active source has a buffer of its own.
AllListened == \A s \in Source : src_status[s] # "DONE" => \E b \in Buffer : req_sources[b] = s

\* A step that takes a buffer only from a source that is DONE afterwards, and
\* makes no source active, keeps every active source listened to.
LEMMA TakenFromDone ==
  ASSUME AllListened, NEW b \in Buffer, src_status'[req_sources[b]] = "DONE",
         \A x \in Source : src_status'[x] # "DONE" => src_status[x] # "DONE",
         \A c \in Buffer : c # b => req_sources'[c] = req_sources[c]
  PROVE  AllListened'
  BY DEF AllListened

\* With as many buffers as sources, every step keeps all active sources listened to.
LEMMA NextAllListened == IInv /\ AllListened /\ [Next]_vars => AllListened'
  <1> SUFFICES ASSUME IInv, AllListened, [Next]_vars PROVE AllListened'
    OBVIOUS
  <1>1. ASSUME UNCHANGED <<req_sources, src_status>> PROVE AllListened'
    BY <1>1 DEF AllListened
  <1>2. ASSUME NEW s \in Source, SendFragment(s) \/ SendEOD(s) \/ Match(s) PROVE AllListened'
    BY <1>1, <1>2 DEF SendFragment, SendEOD, Match, bufVars, srcVars
  <1>3. ASSUME NEW b \in Buffer, Complete(b) PROVE AllListened'
    BY <1>1, <1>3 DEF Complete, srcVars
  <1>4. ASSUME NEW b \in Buffer, ReceiveMore(b) PROVE AllListened'
    <2>1. content[b] # 0
      BY <1>4, ArrivedHolds DEF ReceiveMore
    <2>2. req_sources[b] \in Source /\ src_status[req_sources[b]] # "DONE"
      BY <2>1, HeldIsActive
    <2>3. StatusSeen(b) # "DONE"
      BY <2>2 DEF StatusSeen
    <2>4. req_sources' = req_sources
      BY <1>4, <2>3 DEF ReceiveMore, Post, IInv, TypeOK
    <2>5. \A x \in Source : src_status'[x] # "DONE" => src_status[x] # "DONE"
      BY <1>4, <2>2 DEF ReceiveMore, IInv, TypeOK
    <2>6. QED
      BY <2>4, <2>5 DEF AllListened
  <1>5. ASSUME NEW b \in Buffer, ReceiveLast(b) PROVE AllListened'
    <2>1. content[b] # 0
      BY <1>5, ArrivedHolds DEF ReceiveLast
    <2>2. req_sources[b] \in Source
      BY <2>1, HeldIsActive
    <2>3. \A c \in Buffer : c # b => req_sources'[c] = req_sources[c]
      BY <1>5 DEF ReceiveLast, PostNextOrRetire, Post, IInv, TypeOK
    <2>4. src_status' = [src_status EXCEPT ![req_sources[b]] = "DONE"]
      BY <1>5 DEF ReceiveLast
    <2>5. /\ src_status'[req_sources[b]] = "DONE"
          /\ \A x \in Source : src_status'[x] # "DONE" => src_status[x] # "DONE"
      BY <2>2, <2>4 DEF IInv, TypeOK
    <2>6. QED
      BY <2>3, <2>5, TakenFromDone
  <1>6. ASSUME CancelAndRepost PROVE AllListened'
    <2>1. cursor \in Buffer /\ src_status' = src_status
      BY <1>6, BufferCountPositive DEF CancelAndRepost, IInv, TypeOK, Buffer, srcVars
    <2>2. CASE req_sources[cursor] = doneSrc
      <3>1. PICK b \in Buffer : b = cursor
        BY <2>1
      <3>2. src_status'[req_sources[b]] = "DONE"
        BY <1>6, <2>1, <2>2, <3>1 DEF CancelAndRepost, IInv, RepostInv
      <3>3. \A c \in Buffer : c # b => req_sources'[c] = req_sources[c]
        BY <1>6, <2>2, <3>1 DEF CancelAndRepost, PostNextOrRetire, Post, bufVars, IInv, TypeOK
      <3>4. QED
        BY <2>1, <3>2, <3>3, TakenFromDone
    <2>3. CASE req_sources[cursor] # doneSrc
      BY <1>1, <1>6, <2>1, <2>3 DEF CancelAndRepost, bufVars
    <2>4. QED
      BY <2>2, <2>3
  <1>7. CASE EndRepost \/ Destroy \/ Terminated \/ UNCHANGED vars
    BY <1>1, <1>7 DEF EndRepost, Destroy, Terminated, vars, bufVars, srcVars
  <1>8. QED
    BY <1>2, <1>3, <1>4, <1>5, <1>6, <1>7 DEF Next, Receiver, Sender

\* With at least as many buffers as sources, every active source is always
\* listened to, so that no source waits for another one to finish.
THEOREM EverySourceHeard ==
  ASSUME BufferCount >= SrcCount
  PROVE  Spec => []EverySourceListened
  <1>1. Init => AllListened
    <2> SUFFICES ASSUME Init, NEW s \in Source PROVE \E b \in Buffer : req_sources[b] = s
      BY DEF AllListened
    <2>1. s \in Buffer /\ s % SrcCount = s
      BY RHandlesAssumption DEF Source, Buffer
    <2>2. QED
      BY <2>1 DEF Init
  <1>2. AllListened => EverySourceListened
    BY DEF AllListened, EverySourceListened
  <1>3. QED
    BY <1>1, <1>2, NextAllListened, Inductive, PTL DEF Spec

-----------------------------------------------------------------------------
(* Refinement of FragmentStream.                                           *)

\* A source is DONE exactly when it ended and all its messages were returned.
DoneIsComplete ==
  \A s \in Source : src_status[s] = "DONE" <=> ended[s] /\ delivered[s] = 1 .. issued[s]

\* A source is DONE exactly when the stream is closed and complete.
LEMMA DoneIff == IInv => DoneIsComplete
  <1> SUFFICES ASSUME IInv, NEW s \in Source
               PROVE  src_status[s] = "DONE" <=> ended[s] /\ delivered[s] = 1 .. issued[s]
    BY DEF DoneIsComplete
  <1>1. CASE src_status[s] = "DONE"
    BY <1>1, DoneComplete DEF DoneMeansAllDelivered
  <1>2. SUFFICES ASSUME ended[s], delivered[s] = 1 .. issued[s] PROVE src_status[s] = "DONE"
    BY <1>1
  <1>3. issued[s] \in Nat /\ issued[s] >= 1
    BY <1>2, RHandlesAssumption DEF IInv, TypeOK, CountInv
  <1>4. src_status[s] # "SENDING" /\ expected_count[s] = issued[s] - 1
    BY <1>2, <1>3 DEF IInv, CountInv
  <1>5. DataDelivered(s) = 1 .. (issued[s] - 1)
    BY <1>2, <1>3 DEF DataDelivered
  <1>6. Cardinality(1 .. (issued[s] - 1)) = issued[s] - 1
    BY <1>3, FS_Interval
  <1>7. recv_frag_count[s] = expected_count[s]
    BY <1>4, <1>5, <1>6 DEF IInv, CountInv
  <1>8. QED
    BY <1>4, <1>7 DEF IInv, CountInv, TypeOK, SourceStatus

\* The same after a step.
LEMMA DoneIffNext == IInv' => DoneIsComplete'
  BY DoneIff, PTL

\* Accounting for one message is a HandOver of the stream.
LEMMA HandOverRefines ==
  ASSUME IInv, IInv', NEW b \in Buffer, content[b] # 0, Account(b), UNCHANGED netVars,
         NEW st \in SourceStatus, src_status' = [src_status EXCEPT ![req_sources[b]] = st]
  PROVE  \E s \in Source : Stream!HandOver(s)
  <1>1. PICK s \in Source, k \in Nat :
           /\ s = req_sources[b] /\ k = content[b]
           /\ k \in 1 .. issued[s]
           /\ k \notin delivered[s]
    BY HeldIsActive, RHandlesAssumption DEF IInv, TypeOK
  <1>2. delivered' = [delivered EXCEPT ![s] = @ \cup {k}]
    BY <1>1 DEF Account
  <1>3. issued' = issued /\ ended' = ended
    BY DEF netVars
  <1> DEFINE finished == [x \in Source |-> src_status[x] = "DONE"]
  <1>4. finished' = [finished EXCEPT ![s] = ended[s] /\ delivered'[s] = 1 .. issued[s]]
    <2>1. src_status'[s] = "DONE" <=> ended[s] /\ delivered'[s] = 1 .. issued[s]
      BY <1>3, DoneIffNext DEF DoneIsComplete
    <2>2. \A x \in Source : x # s => src_status'[x] = src_status[x]
      BY <1>1 DEF IInv, TypeOK
    <2>3. QED
      BY <2>1, <2>2
  <1>5. QED
    BY <1>1, <1>2, <1>3, <1>4 DEF Stream!HandOver

\* Every step of the receiver is a step or a stutter of the stream.
LEMMA StepRefines == IInv /\ IInv' /\ [Next]_vars => [Stream!Next]_(Stream!vars)
  <1> SUFFICES ASSUME IInv, IInv', [Next]_vars PROVE [Stream!Next]_(Stream!vars)
    OBVIOUS
  <1>1. ASSUME NEW s \in Source, SendFragment(s) PROVE Stream!Send(s)
    BY <1>1 DEF SendFragment, Stream!Send, srcVars
  <1>2. ASSUME NEW s \in Source, SendEOD(s) PROVE Stream!Close(s)
    BY <1>2 DEF SendEOD, Stream!Close, srcVars
  <1>3. ASSUME NEW b \in Buffer, ReceiveMore(b) PROVE \E s \in Source : Stream!HandOver(s)
    <2>1. content[b] # 0
      BY <1>3, ArrivedHolds DEF ReceiveMore
    <2>2. StatusSeen(b) \in SourceStatus
      BY <2>1, HeldIsActive DEF StatusSeen, IInv, TypeOK, SourceStatus
    <2>3. QED
      BY <1>3, <2>1, <2>2, HandOverRefines DEF ReceiveMore
  <1>4. ASSUME NEW b \in Buffer, ReceiveLast(b) PROVE \E s \in Source : Stream!HandOver(s)
    <2>1. content[b] # 0
      BY <1>4, ArrivedHolds DEF ReceiveLast
    <2>2. "DONE" \in SourceStatus
      BY DEF SourceStatus
    <2>3. QED
      BY <1>4, <2>1, <2>2, HandOverRefines DEF ReceiveLast
  <1>5. ASSUME UNCHANGED <<issued, ended, delivered, src_status>> PROVE UNCHANGED Stream!vars
    BY <1>5 DEF Stream!vars
  <1>6. ASSUME NEW s \in Source, Match(s) PROVE UNCHANGED Stream!vars
    BY <1>5, <1>6 DEF Match, srcVars
  <1>7. ASSUME NEW b \in Buffer, Complete(b) PROVE UNCHANGED Stream!vars
    BY <1>5, <1>7 DEF Complete, netVars, srcVars
  <1>8. CASE CancelAndRepost \/ EndRepost \/ Destroy \/ Terminated \/ UNCHANGED vars
    BY <1>5, <1>8 DEF CancelAndRepost, EndRepost, Destroy, Terminated, vars, netVars, srcVars
  <1>9. QED
    BY <1>1, <1>2, <1>3, <1>4, <1>6, <1>7, <1>8 DEF Next, Receiver, Sender, Stream!Next

\* The receiver implements the reliable stream: each message is returned once,
\* and a source is DONE exactly when the stream is closed and complete.
THEOREM ImplementsStream == Spec => StreamSpec
  <1>1. Init => Stream!Init
    <2> SUFFICES ASSUME Init PROVE Stream!Init
      OBVIOUS
    <2>1. [s \in Source |-> src_status[s] = "DONE"] = [s \in Source |-> FALSE]
      BY DEF Init
    <2>2. QED
      BY <2>1 DEF Init, Stream!Init
  <1>2. QED
    BY <1>1, StepRefines, Inductive, PTL DEF Spec, StreamSpec, Stream!Spec
=============================================================================
