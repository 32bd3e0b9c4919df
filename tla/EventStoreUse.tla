--------------------------- MODULE EventStoreUse ----------------------------
(***************************************************************************)
(* The event store under a caller that uses it as EventBuilderCore does    *)
(* when no receive is cut short: a run is started; fragments are inserted  *)
(* with the insert method that may reject them; the store is flushed; the  *)
(* subrun is ended and either the next subrun is started or the run ended; *)
(* between runs the store may be shut down.  Fragments arrive in any order *)
(* and may come after the flush of their own subrun.                       *)
(***************************************************************************)
EXTENDS EventStore

CONSTANT MaxSubrun  \* bound: subruns per run

\* An event has room for all the fragments of its group of sequence IDs.
ASSUME GroupsFit == FragmentIDs * SeqIDModulus <= FragmentsPerEvent

VARIABLES
  client,       \* where the caller is
  runs,         \* number of runs started
  accepted,     \* fragments accepted by insert (history)
  flushFailed   \* some flushData returned false (history)

useVars == <<client, runs, accepted, flushFailed>>
vars == <<storeVars, useVars>>

TypeOK ==
  /\ StoreTypeOK
  /\ client \in {"idle", "running", "flushing", "flushed", "ended", "joining", "shutdown"}
  /\ runs \in 0 .. MaxRun
  /\ accepted \subseteq Fragment
  /\ flushFailed \in BOOLEAN

Init ==
  /\ StoreInit
  /\ client = "idle"
  /\ runs = 0
  /\ accepted = {}
  /\ flushFailed = FALSE

Goto(from, to) == client = from /\ client' = to

StartRun ==
  /\ Goto("idle", "running")
  /\ runs < MaxRun
  /\ runs' = runs + 1
  /\ startRun(runs + 1)
  /\ UNCHANGED <<accepted, flushFailed>>

\* A rejected fragment is offered again later: the caller is still "running".
InsertFragment(f) ==
  /\ client = "running"
  /\ f.run = run_id
  /\ f \notin accepted
  /\ InsertAccepted(f)
  /\ accepted' = accepted \cup {f}
  /\ UNCHANGED <<client, runs, flushFailed>>

BeginFlush == Goto("running", "flushing") /\ UNCHANGED <<storeVars, runs, accepted, flushFailed>>

FlushOne == client = "flushing" /\ FlushEvent /\ UNCHANGED useVars

EndFlush ==
  /\ Goto("flushing", "flushed")
  /\ FlushReturn
  /\ flushFailed' = (flushFailed \/ DOMAIN events # {})
  /\ UNCHANGED <<runs, accepted>>

\* A marker is tried three times; then the caller goes on without it.
EnqueueOrGiveUp(kind) == Enqueue(kind) \/ (Full /\ UNCHANGED storeVars)

EndSubrun ==
  /\ Goto("flushed", "ended")
  /\ EnqueueOrGiveUp("endSubrun")
  /\ UNCHANGED <<runs, accepted, flushFailed>>

StartSubrun ==
  /\ Goto("ended", "running")
  /\ subrun_id < MaxSubrun
  /\ startSubrun
  /\ UNCHANGED <<runs, accepted, flushFailed>>

EndRun ==
  /\ Goto("ended", "idle")
  /\ EnqueueOrGiveUp("endRun")
  /\ UNCHANGED <<runs, accepted, flushFailed>>

\* Mutant: the wait happens although the marker did not fit in the queue.
EndOfDataUnsent ==
  /\ Goto("idle", "joining")
  /\ EnqueueOrGiveUp("endOfData")
  /\ UNCHANGED <<runs, accepted, flushFailed>>

\* endOfData: the marker, then the wait for the reader thread.
EndOfData ==
  /\ Goto("idle", "joining")
  /\ Enqueue("endOfData")
  /\ UNCHANGED <<runs, accepted, flushFailed>>
JoinReader ==
  /\ Goto("joining", "shutdown")
  /\ ReaderDone
  /\ UNCHANGED <<storeVars, runs, accepted, flushFailed>>

Reader == Dequeue /\ UNCHANGED useVars

Terminated == client = "shutdown" /\ UNCHANGED vars

Caller ==
  \/ StartRun \/ BeginFlush \/ FlushOne \/ EndFlush
  \/ EndSubrun \/ StartSubrun \/ EndRun \/ EndOfData \/ JoinReader
Next ==
  \/ Caller
  \/ \E f \in Fragment : InsertFragment(f)
  \/ Reader
  \/ Terminated

Spec == Init /\ [][Next]_vars

-----------------------------------------------------------------------------
\* Properties.

\* A fragment accepted by the rejecting insert is never lost or duplicated,
\* although the room in the queue is tested before the fragment is added to its
\* event: each is in exactly one RawEvent, in the store, the queue or the reader.
NothingLost ==
  /\ accepted = UNION {ev.frags : ev \in RawEvents}
  /\ \A k \in DOMAIN events, i \in EnqueuedEvents : events[k].frags \cap Enqueued[i].frags = {}
  /\ \A i, j \in EnqueuedEvents : i # j => Enqueued[i].frags \cap Enqueued[j].frags = {}

\* As long as every flush has succeeded, events_ never brings together fragments
\* of two runs, or of different groups of sequence IDs: neither late fragments,
\* whose keys wrap around, nor the reset of the counters at a new run collide.
GroupedBySequence == ~flushFailed => \A ev \in RawEvents : SameRun(ev) /\ SameGroup(ev)

\* Conversely the fragments of one sequence ID are not spread over two events of
\* the same subrun: keys are stable until the next flush.
NotSplit ==
  ~flushFailed =>
    \A e1, e2 \in RawEvents :
      /\ e1 # e2
      /\ <<e1.run, e1.subrun>> = <<e2.run, e2.subrun>>
      => \A f \in e1.frags, g \in e2.frags : f.seq # g.seq

\* endOfData does not hang: it waits for the reader only after the reader has
\* been sent the marker that makes it return.
ShutdownReturns == client = "joining" ~> client = "shutdown"

\* A RawEvent holds the fragments of a single run, come what may.
SingleRunEvents == \A ev \in RawEvents : SameRun(ev)
=============================================================================
