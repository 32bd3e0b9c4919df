--------------------------- MODULE FragmentStream ---------------------------
(***************************************************************************)
(* What one receiver promises about the messages of its sources, whatever  *)
(* its buffers do: every message is handed over at most once, in any       *)
(* order, and a source is declared finished only when it has closed its    *)
(* stream and everything it sent has been handed over.                     *)
(***************************************************************************)
EXTENDS Integers

CONSTANTS Source, MaxFragments

VARIABLES
  sent,     \* per source: number of messages sent, the closing one included
  closed,   \* per source: the closing message has been sent
  got,      \* per source: messages handed over
  finished  \* per source: declared finished

vars == <<sent, closed, got, finished>>

Init ==
  /\ sent = [s \in Source |-> 0]
  /\ closed = [s \in Source |-> FALSE]
  /\ got = [s \in Source |-> {}]
  /\ finished = [s \in Source |-> FALSE]

Send(s) ==
  /\ ~closed[s]
  /\ sent[s] < MaxFragments
  /\ sent' = [sent EXCEPT ![s] = @ + 1]
  /\ UNCHANGED <<closed, got, finished>>

Close(s) ==
  /\ ~closed[s]
  /\ sent' = [sent EXCEPT ![s] = @ + 1]
  /\ closed' = [closed EXCEPT ![s] = TRUE]
  /\ UNCHANGED <<got, finished>>

\* Hand over one message; the source is finished exactly when that was the last.
HandOver(s) ==
  /\ \E n \in (1 .. sent[s]) \ got[s] : got' = [got EXCEPT ![s] = @ \cup {n}]
  /\ finished' = [finished EXCEPT ![s] = closed[s] /\ got'[s] = 1 .. sent[s]]
  /\ UNCHANGED <<sent, closed>>

Next == \E s \in Source : Send(s) \/ Close(s) \/ HandOver(s)

Spec == Init /\ [][Next]_vars
=============================================================================
