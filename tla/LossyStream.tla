---------------------------- MODULE LossyStream ----------------------------
(***************************************************************************)
(* What the online monitor is promised about the fragments that the data   *)
(* logger copies to shared memory: any of them may be missing, but those   *)
(* that come do so once, in the order of the copies, and none that was     *)
(* copied before the monitor attached comes after it.                      *)
(***************************************************************************)
EXTENDS Naturals

VARIABLES
  copied,  \* number of fragments copied
  since,   \* value of copied when the reader last attached
  last,    \* index of the last fragment taken
  takes    \* number of fragments taken

vars == <<copied, since, last, takes>>

Init == copied = 0 /\ since = 0 /\ last = 0 /\ takes = 0

Copy ==
  /\ copied' = copied + 1
  /\ UNCHANGED <<since, last, takes>>

Attach ==
  /\ since' = copied
  /\ UNCHANGED <<copied, last, takes>>

Take ==
  /\ \E i \in since + 1 .. copied : last < i /\ last' = i
  /\ takes' = takes + 1
  /\ UNCHANGED <<copied, since>>

Next == Copy \/ Attach \/ Take

Spec == Init /\ [][Next]_vars
=============================================================================
