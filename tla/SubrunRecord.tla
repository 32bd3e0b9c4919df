---------------------------- MODULE SubrunRecord ----------------------------
(***************************************************************************)
(* What an art job owes to those who read its output, whatever its source  *)
(* does: subruns are begun in the order in which they were taken and never *)
(* again once they have ended; an event is recorded once, while its own    *)
(* subrun is the current one.                                              *)
(***************************************************************************)
EXTENDS Integers

CONSTANT None  \* no subrun

VARIABLES
  current,   \* the subrun that is being recorded, a pair of numbers, or None
  ended,     \* the subruns that have ended
  recorded   \* place -> event: the events recorded, which have a field subrun, in order

vars == <<current, ended, recorded>>

Init == current = None /\ ended = {} /\ DOMAIN recorded = {}

Before(s, t) == s[1] < t[1] \/ (s[1] = t[1] /\ s[2] < t[2])

\* The current subrun goes on or ends; the next may begin at once.
Proceed ==
  \/ UNCHANGED <<current, ended>>
  \/ /\ current' # current
     /\ ended' = ended \cup ({current} \ {None})
     /\ current' # None => \A s \in ended' : Before(s, current')

Record ==
  \/ UNCHANGED recorded
  \/ \E at \in DOMAIN recorded' \ DOMAIN recorded :
       /\ DOMAIN recorded' = DOMAIN recorded \cup {at}
       /\ \A i \in DOMAIN recorded :
            i < at /\ recorded'[i] = recorded[i] /\ recorded'[i] # recorded'[at]
       /\ recorded'[at].subrun = current'

Next == Proceed /\ Record

Spec == Init /\ [][Next]_vars
=============================================================================
