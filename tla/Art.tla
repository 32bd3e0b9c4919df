-------------------------------- MODULE Art ---------------------------------
(***************************************************************************)
(* The part of art that the sources and outputs of this repository rely    *)
(* on: art hands the run and the subrun it is at to readNext, takes over   *)
(* what readNext makes, calls the output modules, and rejects what does    *)
(* not fit.  art itself is not in the repository; this is what the         *)
(* comments in NetMonInput_source.cc and RawEventQueueReader.cc and the    *)
(* tests of the latter say of it.                                          *)
(*                                                                         *)
(* Run and subrun numbers start at 1; 0 stands for the "flush" number of   *)
(* art, which is never written, and -1 for a principal that is not there.  *)
(***************************************************************************)
EXTENDS Integers, Sequences

VARIABLES
  inR, inSR,   \* the run, and <<run, subrun>>, that art is at; it keeps them when a file is closed
  open,        \* the subrun whose end the outputs have not been told of yet
  complained   \* art has thrown

artVars == <<inR, inSR, open, complained>>

None == -1
Flush == 0
NoSubrun == <<None, None>>
FlushSubrun == <<Flush, Flush>>
IsFlush(subrun) == subrun[2] = Flush

ArtTypeOK ==
  /\ inR \in Int
  /\ inSR \in Int \X Int
  /\ open = NoSubrun \/ open = inSR
  /\ complained \in BOOLEAN

ArtInit == inR = None /\ inSR = NoSubrun /\ open = NoSubrun /\ complained = FALSE

\* What readNext makes: a run and a subrun, or None and NoSubrun, and at most one
\* event.  (Flush events only accompany a subrun that is ended.)
Made(r, subrun, es) == [r |-> r, subrun |-> subrun, es |-> es]

\* A call of an output module.
write(e) == [call |-> "write", subrun |-> e.subrun, event |-> e.event]
writeSubRun(subrun) == [call |-> "writeSubRun", subrun |-> subrun]
EndOpen == IF open = NoSubrun THEN <<>> ELSE <<writeSubRun(open)>>

\* art complains of a new subrun that is the one it is at, and of an event that does
\* not belong to the subrun it is at.
At(made) == IF made.subrun = NoSubrun THEN inSR ELSE made.subrun
Rejected(made) ==
  \/ made.subrun # NoSubrun /\ made.subrun = inSR
  \/ \E i \in DOMAIN made.es : made.es[i].subrun # At(made)

\* The outputs are told of the end of one subrun and of the events of the next.
Calls(made) ==
  IF Rejected(made) THEN <<>>
  ELSE (IF made.subrun = NoSubrun THEN <<>> ELSE EndOpen)
       \o [i \in DOMAIN made.es |-> write(made.es[i])]

TakeOver(made) ==
  /\ complained' = Rejected(made)
  /\ IF Rejected(made) THEN UNCHANGED <<inR, inSR, open>>
     ELSE /\ inR' = IF made.r = None THEN inR ELSE made.r
          /\ inSR' = At(made)
          /\ open' = CASE made.subrun = NoSubrun -> open
                       [] IsFlush(made.subrun) -> NoSubrun
                       [] OTHER -> made.subrun

\* readNext returned false: the file is closed, which ends the subrun, or the job ends.
CloseFile == open' = NoSubrun /\ UNCHANGED <<inR, inSR, complained>>
=============================================================================
