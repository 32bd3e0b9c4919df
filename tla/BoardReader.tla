----------------------------- MODULE BoardReader -----------------------------
(***************************************************************************)
(* artdaq/Application/MPI2/BoardReaderCore, driven by BoardReaderApp: the  *)
(* thread that carries out the commands, and the process_fragments thread, *)
(* which takes fragments from a generator and sends them with SHandles.    *)
(*                                                                         *)
(* The generator is a CommandableFragmentGenerator, or a CompositeDriver of *)
(* several.  getNext_ and the locked part of StopCmd and PauseCmd exclude  *)
(* each other by the generator's mutex and are one step each; under it, no *)
(* one contends for the mutexes of a CompositeDriver's children.  The flags *)
(* should_stop_ and exception_ of a CompositeDriver have no effect but the *)
(* sleep between two calls; those kept here are its children's.            *)
(*                                                                         *)
(* What the hooks of an experiment's generator do (getNext_, start, stop,  *)
(* pause, resume) is free within what CommandableFragmentGenerator.hh asks: *)
(* once should_stop_ is set getNext_ returns what is left, or false.  Any of *)
(* them may throw.                                                         *)
(***************************************************************************)
EXTENDS SHandles

CONSTANTS
  Children,    \* generators of the CompositeDriver
  MaxFragment, \* bound: no fragment is made once so many have been taken
  MaxSession   \* bound: process_fragments threads

ASSUME BoardReaderAssumption ==
  /\ Children \in Nat \ {0}
  /\ MaxFragment \in Nat
  /\ MaxSession \in Nat

VARIABLES
  composite,    \* whether the generator is a CompositeDriver
  should_stop, exception, ev_counter,  \* per generator
  generator_active,  \* generator_active_list_
  state,        \* of the state machine
  cmd,          \* the command that is carried out, or "idle"
  run,          \* run_id_
  session,      \* process_fragments threads started
  pc,           \* the process_fragments thread
  sender,       \* sender_ptr_ is not null
  frags,        \* fragments of the last getNext, still to be sent
  taken,        \* fragments from calls in which some generator was active (history)
  overlarge     \* those lost with one that was too large (history)

genVars == <<composite, should_stop, exception, ev_counter, generator_active>>
cmdVars == <<state, cmd, run, session>>
threadVars == <<pc, sender, frags>>
history == <<taken, overlarge>>
vars == <<sendVars, genVars, cmdVars, threadVars, history>>

Generator == 1 .. Children
InUse == IF composite THEN Generator ELSE {1}

TypeOK ==
  /\ SendTypeOK
  /\ composite \in BOOLEAN
  /\ should_stop \in [Generator -> BOOLEAN] /\ exception \in [Generator -> BOOLEAN]
  /\ ev_counter \in [Generator -> Nat]
  /\ generator_active \in [Generator -> BOOLEAN]
  /\ state \in {"Ready", "Running", "Paused", "InRun"}
  /\ cmd \in {"idle", "stop", "pause", "stop_join", "pause_join", "init"}
  /\ run \in Nat /\ session \in 0 .. MaxSession
  /\ pc \in {"none", "begin", "old_eod", "next", "send", "eod", "ended", "threw"}
  /\ sender \in BOOLEAN
  /\ frags \in Seq(Message) /\ taken \in Seq(Message)
  /\ overlarge \subseteq Message

Init ==
  /\ SHandlesInit
  /\ composite \in BOOLEAN
  /\ should_stop = [c \in Generator |-> FALSE] /\ exception = [c \in Generator |-> FALSE]
  /\ ev_counter = [c \in Generator |-> 1]
  /\ generator_active = [c \in Generator |-> FALSE]
  /\ state = "Ready" /\ cmd = "idle" /\ run = 0 /\ session = 0
  /\ pc = "none" /\ sender = FALSE /\ frags = <<>>
  /\ taken = <<>> /\ overlarge = {}

-----------------------------------------------------------------------------
\* The commands of the generators.

\* The generators a CompositeDriver has called when one throws, or none does.
CalledInOrder == {{c \in InUse : c <= k} : k \in InUse}
CalledInReverse == {{c \in InUse : c >= k} : k \in InUse}

Tell(called, flag) == [c \in Generator |-> IF c \in called THEN flag ELSE should_stop[c]]

StartCmd(called) ==
  /\ should_stop' = Tell(called, FALSE)
  /\ exception' = [c \in Generator |-> c \notin called /\ exception[c]]
  /\ ev_counter' = [c \in Generator |-> IF c \in called THEN 1 ELSE ev_counter[c]]
  /\ generator_active' = [c \in Generator |-> TRUE]
  /\ UNCHANGED composite

ResumeCmd(called) ==
  /\ should_stop' = Tell(called, FALSE)
  /\ generator_active' = [c \in Generator |-> TRUE]
  /\ UNCHANGED <<composite, exception, ev_counter>>

\* StopCmd and PauseCmd before they lock the mutex.
StopUnlocked ==
  /\ should_stop' = IF composite THEN should_stop ELSE Tell({1}, TRUE)
  /\ UNCHANGED <<composite, exception, ev_counter, generator_active>>

\* Mutant: the flag is left to the implementation of stop.
StopLockedFlagless(called) == UNCHANGED genVars

\* The same, with the mutex: a CompositeDriver calls its children, the last one first.
StopLocked(called) ==
  /\ should_stop' = Tell(called, TRUE)
  /\ UNCHANGED <<composite, exception, ev_counter, generator_active>>

-----------------------------------------------------------------------------
\* The commands of BoardReaderApp.

\* The thread is launched unless the last generator called throws.
Launch(called, next) ==
  /\ cmd = "idle"
  /\ session < MaxSession
  /\ \/ UNCHANGED <<cmdVars, pc>>
     \/ /\ called = InUse
        /\ state' = "Running"
        /\ run' = next
        /\ session' = session + 1
        /\ pc' = "begin"
        /\ UNCHANGED cmd

Start ==
  /\ state = "Ready"
  /\ \E called \in CalledInOrder : StartCmd(called) /\ Launch(called, run + 1)
  /\ UNCHANGED <<sendVars, sender, frags, history>>

Resume ==
  /\ state = "Paused"
  /\ \E called \in CalledInOrder : ResumeCmd(called) /\ Launch(called, run)
  /\ UNCHANGED <<sendVars, sender, frags, history>>

StopOrPause ==
  /\ cmd = "idle"
  /\ \/ state \in {"Running", "Paused", "InRun"} /\ cmd' = "stop" /\ state' = "InRun"
     \/ state = "Running" /\ cmd' = "pause" /\ UNCHANGED state
  /\ StopUnlocked
  /\ UNCHANGED <<sendVars, run, session, threadVars, history>>

\* The locked part is done, or threw.
Told ==
  /\ cmd \in {"stop", "pause"}
  /\ \E called \in CalledInReverse :
       /\ StopLocked(called)
       /\ \/ cmd' = "idle"
          \/ called = InUse /\ cmd' = IF cmd = "stop" THEN "stop_join" ELSE "pause_join"
  /\ UNCHANGED <<sendVars, state, run, session, threadVars, history>>

\* get(), if the future is valid; it throws what process_fragments threw.
Join ==
  /\ cmd \in {"stop_join", "pause_join"}
  /\ pc \in {"none", "ended", "threw"}
  /\ pc' = "none"
  /\ cmd' = "idle"
  /\ state' = CASE pc = "threw" -> state
                [] cmd = "stop_join" -> "Ready"
                [] OTHER -> "Paused"
  /\ UNCHANGED <<sendVars, genVars, run, session, sender, frags, history>>

\* init destroys the Core, and with it a sender that a thread that threw has left,
\* and makes a new generator.
BeginInit ==
  /\ cmd = "idle" /\ state = "Ready"
  /\ sender
  /\ cmd' = "init"
  /\ sendEODFrags
  /\ UNCHANGED <<genVars, state, run, session, threadVars, history>>

EndInit ==
  /\ cmd = "init"
  /\ Destroyed
  /\ cmd' = "idle"
  /\ sender' = FALSE
  /\ should_stop' = [c \in Generator |-> FALSE] /\ exception' = [c \in Generator |-> FALSE]
  /\ ev_counter' = [c \in Generator |-> 1]
  /\ UNCHANGED <<sendVars, composite, generator_active, state, run, session, pc, frags, history>>

-----------------------------------------------------------------------------
\* process_fragments.

\* A new sender; the one a thread that threw has left is destroyed first.
Begin ==
  /\ pc = "begin"
  /\ IF sender THEN sendEODFrags /\ pc' = "old_eod" ELSE NewSHandles /\ pc' = "next"
  /\ sender' = TRUE
  /\ UNCHANGED <<genVars, cmdVars, frags, history>>

OldDestroyed ==
  /\ pc = "old_eod"
  /\ Destroyed
  /\ NewSHandles
  /\ pc' = "next"
  /\ UNCHANGED <<genVars, cmdVars, sender, frags, history>>

\* What getNext of one generator can do: return true with a fragment or without, or
\* false; or getNext_ throws, before or after it has appended a fragment.
Outcome(c) ==
  IF exception[c] THEN {"false"}
  ELSE {"false", "throw"} \cup (IF should_stop[c] THEN {} ELSE {"nothing"})
         \cup (IF Len(taken) < MaxFragment THEN {"fragment", "fragment_throw"} ELSE {})

Appends == {"fragment", "fragment_throw"}
Active == {"fragment", "nothing"}

\* Mutant: the status of the last generator stands for all.
anyActiveLast(outcome) == outcome[CHOOSE c \in DOMAIN outcome : \A d \in DOMAIN outcome : d <= c] \in Active

anyActive(outcome) == \E c \in DOMAIN outcome : outcome[c] \in Active

FragmentOf(c) == [eod |-> FALSE, run |-> run, from |-> c, n |-> ev_counter[c]]

\* The generators that are asked, and what each does.
Asked == IF composite THEN {c \in Generator : generator_active[c]} ELSE {1}
Outcomes ==
  {o \in [Asked -> {"false", "throw", "nothing", "fragment", "fragment_throw"}] :
     \A c \in Asked : o[c] \in Outcome(c)}

\* The generators that append a fragment, in the order in which they are asked.
InOrder(gens) ==
  {order \in [1 .. Cardinality(gens) -> gens] :
     \A i, j \in DOMAIN order : i < j => order[i] < order[j]}

Next_(outcome, order) ==
  LET new == [i \in DOMAIN order |-> FragmentOf(order[i])]
  IN
  /\ exception' = [c \in Generator |->
                     exception[c] \/ (c \in Asked /\ outcome[c] \in {"throw", "fragment_throw"})]
  /\ ev_counter' = [c \in Generator |-> IF c \in Asked /\ outcome[c] \in Appends
                                          THEN ev_counter[c] + 1 ELSE ev_counter[c]]
  /\ generator_active' = [c \in Generator |->
                            IF c \in Asked THEN outcome[c] \in Active ELSE generator_active[c]]
  /\ taken' = IF \E c \in Asked : outcome[c] \in Active THEN taken \o new ELSE taken
  /\ IF anyActive(outcome)
       THEN frags' = new /\ pc' = "send" /\ UNCHANGED <<sendVars>>
       ELSE sendEODFrags /\ pc' = "eod" /\ UNCHANGED frags
  /\ UNCHANGED <<composite, should_stop, overlarge>>

getNext ==
  /\ pc = "next"
  /\ \E outcome \in Outcomes :
       \E order \in InOrder({c \in Asked : outcome[c] \in Appends}) : Next_(outcome, order)
  /\ UNCHANGED <<cmdVars, sender>>

\* The next fragment of the vector is sent, or is larger than the limit.
SendNext ==
  /\ pc = "send"
  /\ SendDone
  /\ \/ /\ frags = <<>>
        /\ pc' = "next"
        /\ UNCHANGED <<sendVars, frags, overlarge>>
     \/ /\ frags # <<>>
        /\ sendFragment(Head(frags))
        /\ frags' = Tail(frags)
        /\ UNCHANGED <<pc, overlarge>>
     \/ /\ frags # <<>>
        /\ overlarge' = overlarge \cup ToSet(frags)
        /\ frags' = <<>>
        /\ pc' = "threw"
        /\ UNCHANGED sendVars
  /\ UNCHANGED <<genVars, cmdVars, sender, taken>>

\* sender_ptr_ is reset, and process_fragments returns.
End ==
  /\ pc = "eod"
  /\ Destroyed
  /\ sender' = FALSE
  /\ pc' = "ended"
  /\ UNCHANGED <<sendVars, genVars, cmdVars, frags, history>>

\* Within SHandles, on behalf of process_fragments or of init.
Sending == (TestBuffer \/ SendReturns) /\ UNCHANGED <<genVars, cmdVars, threadVars, history>>

Thread == Begin \/ OldDestroyed \/ getNext \/ SendNext \/ End \/ Sending
Command == Told \/ Join \/ EndInit
MPI == Transfer /\ UNCHANGED <<genVars, cmdVars, threadVars, history>>

Stopped == state = "Ready" /\ cmd = "idle" /\ session = MaxSession /\ UNCHANGED vars

Next == Start \/ Resume \/ StopOrPause \/ BeginInit \/ Command \/ Thread \/ MPI \/ Stopped

Spec == Init /\ [][Next]_vars

\* Both threads run, the mutex of the generator is obtained in the end, and the
\* receivers receive.
FairSpec == Spec /\ WF_vars(Thread) /\ WF_vars(Command) /\ WF_vars(MPI)

-----------------------------------------------------------------------------
\* Properties.

DataIn(messages) == {i \in DOMAIN messages : ~messages[i].eod}
EODs(messages) == {i \in DOMAIN messages : messages[i].eod}

\* An EOD announces exactly the data fragments given to its destination since the
\* EOD before it, even when it comes late, after a thread that threw.
EODAnnouncesItsData ==
  \A d \in Dest : \A i \in 1 .. Len(stream[d]) :
    stream[d][i].eod =>
      stream[d][i].n = i - 1 - Max({0} \cup {j \in 1 .. i - 1 : stream[d][j].eod})

\* Every fragment from a generator is given to its destination once and in order, or
\* is still to be sent; lost are only those that come in one vector with a fragment
\* that is too large, from that one on.  at[j] is the place among the fragments taken
\* of the one that was given to MPI as the j-th message.
EveryFragmentSent ==
  \A d \in Dest : \E at \in [DataIn(stream[d]) -> DOMAIN taken] :
    /\ \A j \in DataIn(stream[d]) : taken[at[j]] = stream[d][j]
    /\ \A j, k \in DataIn(stream[d]) : j < k => at[j] < at[k]
    /\ \A i \in DOMAIN taken : d \in Destinations(taken[i]) =>
         \/ \E j \in DataIn(stream[d]) : at[j] = i
         \/ taken[i] \in overlarge \cup ToSet(frags)
         \/ [to |-> d, msg |-> taken[i]] \in ToSet(outbox)

\* MPI reads a message as it was given to it: no buffer is used again too early.
CarriedAsGiven ==
  \A d \in Dest : \A i \in 1 .. Len(carried[d]) :
    \/ carried[d][i] = stream[d][i]
    \/ carried[d][i] = NoMessage /\ \E r \in inflight : r.to = d /\ r.nth = i

\* When no thread is left, each destination has had one EOD for each session, but for
\* that of a thread that threw, and MPI has nothing left to do unless one threw.
SessionsClosed ==
  pc = "none" /\ cmd = "idle" =>
    /\ \A d \in Dest : Cardinality(EODs(stream[d])) = session - (IF sender THEN 1 ELSE 0)
    /\ sender \/ inflight = {}

\* Every command comes to an end, whatever threw before: a stop that succeeds has told
\* every generator, so that process_fragments ends.
CommandsReturn == cmd # "idle" ~> cmd = "idle"
=============================================================================
