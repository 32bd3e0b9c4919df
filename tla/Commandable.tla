----------------------------- MODULE Commandable -----------------------------
(***************************************************************************)
(* The command interface of a process: the state machine generated from    *)
(* artdaq/Application/Commandable.sm, class Commandable that drives it, and *)
(* the three applications that carry the commands out (BoardReaderApp,     *)
(* EventBuilderApp, AggregatorApp), each with its Core, the metric manager *)
(* of the Core and the future of its process_fragments thread.             *)
(*                                                                         *)
(* xmlrpc_commander carries out one command at a time: it takes its mutex  *)
(* with try_lock and answers "busy" when it is taken, which changes nothing.*)
(* A command is an order, the call into the Core, the launch of the        *)
(* process_fragments thread or the wait for it where there is one, and the *)
(* transition; the mutex is held from the order to the transition.         *)
(*                                                                         *)
(* A state machine without a transition for an event, or with guards that  *)
(* are all false, falls back on its Default, which is badTransition.  A    *)
(* command that throws is answered by its message; the machine then stays  *)
(* where it was when the guard was evaluated, which is after the pops.     *)
(***************************************************************************)
EXTENDS MetricManager, Naturals, Sequences, SequencesExt

VARIABLES
  app,        \* which application this process is
  fsm,        \* fsm_: the stack of states, the current one last
  executing,  \* the command that holds the commander's mutex, or "none"
  returned,   \* the Core has done its part; what is left concerns the thread
  external_request_status,
  report_string,  \* "": nothing outstanding; "OK", "error", "invalid"
  core,       \* the Core: "null", "blank" (not initialized), "ready", "over" (shut down)
  thread,     \* the future: "none" (not valid), "running", "ended", or "threw"
  endRequested, \* stop_requested_ or pause_requested_ (a resume never follows a stop)
  died,       \* "store", "plugin": such a null pointer was used, which is undefined,
              \* taken as the end of the process; or "no"
  initFailed, shutDown, \* some initialize failed or threw; some shutdown succeeded (history)
  renewed     \* a Core was shut down, or initialized a second time (history)

answer == <<external_request_status, report_string>>
commandVars == <<fsm, executing, returned, answer>>
history == <<initFailed, shutDown, renewed>>
vars == <<app, commandVars, core, thread, endRequested, died, history, metricVars>>

Apps == {"BoardReader", "EventBuilder", "Aggregator"}
Commands == {"init", "start", "stop", "pause", "resume", "shutdown", "soft_init", "reinit"}
States == {"Booted", "Initialized", "Ready", "InRun", "Running", "Paused"}

\* The stacks of the state machine, by their top.
Booted == <<"Booted">>
Initialized == <<"Initialized">>
Ready == <<"Initialized", "Ready">>
InRun == <<"Initialized", "InRun">>
Running == <<"Initialized", "InRun", "Running">>
Paused == <<"Initialized", "InRun", "Paused">>

TypeOK ==
  /\ app \in Apps
  /\ fsm \in {Booted, Initialized, Ready, InRun, Running, Paused}
  /\ executing \in Commands \cup {"none"}
  /\ returned \in BOOLEAN
  /\ external_request_status \in BOOLEAN
  /\ report_string \in {"", "OK", "error", "invalid"}
  /\ core \in {"null", "blank", "ready", "over"}
  /\ thread \in {"none", "running", "ended", "threw"}
  /\ endRequested \in BOOLEAN
  /\ died \in {"no", "store", "plugin"}
  /\ initFailed \in BOOLEAN /\ shutDown \in BOOLEAN /\ renewed \in BOOLEAN
  /\ MetricsTypeOK

Init ==
  /\ app \in Apps
  /\ fsm = Booted
  /\ executing = "none" /\ returned = FALSE
  /\ external_request_status = TRUE /\ report_string = ""
  /\ core = "null" /\ thread = "none" /\ endRequested = FALSE /\ died = "no"
  /\ initFailed = FALSE /\ shutDown = FALSE /\ renewed = FALSE
  /\ MetricsInit

-----------------------------------------------------------------------------
\* The state machine.

\* Mutant: Ready handles a shutdown itself, as Booted does.
PoppedToInitOnly(c) ==
  IF \/ Last(fsm) = "Ready" /\ c = "init"
     \/ Last(fsm) \in {"Running", "Paused"} /\ c = "stop"
  THEN Front(fsm) ELSE fsm

\* The stack once the pop transitions of a command are done.
Popped(c) ==
  IF \/ Last(fsm) = "Ready" /\ c \in {"init", "shutdown"}
     \/ Last(fsm) \in {"Running", "Paused"} /\ c = "stop"
  THEN Front(fsm) ELSE fsm

\* The commands for which a state has a transition guarded by do_<command>.
Guarded ==
  [Booted |-> {"init"}, Initialized |-> {"init", "shutdown"}, Ready |-> {"start"},
   InRun |-> {"stop"}, Running |-> {"pause"}, Paused |-> {"resume"}]

\* The commands for which a state has a transition without a guard.
Unguarded(state) ==
  CASE state = "Booted" -> {"shutdown"}
    [] state = "Ready" -> {"soft_init"}
    [] OTHER -> {}

Accepts(c) ==
  LET state == Last(Popped(c)) IN c \in Guarded[state] \cup Unguarded(state)

\* Mutant: a pause pushes its state where it should replace the current one.
TargetPush(c) ==
  CASE c \in {"init", "stop"} -> Ready
    [] c \in {"start", "resume"} -> Running
    [] c = "pause" -> Append(fsm, "Paused")
    [] c = "shutdown" -> Booted

\* Where a guard that is true leads.
Target(c) ==
  CASE c \in {"init", "stop"} -> Ready
    [] c \in {"start", "resume"} -> Running
    [] c = "pause" -> Paused
    [] c = "shutdown" -> Booted

badTransition == external_request_status' = FALSE /\ report_string' = "invalid"

\* The entry action of Booted: only the board reader destroys its Core.
BootedEnter ==
  IF app = "BoardReader" THEN core' = "null" /\ destroyed ELSE UNCHANGED <<core, metricVars>>

-----------------------------------------------------------------------------
\* Commandable: an order arrives while none is carried out.

Alive == died = "no"

Order(c) ==
  /\ Alive
  /\ executing = "none"
  /\ fsm' = Popped(c)
  /\ LET state == Last(Popped(c)) IN
       \/ /\ c \in Guarded[state]
          /\ executing' = c
          /\ external_request_status' = TRUE
          /\ report_string' = ""
          /\ UNCHANGED <<core, metricVars>>
       \/ /\ c \in Unguarded(state)
          /\ external_request_status' = TRUE
          /\ report_string' = IF c = "shutdown" \/ app = "Aggregator" THEN "OK" ELSE ""
          /\ IF c = "shutdown" THEN BootedEnter ELSE UNCHANGED <<core, metricVars>>
          /\ UNCHANGED executing
       \/ /\ ~Accepts(c)
          /\ badTransition
          /\ UNCHANGED <<executing, core, metricVars>>
  /\ UNCHANGED <<app, returned, thread, endRequested, died, history>>

legal_commands ==
  CASE Last(fsm) = "Ready" -> {"init", "soft_init", "start", "shutdown"}
    [] Last(fsm) = "Running" -> {"pause", "stop"}
    [] Last(fsm) = "Paused" -> {"resume", "stop"}
    [] OTHER -> {"init", "shutdown"}

-----------------------------------------------------------------------------
\* The end of a command: the guard has its value, or threw.

Release == executing' = "none" /\ returned' = FALSE

Succeed == fsm' = Target(executing) /\ Release /\ UNCHANGED answer
Throw == Release /\ UNCHANGED <<fsm, answer>>

\* A failing init leads to Booted, or stays there.
FailInit ==
  /\ fsm' = Booted
  /\ Release
  /\ external_request_status' = FALSE /\ report_string' = "error"

\* A failing shutdown falls back on the Default of its map.
FailShutdown == badTransition /\ Release /\ UNCHANGED fsm

\* A null pointer to what is used.
Die(what) == died' = what /\ UNCHANGED <<commandVars, core, thread, endRequested, history, metricVars>>

-----------------------------------------------------------------------------
\* do_initialize, with the initialize method of each Core.  It fails when a parameter
\* is missing, when the generator cannot be made, or when the configuration of art was
\* changed, before or after the metrics are initialized; it throws when a parameter
\* with a default is of the wrong type, or the event store cannot be made, after it.

Outcomes == {"succeeds", "fails", "throws"}

\* An initialize that throws leaves the machine where the pops have led it.
InitReturns(outcome) ==
  /\ initFailed' = (initFailed \/ outcome # "succeeds")
  /\ \/ outcome = "succeeds" /\ Succeed
     \/ outcome = "fails" /\ FailInit
     \/ outcome = "throws" /\ Throw

CoreMade(outcome) == IF outcome = "succeeds" THEN "ready" ELSE "blank"

\* Mutant: the old Core is kept.
BoardReaderInitializeOld ==
  /\ app = "BoardReader"
  /\ UNCHANGED <<died, renewed>>
  /\ \E outcome \in Outcomes :
       /\ InitReturns(outcome)
       /\ IF core = "null" THEN core' = CoreMade(outcome) /\ initialize
                           ELSE UNCHANGED <<core, metricVars>>

\* A new Core each time; Booted, if a failure enters it, destroys it again.
BoardReaderInitialize ==
  /\ app = "BoardReader"
  /\ UNCHANGED <<died, renewed>>
  /\ \E outcome \in Outcomes :
       /\ InitReturns(outcome)
       /\ \/ /\ outcome # "fails" \/ fsm = Booted
             /\ core' = CoreMade(outcome) /\ initializeNew
          \/ /\ outcome = "fails"
             /\ core' = (IF fsm = Booted THEN "blank" ELSE "null") /\ destroyed

\* A Core that exists is taken as it is, and the parameters are not looked at.
EventBuilderInitialize ==
  /\ app = "EventBuilder"
  /\ UNCHANGED <<died, renewed>>
  /\ \/ core = "null" /\ \E outcome \in Outcomes :
          /\ core' = CoreMade(outcome) /\ InitReturns(outcome)
          /\ initialize \/ (outcome = "fails" /\ UNCHANGED metricVars)
     \/ core # "null" /\ InitReturns("succeeds") /\ UNCHANGED <<core, metricVars>>

\* A Core that exists is initialized again; its event store, once made, stays.
AggregatorInitialize ==
  /\ app = "Aggregator"
  /\ \/ shutdown_dies /\ Die("plugin")
     \/ \E outcome \in Outcomes :
          /\ core' = IF core \in {"null", "blank"} THEN CoreMade(outcome) ELSE core
          /\ InitReturns(outcome)
          /\ initialize \/ (outcome = "fails" /\ UNCHANGED metricVars)
          /\ renewed' = (renewed \/ core # "null")
          /\ UNCHANGED died

Initialize ==
  /\ executing = "init"
  /\ BoardReaderInitialize \/ EventBuilderInitialize \/ AggregatorInitialize
  /\ UNCHANGED <<app, thread, endRequested, shutDown>>

-----------------------------------------------------------------------------
\* do_start and do_resume.

\* The generator's own start and resume may throw, before the metrics are started.
StartThrows ==
  /\ app = "BoardReader"
  /\ Throw
  /\ endRequested' = FALSE
  /\ UNCHANGED <<core, thread, died, metricVars>>

\* Mutant: a resume does not start the metrics that the pause has stopped.
StartCoreNoResume ==
  /\ core # "blank" /\ ~do_start_dies
  /\ IF executing = "start" THEN do_start ELSE UNCHANGED metricVars
  /\ endRequested' = FALSE
  /\ returned' = TRUE
  /\ UNCHANGED <<fsm, executing, answer, core, thread, died>>

StartCore ==
  /\ core # "blank"
  /\ do_start
  /\ endRequested' = FALSE
  /\ returned' = TRUE
  /\ UNCHANGED <<fsm, executing, answer, core, thread, died>>

StartDies ==
  \/ core = "blank" /\ Die("store")
  \/ core # "blank" /\ do_start_dies /\ Die("plugin")

\* The assignment to the future waits for a thread it still refers to.  The
\* constructor of RHandles may throw, at the entry of process_fragments.
Launch ==
  /\ thread # "running"
  /\ thread' \in IF app = "BoardReader" THEN {"running"} ELSE {"running", "threw"}
  /\ Succeed
  /\ UNCHANGED <<core, endRequested, died, metricVars>>

StartOrResume ==
  /\ executing \in {"start", "resume"}
  /\ \/ ~returned /\ (StartThrows \/ StartCore) /\ UNCHANGED history
     \/ ~returned /\ StartDies
     \/ returned /\ Launch /\ UNCHANGED history
  /\ UNCHANGED app

-----------------------------------------------------------------------------
\* do_stop and do_pause.

\* The generator's own stop and pause may throw, when the thread has been told.
StopThrows == app = "BoardReader" /\ Throw

\* The stop and pause of an event builder wait for flush_mutex_, which a thread
\* that threw has not unlocked.
CoreReturns == app = "EventBuilder" => thread # "threw"

WaitForThread == returned' = TRUE /\ UNCHANGED <<fsm, executing, answer>>

\* Mutants: only a stop waits for the thread; the future is waited for without
\* asking whether it is valid.
JoinStop ==
  CoreReturns /\ IF executing = "stop" /\ thread # "none" THEN WaitForThread ELSE Succeed
JoinUnasked == CoreReturns /\ WaitForThread

\* The Core's stop or pause is done; the thread is waited for if there is one.
StopCore == CoreReturns /\ IF thread # "none" THEN WaitForThread ELSE Succeed

\* get() returns, or throws what process_fragments threw; it leaves the future invalid.
Joined ==
  /\ returned
  /\ \/ thread = "ended" /\ Succeed
     \/ thread = "threw" /\ Throw
  /\ thread' = "none"
  /\ UNCHANGED endRequested

StopOrPause ==
  /\ executing \in {"stop", "pause"}
  /\ \/ ~returned /\ (StopThrows \/ StopCore) /\ endRequested' = TRUE /\ UNCHANGED thread
     \/ Joined
  /\ UNCHANGED <<app, core, died, history, metricVars>>

-----------------------------------------------------------------------------
\* do_shutdown.

\* The generator and the plugins are destroyed; so is, in Booted, the Core.
BoardReaderShutdown ==
  /\ app = "BoardReader"
  /\ shutDown' = TRUE
  /\ Succeed
  /\ BootedEnter
  /\ died' = IF shutdown_dies THEN "plugin" ELSE died
  /\ UNCHANGED <<initFailed, renewed>>

\* endOfData is refused by a full queue, or waits for the reader; either way the
\* metrics are shut down.
StoreEnds ==
  \/ FailShutdown /\ UNCHANGED <<core, shutDown>>
  \/ core = "ready" /\ Succeed /\ core' = "over" /\ shutDown' = TRUE

StoreShutdown ==
  /\ app # "BoardReader"
  /\ \/ core = "blank" /\ Die("store")
     \/ core # "blank" /\ shutdown_dies /\ Die("plugin")
     \/ /\ core # "blank" /\ StoreEnds /\ shutdown
        /\ renewed' = TRUE
        /\ UNCHANGED <<died, initFailed>>
     \* A second time there is no reader to wait for, and the future throws.
     \/ core = "over" /\ Throw /\ UNCHANGED <<core, died, history, metricVars>>

Shutdown ==
  /\ executing = "shutdown"
  /\ BoardReaderShutdown \/ StoreShutdown
  /\ UNCHANGED <<app, thread, endRequested>>

-----------------------------------------------------------------------------
\* process_fragments returns and stops the metrics, unless it ends before it is told
\* to; that of a board reader may also throw, when a fragment is larger than the
\* sender's limit, and then it does not.

ThreadEnds ==
  /\ Alive
  /\ thread = "running"
  /\ \/ /\ thread' = "ended"
        /\ IF endRequested THEN do_stop ELSE UNCHANGED metricVars
     \/ app = "BoardReader" /\ thread' = "threw" /\ UNCHANGED metricVars
  /\ UNCHANGED <<app, commandVars, core, endRequested, died, history>>

CarryOut == Alive /\ (Initialize \/ StartOrResume \/ StopOrPause \/ Shutdown)

Hangs == executing \in {"stop", "pause"} /\ ~returned /\ ~CoreReturns
Stuck == (~Alive \/ Hangs) /\ UNCHANGED vars

Next ==
  \/ \E c \in Commands : Order(c)
  \/ CarryOut
  \/ ThreadEnds
  \/ Stuck

Spec == Init /\ [][Next]_vars

\* A command is carried out, and the thread ends once a stop or pause waits for it.
FairSpec == Spec /\ WF_vars(CarryOut) /\ WF_vars(executing \in {"stop", "pause"} /\ returned /\ ThreadEnds)

-----------------------------------------------------------------------------
\* Properties.

\* Between commands, every command that legal_commands advertises is one the state
\* machine accepts, except after a stop that threw.
LegalCommandsAccepted ==
  executing = "none" /\ Alive /\ fsm # InRun => \A c \in legal_commands : Accepts(c)

\* A process_fragments thread that nobody has waited for belongs to a run that can be
\* stopped; init, start, resume and shutdown never meet one.  So no Core is replaced
\* or shut down under its thread, the list of plugins, which has no lock, is not
\* changed under it, and the assignment to the future finds no thread to wait for.
DataTakingInRun ==
  thread # "none" =>
    /\ executing \in {"none", "stop", "pause"}
    /\ executing = "none" => Last(fsm) \in {"Running", "InRun"} /\ Accepts("stop")

\* While process_fragments runs, and reports what it measures, the metrics are
\* started; a board reader's thread, told to stop by a command that threw, included.
\* So the stop of one session never comes after the start of the next.
MetricsRun == thread = "running" => running_

\* A command other than init is carried out by a Core that is initialized.  This
\* excepts an event builder whose first init failed or threw, since the next one takes
\* the Core as it is, and the stores that were shut down and are used again.  Only in
\* these two cases, and in an aggregator that is initialized again, is a null pointer
\* used: to the event store in the first, to a plugin in the others.  A board reader
\* whose second init threw is left in Initialized with a Core that has not all it
\* needs, but then it can only be shut down, which does no harm, or be initialized.
CoreUsable ==
  /\ executing \notin {"none", "init"} => \/ core = "ready"
                                          \/ app = "EventBuilder" /\ initFailed
                                          \/ app # "BoardReader" /\ shutDown
                                          \/ app = "BoardReader" /\ initFailed /\ executing = "shutdown"
  /\ died = "store" => app = "EventBuilder" /\ initFailed
  /\ died = "plugin" => app # "BoardReader" /\ renewed /\ configured # {}

\* Every command is answered and gives the commander's mutex back, whatever fails
\* or throws; except an event builder's stop after its thread threw.
CommandsEnd == executing # "none" ~> (executing = "none" \/ ~Alive \/ Hangs)
=============================================================================
