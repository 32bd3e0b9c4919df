-------------------------- MODULE CommandableProofs --------------------------
(***************************************************************************)
(* Proofs about the command interface of a process: for each of the three  *)
(* applications, any choice of plugins, and any sequence of commands, of   *)
(* which any may fail or throw.                                            *)
(***************************************************************************)
EXTENDS Commandable, SequenceTheorems, TLAPS

-----------------------------------------------------------------------------
(* The inductive invariant, by parts.                                      *)

\* A command is carried out only from the states that have a transition for it,
\* after the pops; only the commands with a thread to launch or to wait for have
\* two parts.
OrderInv ==
  /\ executing = "init" => fsm \in {Booted, Initialized}
  /\ executing = "shutdown" => fsm = Initialized
  /\ executing = "start" => fsm = Ready
  /\ executing = "stop" => fsm = InRun
  /\ executing = "pause" => fsm = Running
  /\ executing = "resume" => fsm = Paused
  /\ executing \notin {"soft_init", "reinit"}
  /\ returned => executing \in {"start", "stop", "pause", "resume"}

\* There is a thread to wait for only in a run that is not paused.
ThreadInv ==
  thread # "none" => fsm \in {Running, InRun} /\ executing \in {"none", "stop", "pause"}

\* The metrics run from the Core's start until its thread ends.
RunningInv ==
  /\ thread = "running" => running_
  /\ returned /\ executing \in {"start", "resume"} => running_

\* Which Core there is outside Booted; whatever is missing has its cause.  An init that
\* throws leaves a board reader in Initialized with a Core that is not initialized.
CoreInv ==
  /\ fsm # Booted => /\ core # "null"
                     /\ app = "BoardReader" =>
                          core = "ready" \/ (core = "blank" /\ fsm = Initialized /\ initFailed)
                     /\ app = "Aggregator" => core # "blank"
  /\ app = "BoardReader" => core # "over"
  /\ core = "blank" /\ app = "EventBuilder" => initFailed
  /\ core = "over" => shutDown

\* The list of plugins is only filled where there are plugins and a Core, and only
\* has null pointers once it was shut down, by a shutdown or by a second init.
PluginInv ==
  /\ initialized_ => core # "null" /\ configured # {}
  /\ nullPlugins => app # "BoardReader" /\ renewed /\ configured # {}
  /\ died = "store" => app = "EventBuilder" /\ initFailed
  /\ died = "plugin" => app # "BoardReader" /\ renewed /\ configured # {}

IInv == TypeOK /\ OrderInv /\ ThreadInv /\ RunningInv /\ CoreInv /\ PluginInv

-----------------------------------------------------------------------------
(* Lemmas.                                                                 *)

\* Front drops the last of two or three elements.
LEMMA FrontOfTwo ==
  ASSUME NEW a, NEW b
  PROVE  Front(<<a, b>>) = <<a>>
  <1> DEFINE f == Front(<<a, b>>)
             S == {a, b}
  <1>1. <<a, b>> \in Seq(S) /\ <<a>> \in Seq(S)
    OBVIOUS
  <1>2. f \in Seq(S) /\ Len(f) = 1 /\ f[1] = a
    BY SubSeqProperties DEF Front
  <1>3. QED
    BY <1>1, <1>2, SeqEqual

LEMMA FrontOfThree ==
  ASSUME NEW a, NEW b, NEW c
  PROVE  Front(<<a, b, c>>) = <<a, b>>
  <1> DEFINE f == Front(<<a, b, c>>)
             S == {a, b, c}
  <1>1. <<a, b, c>> \in Seq(S) /\ <<a, b>> \in Seq(S)
    OBVIOUS
  <1>2. f \in Seq(S) /\ Len(f) = 2 /\ f[1] = a /\ f[2] = b
    BY SubSeqProperties DEF Front
  <1>3. QED
    BY <1>1, <1>2, SeqEqual

\* The stacks are told apart by their tops; the pops lead from one to another.
LEMMA Stacks ==
  /\ Last(Booted) = "Booted" /\ Last(Initialized) = "Initialized"
  /\ Last(Ready) = "Ready" /\ Last(InRun) = "InRun"
  /\ Last(Running) = "Running" /\ Last(Paused) = "Paused"
  /\ Front(Ready) = Initialized /\ Front(Running) = InRun /\ Front(Paused) = InRun
  <1>1. /\ Last(Booted) = "Booted" /\ Last(Initialized) = "Initialized"
        /\ Last(Ready) = "Ready" /\ Last(InRun) = "InRun"
        /\ Last(Running) = "Running" /\ Last(Paused) = "Paused"
    BY DEF Last, Booted, Initialized, Ready, InRun, Running, Paused
  <1>2. Front(Ready) = Initialized
    BY FrontOfTwo DEF Initialized, Ready
  <1>3. Front(Running) = InRun /\ Front(Paused) = InRun
    BY FrontOfThree DEF InRun, Running, Paused
  <1>4. QED
    BY <1>1, <1>2, <1>3

\* What a command finds after the pops.
LEMMA PoppedStacks ==
  ASSUME NEW c, fsm \in {Booted, Initialized, Ready, InRun, Running, Paused}
  PROVE  /\ fsm = Ready /\ c \in {"init", "shutdown"} => Popped(c) = Initialized
         /\ fsm = Ready /\ c \notin {"init", "shutdown"} => Popped(c) = Ready
         /\ fsm \in {Running, Paused} /\ c = "stop" => Popped(c) = InRun
         /\ fsm \in {Running, Paused} /\ c # "stop" => Popped(c) = fsm
         /\ fsm \in {Booted, Initialized, InRun} => Popped(c) = fsm
  BY Stacks DEF Popped

\* What each state accepts.
LEMMA Transitions ==
  /\ Guarded[Last(Booted)] = {"init"} /\ Unguarded(Last(Booted)) = {"shutdown"}
  /\ Guarded[Last(Initialized)] = {"init", "shutdown"} /\ Unguarded(Last(Initialized)) = {}
  /\ Guarded[Last(Ready)] = {"start"} /\ Unguarded(Last(Ready)) = {"soft_init"}
  /\ Guarded[Last(InRun)] = {"stop"} /\ Unguarded(Last(InRun)) = {}
  /\ Guarded[Last(Running)] = {"pause"} /\ Unguarded(Last(Running)) = {}
  /\ Guarded[Last(Paused)] = {"resume"} /\ Unguarded(Last(Paused)) = {}
  BY Stacks DEF Guarded, Unguarded

\* The methods of the metric manager keep its types and the list of what is configured.
LEMMA MetricsType ==
  ASSUME MetricsTypeOK,
         \/ UNCHANGED metricVars \/ do_start \/ do_stop \/ shutdown
         \/ initialize \/ destroyed \/ initializeNew
  PROVE  MetricsTypeOK' /\ configured' = configured
  <1> USE DEF MetricsTypeOK
  <1>1. CASE UNCHANGED metricVars
    BY <1>1 DEF metricVars
  <1>2. CASE do_start
    <2>1. plugins' = plugins \/ plugins' \in [DOMAIN plugins -> PluginState]
      BY <1>2 DEF do_start
    <2>2. DOMAIN plugins' \subseteq configured /\ \A p \in DOMAIN plugins' : plugins'[p] \in PluginState
      BY <2>1
    <2>3. QED
      BY <1>2, <2>2 DEF do_start
  <1>3. CASE do_stop
    <2>1. plugins' = plugins \/ plugins' \in [DOMAIN plugins -> PluginState]
      BY <1>3 DEF do_stop
    <2>2. DOMAIN plugins' \subseteq configured /\ \A p \in DOMAIN plugins' : plugins'[p] \in PluginState
      BY <2>1
    <2>3. QED
      BY <1>3, <2>2 DEF do_stop
  <1>4. CASE shutdown
    BY <1>4 DEF shutdown, NoPlugins
  <1>5. ASSUME NEW loaded \in SUBSET configured, plugins' = [p \in loaded |-> Started]
        PROVE  DOMAIN plugins' \subseteq configured /\ \A p \in DOMAIN plugins' : plugins'[p] \in PluginState
    BY <1>5 DEF Started, PluginState
  <1>6. CASE initialize
    <2>1. CASE configured = {}
      BY <1>6, <2>1 DEF initialize
    <2>2. CASE configured # {}
      BY <1>5, <1>6, <2>2 DEF initialize
    <2>3. QED
      BY <2>1, <2>2
  <1>7. CASE destroyed
    BY <1>7 DEF destroyed, NoPlugins
  <1>8. CASE initializeNew
    BY <1>5, <1>8 DEF initializeNew
  <1>9. QED
    BY <1>1, <1>2, <1>3, <1>4, <1>6, <1>7, <1>8

\* When initialize fills the list, and what it leaves there of the old one.
LEMMA InitializeEffect ==
  ASSUME MetricsTypeOK, initialize
  PROVE  /\ initialized_' => initialized_ \/ configured # {}
         /\ nullPlugins' => nullPlugins \/ (initialized_ /\ configured # {})
  BY DEF initialize, MetricsTypeOK

-----------------------------------------------------------------------------
(* The invariant holds in the beginning and is kept by every step.         *)

LEMMA InitInv == Init => IInv
  <1> SUFFICES ASSUME Init PROVE IInv
    OBVIOUS
  <1> USE Stacks DEF Init, MetricsInit
  <1>1. TypeOK
    BY DEF TypeOK, MetricsTypeOK, NoPlugins
  <1>2. OrderInv /\ ThreadInv /\ RunningInv /\ CoreInv /\ PluginInv
    BY DEF OrderInv, ThreadInv, RunningInv, CoreInv, PluginInv
  <1>3. QED
    BY <1>1, <1>2 DEF IInv

\* What an order does, with the state that it finds after the pops.
LEMMA OrderEffect ==
  ASSUME NEW c \in Commands, Order(c), fsm \in {Booted, Initialized, Ready, InRun, Running, Paused}
  PROVE  /\ fsm' \in {Booted, Initialized, Ready, InRun, Running, Paused}
         /\ fsm # Booted <=> fsm' # Booted
         /\ fsm \in {Running, InRun} => fsm' \in {Running, InRun}
         /\ fsm = Initialized => fsm' = Initialized
         /\ executing' # "none" => executing' \in Guarded[Last(fsm')]
         /\ executing = "none" /\ executing' \in Commands \cup {"none"}
         /\ UNCHANGED <<core, metricVars>> \/ (fsm' = Booted /\ BootedEnter)
  <1>1. fsm' = Popped(c)
    BY DEF Order
  <1>2. /\ fsm' \in {Booted, Initialized, Ready, InRun, Running, Paused}
        /\ fsm # Booted <=> fsm' # Booted
        /\ fsm \in {Running, InRun} => fsm' \in {Running, InRun}
        /\ fsm = Initialized => fsm' = Initialized
    BY <1>1, PoppedStacks, Stacks
  <1>3. /\ executing = "none" 
        /\ executing' # "none" => executing' = c /\ c \in Guarded[Last(fsm')]
    BY <1>1 DEF Order
  <1>4. UNCHANGED <<core, metricVars>> \/ (c = "shutdown" /\ c \in Unguarded(Last(fsm')) /\ BootedEnter)
    BY <1>1 DEF Order
  <1>5. c = "shutdown" /\ c \in Unguarded(Last(fsm')) => fsm' = Booted
    <2>1. SUFFICES ASSUME "shutdown" \in Unguarded(Last(fsm')), fsm' # Booted
                   PROVE  FALSE
      OBVIOUS
    <2>2. Unguarded(Last(fsm')) \in {{}, {"soft_init"}}
      BY <1>2, <2>1, Transitions
    <2>3. QED
      BY <2>1, <2>2
  <1>6. QED
    BY <1>2, <1>3, <1>4, <1>5

\* The commands that a state carries out.
LEMMA CarriedOut ==
  ASSUME NEW s \in {Booted, Initialized, Ready, InRun, Running, Paused}, NEW c \in Guarded[Last(s)]
  PROVE  /\ c = "init" => s \in {Booted, Initialized}
         /\ c = "shutdown" => s = Initialized
         /\ c = "start" => s = Ready
         /\ c = "stop" => s = InRun
         /\ c = "pause" => s = Running
         /\ c = "resume" => s = Paused
         /\ c \in {"init", "shutdown", "start", "stop", "pause", "resume"}
  BY Transitions

LEMMA OrderStep ==
  ASSUME IInv, NEW c \in Commands, Order(c)
  PROVE  IInv'
  <1> USE DEF IInv
  <1>1. fsm \in {Booted, Initialized, Ready, InRun, Running, Paused}
    BY DEF TypeOK
  <1>2. UNCHANGED <<app, returned, thread, died, history>> /\ endRequested' = endRequested
    BY DEF Order
  <1>3. external_request_status' \in BOOLEAN /\ report_string' \in {"", "OK", "error", "invalid"}
    BY DEF Order, badTransition
  <1>4. MetricsTypeOK' /\ core' \in {"null", "blank", "ready", "over"}
    BY <1>1, OrderEffect DEF MetricsTypeOK, TypeOK, BootedEnter, destroyed, NoPlugins, metricVars
  <1>5. TypeOK'
    BY <1>1, <1>2, <1>3, <1>4, OrderEffect DEF TypeOK, history
  <1>6. OrderInv'
    BY <1>1, <1>2, OrderEffect, CarriedOut DEF OrderInv
  <1>7. ThreadInv'
    BY <1>1, <1>2, OrderEffect, CarriedOut, Stacks DEF ThreadInv
  <1>8. CASE UNCHANGED <<core, metricVars>>
    <2>1. RunningInv'
      BY <1>1, <1>2, <1>8, OrderEffect DEF RunningInv, OrderInv, metricVars
    <2>2. CoreInv'
      BY <1>1, <1>2, <1>8, OrderEffect DEF CoreInv, history
    <2>3. PluginInv'
      BY <1>2, <1>8 DEF PluginInv, history, metricVars
    <2>4. QED
      BY <1>5, <1>6, <1>7, <2>1, <2>2, <2>3
  <1>9. CASE fsm' = Booted /\ BootedEnter /\ ~UNCHANGED <<core, metricVars>>
    <2>1. app = "BoardReader" /\ core' = "null" /\ destroyed /\ thread' = "none"
      BY <1>7, <1>9, Stacks DEF BootedEnter, ThreadInv
    <2>2. RunningInv'
      BY <1>2, <2>1, OrderEffect DEF RunningInv, OrderInv
    <2>3. CoreInv' /\ PluginInv'
      BY <1>2, <1>9, <2>1 DEF CoreInv, PluginInv, destroyed, history
    <2>4. QED
      BY <1>5, <1>6, <1>7, <2>2, <2>3
  <1>10. QED
    BY <1>1, <1>8, <1>9, OrderEffect

\* After a command that returned or threw, there is no thread unless it found one.
LEMMA ReleasedInv ==
  ASSUME OrderInv, ThreadInv, Release, thread' = "none"
  PROVE  OrderInv' /\ ThreadInv' /\ RunningInv'
  BY DEF OrderInv, ThreadInv, RunningInv, Release

LEMMA DieStep ==
  ASSUME IInv, NEW what \in {"store", "plugin"}, Die(what), UNCHANGED app,
         what = "store" => app = "EventBuilder" /\ initFailed,
         what = "plugin" => app # "BoardReader" /\ renewed /\ configured # {}
  PROVE  IInv'
  <1> USE DEF IInv
  <1>1. /\ app' = app /\ fsm' = fsm /\ executing' = executing /\ returned' = returned
        /\ external_request_status' = external_request_status /\ report_string' = report_string
        /\ core' = core /\ thread' = thread /\ endRequested' = endRequested
        /\ initFailed' = initFailed /\ shutDown' = shutDown /\ renewed' = renewed
        /\ died' = what /\ UNCHANGED metricVars
    BY DEF Die, commandVars, answer, history
  <1>2. MetricsTypeOK'
    BY <1>1, MetricsType DEF TypeOK
  <1>3. TypeOK'
    <2>1. died' \in {"no", "store", "plugin"}
      BY <1>1
    <2>2. /\ app' \in Apps /\ fsm' \in {Booted, Initialized, Ready, InRun, Running, Paused}
          /\ executing' \in Commands \cup {"none"} /\ report_string' \in {"", "OK", "error", "invalid"}
          /\ core' \in {"null", "blank", "ready", "over"}
          /\ thread' \in {"none", "running", "ended", "threw"}
      BY <1>1 DEF TypeOK
    <2>3. /\ returned' \in BOOLEAN /\ external_request_status' \in BOOLEAN /\ endRequested' \in BOOLEAN
          /\ initFailed' \in BOOLEAN /\ shutDown' \in BOOLEAN /\ renewed' \in BOOLEAN
      BY <1>1 DEF TypeOK
    <2>4. QED
      BY <1>2, <2>1, <2>2, <2>3 DEF TypeOK
  <1>4. OrderInv' /\ ThreadInv' /\ RunningInv'
    BY <1>1 DEF OrderInv, ThreadInv, RunningInv, metricVars
  <1>5. CoreInv' /\ PluginInv'
    BY <1>1 DEF CoreInv, PluginInv, metricVars
  <1>6. QED
    BY <1>3, <1>4, <1>5

\* How an init ends.
LEMMA InitReturned ==
  ASSUME executing = "init", NEW outcome \in Outcomes, InitReturns(outcome), TypeOK
  PROVE  /\ Release
         /\ outcome = "succeeds" => fsm' = Ready
         /\ outcome = "fails" => fsm' = Booted
         /\ outcome = "throws" => fsm' = fsm
         /\ initFailed' = (initFailed \/ outcome # "succeeds")
         /\ external_request_status' \in BOOLEAN /\ report_string' \in {"", "OK", "error", "invalid"}
  BY DEF InitReturns, Outcomes, Succeed, FailInit, Throw, Target, answer, TypeOK

LEMMA InitializeStep ==
  ASSUME IInv, Initialize
  PROVE  IInv'
  <1> USE DEF IInv
  <1>1. executing = "init" /\ thread = "none" /\ fsm \in {Booted, Initialized} /\ ~returned
    BY DEF Initialize, OrderInv, ThreadInv, TypeOK
  <1>2. UNCHANGED <<app, thread, endRequested, shutDown>>
    BY DEF Initialize
  <1>3. ASSUME NEW outcome \in Outcomes, InitReturns(outcome), died' = died, renewed' \in BOOLEAN,
               core' \in {"null", "blank", "ready", "over"},
               UNCHANGED metricVars \/ initialize \/ destroyed \/ initializeNew
        PROVE  TypeOK' /\ OrderInv' /\ ThreadInv' /\ RunningInv' /\ configured' = configured
    <2>1. MetricsTypeOK' /\ configured' = configured
      BY <1>3, MetricsType DEF TypeOK
    <2>2. OrderInv' /\ ThreadInv' /\ RunningInv'
      BY <1>1, <1>2, <1>3, InitReturned, ReleasedInv
    <2>3. fsm' \in {Ready, Booted, fsm} /\ executing' = "none" /\ returned' = FALSE
      BY <1>1, <1>3, InitReturned DEF Release, Outcomes
    <2>4. TypeOK'
      BY <1>1, <1>2, <1>3, <2>1, <2>3, InitReturned DEF TypeOK
    <2>5. QED
      BY <2>1, <2>2, <2>4
  <1>4. CASE BoardReaderInitialize
    <2>1. PICK outcome \in Outcomes :
            /\ InitReturns(outcome)
            /\ \/ (outcome # "fails" \/ fsm = Booted) /\ core' = CoreMade(outcome) /\ initializeNew
               \/ outcome = "fails" /\ core' = (IF fsm = Booted THEN "blank" ELSE "null") /\ destroyed
      BY <1>4 DEF BoardReaderInitialize
    <2>2. app = "BoardReader" /\ died' = died /\ renewed' = renewed
      BY <1>4 DEF BoardReaderInitialize
    <2>3. /\ core' \in {"null", "blank", "ready"}
          /\ outcome = "succeeds" => core' = "ready"
          /\ outcome = "throws" => core' = "blank"
      BY <2>1 DEF CoreMade
    <2>4. TypeOK' /\ OrderInv' /\ ThreadInv' /\ RunningInv' /\ configured' = configured
      BY <1>3, <2>1, <2>2, <2>3 DEF TypeOK
    <2>5. CoreInv'
      <3>1. CASE outcome = "succeeds"
        BY <2>2, <2>3, <3>1 DEF CoreInv
      <3>2. CASE outcome = "fails"
        BY <1>1, <2>1, <2>2, <2>3, <3>2, InitReturned DEF CoreInv
      <3>3. CASE outcome = "throws"
        <4>1. core' = "blank" /\ fsm' = fsm /\ initFailed' = TRUE
          BY <1>1, <2>1, <2>3, <3>3, InitReturned
        <4>2. fsm' # Booted => fsm' = Initialized
          BY <1>1, <4>1
        <4>3. QED
          BY <1>2, <2>2, <4>1, <4>2 DEF CoreInv
      <3>4. QED
        BY <3>1, <3>2, <3>3 DEF Outcomes
    <2>6. nullPlugins' = FALSE /\ (initialized_' => core' # "null" /\ configured # {})
      BY <2>1 DEF initializeNew, destroyed, CoreMade
    <2>7. PluginInv'
      BY <1>2, <2>2, <2>4, <2>6 DEF PluginInv
    <2>8. QED
      BY <2>4, <2>5, <2>7
  <1>5. CASE EventBuilderInitialize
    <2>1. app = "EventBuilder" /\ died' = died /\ renewed' = renewed
      BY <1>5 DEF EventBuilderInitialize
    <2>2. PICK outcome \in Outcomes :
            /\ InitReturns(outcome)
            /\ \/ core = "null" /\ core' = CoreMade(outcome) /\ (initialize \/ UNCHANGED metricVars)
               \/ outcome = "succeeds" /\ core # "null" /\ UNCHANGED <<core, metricVars>>
      BY <1>5 DEF EventBuilderInitialize, Outcomes
    <2>3. /\ core' \in {"blank", "ready", "over"}
          /\ core' = core \/ core' = "ready" \/ (core' = "blank" /\ outcome # "succeeds")
      BY <2>2 DEF CoreMade, TypeOK
    <2>4. TypeOK' /\ OrderInv' /\ ThreadInv' /\ RunningInv' /\ configured' = configured
      BY <1>3, <2>1, <2>2, <2>3 DEF TypeOK
    <2>5. initFailed' = (initFailed \/ outcome # "succeeds")
      BY <1>1, <2>2, InitReturned
    <2>6. CoreInv'
      BY <1>2, <2>1, <2>3, <2>5 DEF CoreInv
    <2>7. nullPlugins' => nullPlugins
      BY <2>2, InitializeEffect DEF PluginInv, metricVars, TypeOK
    <2>8. initialized_' => configured # {}
      BY <2>2, InitializeEffect DEF PluginInv, metricVars, TypeOK
    <2>9. PluginInv'
      BY <1>2, <2>1, <2>3, <2>4, <2>5, <2>7, <2>8 DEF PluginInv
    <2>10. QED
      BY <2>4, <2>6, <2>9
  <1>6. CASE AggregatorInitialize
    <2>1. app = "Aggregator"
      BY <1>6 DEF AggregatorInitialize
    <2>2. CASE shutdown_dies /\ Die("plugin")
      BY <1>2, <2>1, <2>2, DieStep DEF shutdown_dies, PluginInv
    <2>3. CASE ~(shutdown_dies /\ Die("plugin"))
      <3>1. PICK outcome \in Outcomes :
              /\ core' = IF core \in {"null", "blank"} THEN CoreMade(outcome) ELSE core
              /\ InitReturns(outcome)
              /\ initialize \/ UNCHANGED metricVars
              /\ renewed' = (renewed \/ core # "null")
              /\ UNCHANGED died
        BY <1>6, <2>3 DEF AggregatorInitialize
      <3>2. /\ core' \in {"blank", "ready", "over"}
            /\ outcome = "succeeds" \/ core \notin {"null", "blank"} => core' # "blank"
            /\ core' = "over" => core = "over"
        BY <3>1 DEF CoreMade, TypeOK
      <3>3. TypeOK' /\ OrderInv' /\ ThreadInv' /\ RunningInv' /\ configured' = configured
        BY <1>3, <3>1, <3>2 DEF TypeOK
      <3>4. /\ fsm' # Booted => outcome = "succeeds" \/ fsm # Booted
            /\ initFailed' = (initFailed \/ outcome # "succeeds")
        BY <1>1, <3>1, InitReturned DEF Outcomes
      <3>5. CoreInv'
        BY <1>2, <2>1, <3>2, <3>4 DEF CoreInv
      <3>6. /\ nullPlugins' => nullPlugins \/ (initialized_ /\ configured # {})
            /\ initialized_' => configured # {}
        <4>1. CASE initialize
          BY <4>1, InitializeEffect DEF PluginInv, TypeOK
        <4>2. CASE UNCHANGED metricVars
          BY <4>2 DEF PluginInv, metricVars
        <4>3. QED
          BY <3>1, <4>1, <4>2
      <3>7. PluginInv'
        BY <1>2, <2>1, <3>1, <3>2, <3>3, <3>4, <3>6 DEF PluginInv
      <3>8. QED
        BY <3>3, <3>5, <3>7
    <2>4. QED
      BY <2>2, <2>3
  <1>7. QED
    BY <1>4, <1>5, <1>6 DEF Initialize

\* How a command other than init ends, when it succeeds or throws.
LEMMA EndedType ==
  ASSUME IInv, executing # "none", Succeed \/ Throw
  PROVE  /\ Release
         /\ fsm' \in {fsm, Target(executing)}
         /\ fsm' \in {Booted, Initialized, Ready, InRun, Running, Paused}
         /\ external_request_status' = external_request_status /\ report_string' = report_string
  <1>1. executing \in {"init", "start", "stop", "pause", "resume", "shutdown"}
    BY DEF IInv, TypeOK, OrderInv, Commands
  <1>2. Target(executing) \in {Booted, Ready, Running, Paused}
    BY <1>1 DEF Target
  <1>3. Release /\ fsm' \in {fsm, Target(executing)} /\ UNCHANGED answer
    BY DEF Succeed, Throw
  <1>4. fsm \in {Booted, Initialized, Ready, InRun, Running, Paused}
    BY DEF IInv, TypeOK
  <1>5. QED
    BY <1>2, <1>3, <1>4 DEF answer

LEMMA StartOrResumeStep ==
  ASSUME IInv, StartOrResume
  PROVE  IInv'
  <1> USE DEF IInv
  <1>1. /\ executing \in {"start", "resume"} /\ fsm \in {Ready, Paused} /\ thread = "none"
        /\ UNCHANGED app
    BY DEF StartOrResume, OrderInv, ThreadInv
  <1>2. fsm # Booted /\ fsm # Initialized
    BY <1>1, Stacks
  <1>3. CASE StartThrows /\ UNCHANGED history
    <2>1. /\ core' = core /\ thread' = thread /\ endRequested' = FALSE /\ died' = died
          /\ initFailed' = initFailed /\ shutDown' = shutDown /\ renewed' = renewed
          /\ fsm' = fsm
      BY <1>3 DEF StartThrows, history, Throw
    <2>2. UNCHANGED metricVars
      BY <1>3 DEF StartThrows
    <2>3. MetricsTypeOK'
      BY <2>2, MetricsType DEF TypeOK
    <2>4. Release /\ external_request_status' = external_request_status /\ report_string' = report_string
      BY <1>1, <1>3, EndedType DEF StartThrows
    <2>5. TypeOK'
      BY <1>1, <2>1, <2>3, <2>4 DEF TypeOK, Release
    <2>6. OrderInv' /\ ThreadInv' /\ RunningInv'
      BY <1>1, <2>1, <2>4, ReleasedInv
    <2>7. CoreInv' /\ PluginInv'
      BY <1>1, <2>1, <2>2 DEF CoreInv, PluginInv, metricVars
    <2>8. QED
      BY <2>5, <2>6, <2>7
  <1>4. CASE ~returned /\ StartCore /\ UNCHANGED history
    <2>1. /\ core' = core /\ thread' = thread /\ endRequested' = FALSE /\ died' = died
          /\ initFailed' = initFailed /\ shutDown' = shutDown /\ renewed' = renewed
          /\ fsm' = fsm /\ executing' = executing /\ returned' = TRUE
          /\ external_request_status' = external_request_status /\ report_string' = report_string
      BY <1>4 DEF StartCore, history, answer
    <2>2. MetricsTypeOK'
      BY <1>4, MetricsType DEF StartCore, TypeOK
    <2>3. running_' = TRUE /\ UNCHANGED <<configured, nullPlugins, initialized_>>
      BY <1>4 DEF StartCore, do_start
    <2>4. TypeOK'
      <3>1. /\ returned' \in BOOLEAN /\ external_request_status' \in BOOLEAN
            /\ endRequested' \in BOOLEAN /\ initFailed' \in BOOLEAN
            /\ shutDown' \in BOOLEAN /\ renewed' \in BOOLEAN
        BY <1>1, <2>1 DEF TypeOK
      <3>2. QED
        BY <1>1, <2>1, <2>2, <3>1 DEF TypeOK
    <2>5. OrderInv' /\ ThreadInv' /\ RunningInv'
      BY <1>1, <2>1, <2>3 DEF OrderInv, ThreadInv, RunningInv
    <2>6. CoreInv' /\ PluginInv'
      BY <1>1, <2>1, <2>3 DEF CoreInv, PluginInv
    <2>7. QED
      BY <2>4, <2>5, <2>6
  <1>5. CASE StartDies
    <2>1. CASE core = "blank" /\ Die("store")
      <3>1. app = "EventBuilder" /\ initFailed
        BY <1>2, <2>1 DEF CoreInv, TypeOK, Apps
      <3>2. QED
        BY <1>1, <2>1, <3>1, DieStep
    <2>2. CASE core # "blank" /\ do_start_dies /\ Die("plugin")
      <3>1. app # "BoardReader" /\ renewed /\ configured # {}
        BY <2>2 DEF do_start_dies, PluginInv
      <3>2. QED
        BY <1>1, <2>2, <3>1, DieStep
    <2>3. QED
      BY <1>5, <2>1, <2>2 DEF StartDies
  <1>6. CASE returned /\ Launch /\ UNCHANGED history
    <2>1. /\ core' = core /\ endRequested' = endRequested /\ died' = died
          /\ thread' \in {"running", "threw"}
          /\ initFailed' = initFailed /\ shutDown' = shutDown /\ renewed' = renewed
      BY <1>6 DEF Launch, history
    <2>2. UNCHANGED metricVars
      BY <1>6 DEF Launch
    <2>3. MetricsTypeOK'
      BY <2>2, MetricsType DEF TypeOK
    <2>4. Release /\ external_request_status' = external_request_status /\ report_string' = report_string
      BY <1>1, <1>6, EndedType DEF Launch
    <2>5. fsm' = Running
      BY <1>1, <1>6 DEF Launch, Succeed, Target
    <2>6. TypeOK'
      <3>1. /\ executing' \in Commands \cup {"none"}
            /\ fsm' \in {Booted, Initialized, Ready, InRun, Running, Paused}
        BY <2>4, <2>5 DEF Release
      <3>2. /\ returned' \in BOOLEAN /\ external_request_status' \in BOOLEAN
            /\ endRequested' \in BOOLEAN /\ initFailed' \in BOOLEAN
            /\ shutDown' \in BOOLEAN /\ renewed' \in BOOLEAN
        BY <2>1, <2>4 DEF TypeOK, Release
      <3>3. /\ app' \in Apps /\ report_string' \in {"", "OK", "error", "invalid"}
            /\ core' \in {"null", "blank", "ready", "over"}
            /\ thread' \in {"none", "running", "ended", "threw"}
            /\ died' \in {"no", "store", "plugin"}
        BY <1>1, <2>1, <2>4 DEF TypeOK
      <3>4. QED
        BY <2>3, <3>1, <3>2, <3>3 DEF TypeOK
    <2>7. OrderInv' /\ ThreadInv'
      BY <2>1, <2>4, <2>5 DEF OrderInv, ThreadInv, Release
    <2>8. RunningInv'
      BY <1>1, <1>6, <2>2, <2>4 DEF RunningInv, Release, metricVars
    <2>9. CoreInv' /\ PluginInv'
      BY <1>1, <1>2, <2>1, <2>2 DEF CoreInv, PluginInv, metricVars
    <2>10. QED
      BY <2>6, <2>7, <2>8, <2>9
  <1>7. QED
    BY <1>3, <1>4, <1>5, <1>6 DEF StartOrResume

LEMMA StopOrPauseStep ==
  ASSUME IInv, StopOrPause
  PROVE  IInv'
  <1> USE DEF IInv
  <1>1. /\ executing \in {"stop", "pause"} /\ fsm \in {InRun, Running}
        /\ app' = app /\ core' = core /\ died' = died /\ UNCHANGED metricVars
        /\ initFailed' = initFailed /\ shutDown' = shutDown /\ renewed' = renewed
    BY DEF StopOrPause, OrderInv, history
  <1>2. fsm # Booted /\ fsm # Initialized
    BY <1>1, Stacks
  <1>3. MetricsTypeOK'
    BY <1>1, MetricsType DEF TypeOK
  <1>4. CoreInv' /\ PluginInv'
    BY <1>1, <1>2 DEF CoreInv, PluginInv, metricVars
  <1>5. endRequested' \in BOOLEAN /\ thread' \in {thread, "none"}
    BY DEF StopOrPause, Joined, TypeOK
  <1>6. CASE Succeed \/ Throw
    <2>1. /\ Release /\ fsm' \in {Booted, Initialized, Ready, InRun, Running, Paused}
          /\ external_request_status' = external_request_status /\ report_string' = report_string
      BY <1>1, <1>6, EndedType
    <2>2. TypeOK'
      <3>1. /\ executing' \in Commands \cup {"none"}
            /\ thread' \in {"none", "running", "ended", "threw"}
            /\ app' \in Apps /\ report_string' \in {"", "OK", "error", "invalid"}
            /\ core' \in {"null", "blank", "ready", "over"}
            /\ died' \in {"no", "store", "plugin"}
        BY <1>1, <1>5, <2>1 DEF TypeOK, Release
      <3>2. /\ returned' \in BOOLEAN /\ external_request_status' \in BOOLEAN
            /\ initFailed' \in BOOLEAN /\ shutDown' \in BOOLEAN /\ renewed' \in BOOLEAN
        BY <1>1, <2>1 DEF TypeOK, Release
      <3>3. QED
        BY <1>3, <1>5, <2>1, <3>1, <3>2 DEF TypeOK
    <2>3. thread' = "none" \/ (fsm' = fsm /\ thread' = thread)
      BY DEF StopOrPause, Joined, StopThrows, StopCore, Throw, WaitForThread
    <2>4. OrderInv' /\ ThreadInv' /\ RunningInv'
      BY <1>1, <2>1, <2>3 DEF OrderInv, ThreadInv, RunningInv, Release, metricVars
    <2>5. QED
      BY <1>4, <2>2, <2>4
  <1>7. CASE WaitForThread /\ thread' = thread
    <2>1. /\ fsm' = fsm /\ executing' = executing /\ returned' = TRUE
          /\ external_request_status' = external_request_status /\ report_string' = report_string
      BY <1>7 DEF WaitForThread, answer
    <2>2. TypeOK'
      <3>1. fsm' \in {Booted, Initialized, Ready, InRun, Running, Paused}
        BY <2>1 DEF TypeOK
      <3>2. thread' \in {"none", "running", "ended", "threw"}
        BY <1>7 DEF TypeOK
      <3>3. QED
        BY <1>1, <1>3, <1>5, <2>1, <3>1, <3>2 DEF TypeOK
    <2>3. OrderInv' /\ ThreadInv' /\ RunningInv'
      BY <1>1, <1>7, <2>1 DEF OrderInv, ThreadInv, RunningInv, metricVars
    <2>4. QED
      BY <1>4, <2>2, <2>3
  <1>8. QED
    BY <1>6, <1>7 DEF StopOrPause, StopThrows, StopCore, Joined

LEMMA ShutdownStep ==
  ASSUME IInv, Shutdown
  PROVE  IInv'
  <1> USE DEF IInv
  <1>1. /\ executing = "shutdown" /\ fsm = Initialized /\ thread = "none"
        /\ app' = app /\ thread' = thread /\ endRequested' = endRequested
    BY DEF Shutdown, OrderInv, ThreadInv
  <1>2. fsm # Booted /\ Target("shutdown") = Booted
    BY <1>1, Stacks DEF Target
  <1>3. CASE BoardReaderShutdown
    <2>1. /\ app = "BoardReader" /\ shutDown' = TRUE /\ Succeed
          /\ initFailed' = initFailed /\ renewed' = renewed
          /\ core' = "null" /\ destroyed
      BY <1>3 DEF BoardReaderShutdown, BootedEnter
    <2>2. died' = died
      BY <1>3, <2>1 DEF BoardReaderShutdown, shutdown_dies, PluginInv
    <2>3. /\ Release /\ fsm' \in {Booted, Initialized, Ready, InRun, Running, Paused}
          /\ external_request_status' = external_request_status /\ report_string' = report_string
      BY <1>1, <2>1, EndedType
    <2>4. fsm' = Booted
      BY <1>1, <1>2, <2>1 DEF Succeed
    <2>5. MetricsTypeOK' /\ configured' = configured
      BY <2>1, MetricsType DEF TypeOK
    <2>6. TypeOK'
      BY <1>1, <2>1, <2>2, <2>3, <2>5 DEF TypeOK, Release
    <2>7. OrderInv' /\ ThreadInv' /\ RunningInv'
      BY <1>1, <2>3, ReleasedInv
    <2>8. CoreInv' /\ PluginInv'
      BY <1>1, <2>1, <2>2, <2>4, <2>5 DEF CoreInv, PluginInv, destroyed
    <2>9. QED
      BY <2>6, <2>7, <2>8
  <1>4. CASE app # "BoardReader" /\ core = "blank" /\ Die("store")
    <2>1. app = "EventBuilder" /\ initFailed
      BY <1>2, <1>4 DEF CoreInv, TypeOK, Apps
    <2>2. QED
      BY <1>1, <1>4, <2>1, DieStep
  <1>5. CASE shutdown_dies /\ Die("plugin")
    <2>1. app # "BoardReader" /\ renewed /\ configured # {}
      BY <1>5 DEF shutdown_dies, PluginInv
    <2>2. QED
      BY <1>1, <1>5, <2>1, DieStep
  <1>6. CASE /\ app # "BoardReader"
             /\ core # "blank" /\ StoreEnds /\ shutdown
             /\ renewed' = TRUE
             /\ UNCHANGED <<died, initFailed>>
    <2>1. /\ Release /\ fsm' \in {Booted, Initialized}
          /\ core' \in {core, "over"} /\ (core' = "over" => core = "over" \/ shutDown')
          /\ shutDown' \in {shutDown, TRUE}
          /\ external_request_status' \in {external_request_status, FALSE}
          /\ report_string' \in {report_string, "invalid"}
      BY <1>1, <1>2, <1>6 DEF StoreEnds, FailShutdown, Succeed, badTransition, answer
    <2>2. shutDown => shutDown'
      BY <1>6 DEF StoreEnds
    <2>3. MetricsTypeOK' /\ configured' = configured
      BY <1>6, MetricsType DEF TypeOK
    <2>4. TypeOK'
      <3>1. /\ fsm' \in {Booted, Initialized} /\ core' \in {core, "over"}
            /\ executing' = "none" /\ report_string' \in {report_string, "invalid"}
        BY <2>1 DEF Release
      <3>2. /\ core' \in {"null", "blank", "ready", "over"}
            /\ report_string' \in {"", "OK", "error", "invalid"}
            /\ executing' \in Commands \cup {"none"}
        BY <3>1 DEF TypeOK
      <3>3. /\ shutDown' \in BOOLEAN /\ external_request_status' \in BOOLEAN
            /\ returned' \in BOOLEAN /\ renewed' \in BOOLEAN
            /\ initFailed' \in BOOLEAN /\ endRequested' \in BOOLEAN
        BY <1>1, <1>6, <2>1 DEF TypeOK, Release
      <3>4. /\ app' \in Apps /\ thread' \in {"none", "running", "ended", "threw"}
            /\ died' \in {"no", "store", "plugin"}
        BY <1>1, <1>6 DEF TypeOK
      <3>5. QED
        BY <2>3, <3>1, <3>2, <3>3, <3>4 DEF TypeOK
    <2>5. OrderInv' /\ ThreadInv' /\ RunningInv'
      BY <1>1, <2>1, ReleasedInv
    <2>6. CoreInv'
      BY <1>1, <1>2, <1>6, <2>1, <2>2 DEF CoreInv
    <2>7. ~initialized_' /\ (nullPlugins' => nullPlugins \/ initialized_)
      BY <1>6 DEF shutdown
    <2>8. PluginInv'
      BY <1>1, <1>6, <2>3, <2>7 DEF PluginInv
    <2>9. QED
      BY <2>4, <2>5, <2>6, <2>8
  <1>7. CASE Throw /\ UNCHANGED <<core, died, history, metricVars>>
    <2>1. /\ Release /\ fsm' = fsm
          /\ external_request_status' = external_request_status /\ report_string' = report_string
          /\ core' = core /\ died' = died
          /\ initFailed' = initFailed /\ shutDown' = shutDown /\ renewed' = renewed
      BY <1>7 DEF Throw, answer, history
    <2>2. MetricsTypeOK'
      BY <1>7, MetricsType DEF TypeOK
    <2>3. TypeOK'
      BY <1>1, <2>1, <2>2 DEF TypeOK, Release
    <2>4. OrderInv' /\ ThreadInv' /\ RunningInv'
      BY <1>1, <2>1, ReleasedInv
    <2>5. CoreInv' /\ PluginInv'
      BY <1>1, <1>7, <2>1 DEF CoreInv, PluginInv, metricVars
    <2>6. QED
      BY <2>3, <2>4, <2>5
  <1>8. QED
    BY <1>3, <1>4, <1>5, <1>6, <1>7 DEF Shutdown, StoreShutdown

LEMMA ThreadEndsStep ==
  ASSUME IInv, ThreadEnds
  PROVE  IInv'
  <1> USE DEF IInv
  <1>1. /\ app' = app /\ fsm' = fsm /\ executing' = executing /\ returned' = returned
        /\ external_request_status' = external_request_status /\ report_string' = report_string
        /\ core' = core /\ endRequested' = endRequested /\ died' = died
        /\ initFailed' = initFailed /\ shutDown' = shutDown /\ renewed' = renewed
        /\ thread = "running" /\ thread' \in {"ended", "threw"}
    BY DEF ThreadEnds, commandVars, answer, history
  <1>2. do_stop \/ UNCHANGED metricVars
    BY DEF ThreadEnds
  <1>3. MetricsTypeOK' /\ UNCHANGED <<configured, nullPlugins, initialized_>>
    BY <1>2, MetricsType DEF TypeOK, do_stop, metricVars
  <1>4. TypeOK'
    <2>1. /\ app' \in Apps /\ fsm' \in {Booted, Initialized, Ready, InRun, Running, Paused}
          /\ executing' \in Commands \cup {"none"} /\ report_string' \in {"", "OK", "error", "invalid"}
          /\ core' \in {"null", "blank", "ready", "over"} /\ died' \in {"no", "store", "plugin"}
          /\ thread' \in {"none", "running", "ended", "threw"}
      BY <1>1 DEF TypeOK
    <2>2. /\ returned' \in BOOLEAN /\ external_request_status' \in BOOLEAN /\ endRequested' \in BOOLEAN
          /\ initFailed' \in BOOLEAN /\ shutDown' \in BOOLEAN /\ renewed' \in BOOLEAN
      BY <1>1 DEF TypeOK
    <2>3. QED
      BY <1>3, <2>1, <2>2 DEF TypeOK
  <1>5. OrderInv' /\ ThreadInv' /\ RunningInv'
    BY <1>1 DEF OrderInv, ThreadInv, RunningInv
  <1>6. CoreInv' /\ PluginInv'
    BY <1>1, <1>3 DEF CoreInv, PluginInv
  <1>7. QED
    BY <1>4, <1>5, <1>6

LEMMA StutterStep ==
  ASSUME IInv, UNCHANGED vars
  PROVE  IInv'
  <1>1. /\ app' = app /\ fsm' = fsm /\ executing' = executing /\ returned' = returned
        /\ external_request_status' = external_request_status /\ report_string' = report_string
        /\ core' = core /\ thread' = thread /\ endRequested' = endRequested /\ died' = died
        /\ initFailed' = initFailed /\ shutDown' = shutDown /\ renewed' = renewed
        /\ UNCHANGED metricVars
    BY DEF vars, commandVars, answer, history
  <1>2. MetricsTypeOK'
    BY <1>1, MetricsType DEF IInv, TypeOK
  <1>3. TypeOK'
    <2>1. /\ app' \in Apps /\ fsm' \in {Booted, Initialized, Ready, InRun, Running, Paused}
          /\ executing' \in Commands \cup {"none"} /\ report_string' \in {"", "OK", "error", "invalid"}
          /\ core' \in {"null", "blank", "ready", "over"} /\ died' \in {"no", "store", "plugin"}
          /\ thread' \in {"none", "running", "ended", "threw"}
      BY <1>1 DEF IInv, TypeOK
    <2>2. /\ returned' \in BOOLEAN /\ external_request_status' \in BOOLEAN /\ endRequested' \in BOOLEAN
          /\ initFailed' \in BOOLEAN /\ shutDown' \in BOOLEAN /\ renewed' \in BOOLEAN
      BY <1>1 DEF IInv, TypeOK
    <2>3. QED
      BY <1>2, <2>1, <2>2 DEF TypeOK
  <1>4. OrderInv' /\ ThreadInv' /\ RunningInv' /\ CoreInv' /\ PluginInv'
    BY <1>1 DEF IInv, OrderInv, ThreadInv, RunningInv, CoreInv, PluginInv, metricVars
  <1>5. QED
    BY <1>3, <1>4 DEF IInv

LEMMA StepInv == IInv /\ [Next]_vars => IInv'
  <1> SUFFICES ASSUME IInv, [Next]_vars PROVE IInv'
    OBVIOUS
  <1>1. ASSUME NEW c \in Commands, Order(c) PROVE IInv'
    BY <1>1, OrderStep
  <1>2. CASE CarryOut
    BY <1>2, InitializeStep, StartOrResumeStep, StopOrPauseStep, ShutdownStep DEF CarryOut
  <1>3. CASE ThreadEnds
    BY <1>3, ThreadEndsStep
  <1>4. CASE UNCHANGED vars
    BY <1>4, StutterStep
  <1>5. QED
    BY <1>1, <1>2, <1>3, <1>4 DEF Next, Stuck

-----------------------------------------------------------------------------
(* The theorems.                                                           *)

\* Whatever the commands and however they end, the inductive invariant holds.
THEOREM Inductive == Spec => []IInv
  BY InitInv, StepInv, PTL DEF Spec

\* Every variable of the command interface keeps its type.
THEOREM TypeCorrect == Spec => []TypeOK
  <1>1. IInv => TypeOK
    BY DEF IInv
  <1>2. QED
    BY <1>1, Inductive, PTL

\* Between commands, every command that legal_commands advertises is accepted, but
\* after a stop that threw.
THEOREM LegalAccepted == Spec => []LegalCommandsAccepted
  <1>1. TypeOK => LegalCommandsAccepted
    <2> SUFFICES ASSUME TypeOK, fsm # InRun, NEW c \in legal_commands
                 PROVE  Accepts(c)
      BY DEF LegalCommandsAccepted
    <2>1. fsm \in {Booted, Initialized, Ready, Running, Paused}
      BY DEF TypeOK
    <2>2. CASE fsm = Booted
      <3>1. c \in {"init", "shutdown"}
        BY <2>2, Stacks DEF legal_commands
      <3>2. Popped(c) = Booted
        BY <2>2, PoppedStacks
      <3>3. QED
        BY <3>1, <3>2, Transitions DEF Accepts
    <2>3. CASE fsm = Initialized
      <3>1. c \in {"init", "shutdown"}
        BY <2>3, Stacks DEF legal_commands
      <3>2. Popped(c) = Initialized
        BY <2>3, PoppedStacks
      <3>3. QED
        BY <3>1, <3>2, Transitions DEF Accepts
    <2>4. CASE fsm = Ready
      <3>1. c \in {"init", "soft_init", "start", "shutdown"}
        BY <2>4, Stacks DEF legal_commands
      <3>2. Popped(c) = IF c \in {"init", "shutdown"} THEN Initialized ELSE Ready
        BY <2>4, PoppedStacks
      <3>3. QED
        BY <3>1, <3>2, Transitions DEF Accepts
    <2>5. CASE fsm = Running
      <3>1. c \in {"pause", "stop"}
        BY <2>5, Stacks DEF legal_commands
      <3>2. Popped(c) = IF c = "stop" THEN InRun ELSE Running
        BY <2>5, PoppedStacks
      <3>3. QED
        BY <3>1, <3>2, Transitions DEF Accepts
    <2>6. CASE fsm = Paused
      <3>1. c \in {"resume", "stop"}
        BY <2>6, Stacks DEF legal_commands
      <3>2. Popped(c) = IF c = "stop" THEN InRun ELSE Paused
        BY <2>6, PoppedStacks
      <3>3. QED
        BY <3>1, <3>2, Transitions DEF Accepts
    <2>7. QED
      BY <2>1, <2>2, <2>3, <2>4, <2>5, <2>6
  <1>2. QED
    BY <1>1, TypeCorrect, PTL

\* A process_fragments thread that nobody has waited for belongs to a run that can be
\* stopped: no init, start, resume or shutdown meets one.
THEOREM DataTaking == Spec => []DataTakingInRun
  <1>1. IInv => DataTakingInRun
    <2> SUFFICES ASSUME IInv, thread # "none"
                 PROVE  /\ executing \in {"none", "stop", "pause"}
                        /\ Last(fsm) \in {"Running", "InRun"} /\ Accepts("stop")
      BY DEF DataTakingInRun
    <2>1. fsm \in {Running, InRun} /\ executing \in {"none", "stop", "pause"}
      BY DEF IInv, ThreadInv
    <2>2. Popped("stop") = InRun
      BY <2>1, PoppedStacks
    <2>3. Accepts("stop")
      BY <2>2, Transitions DEF Accepts
    <2>4. QED
      BY <2>1, <2>3, Stacks
  <1>2. QED
    BY <1>1, Inductive, PTL

\* The metrics are started as long as process_fragments runs.
THEOREM MetricsRunning == Spec => []MetricsRun
  <1>1. IInv => MetricsRun
    BY DEF IInv, RunningInv, MetricsRun
  <1>2. QED
    BY <1>1, Inductive, PTL

\* A command other than init meets an initialized Core, and no null pointer is used,
\* but in the named cases.
THEOREM CoreIsUsable == Spec => []CoreUsable
  <1>1. IInv => CoreUsable
    <2> SUFFICES ASSUME IInv PROVE CoreUsable
      OBVIOUS
    <2>1. ASSUME executing \notin {"none", "init"}
          PROVE  \/ core = "ready"
                 \/ app = "EventBuilder" /\ initFailed
                 \/ app # "BoardReader" /\ shutDown
                 \/ app = "BoardReader" /\ initFailed /\ executing = "shutdown"
      <3>1. fsm # Booted /\ (fsm = Initialized => executing = "shutdown")
        BY <2>1, Stacks DEF IInv, OrderInv, TypeOK, Commands
      <3>2. QED
        BY <3>1 DEF IInv, CoreInv, TypeOK, Apps
    <2>2. QED
      BY <2>1 DEF CoreUsable, IInv, PluginInv
  <1>2. QED
    BY <1>1, Inductive, PTL
=============================================================================
