--------------------------- MODULE MetricManager ----------------------------
(***************************************************************************)
(* artdaq/DAQrate/MetricManager with its plugins, of which the repository  *)
(* has two: one writes to a file, the other to a graphite server.  One     *)
(* operator per method; Commandable, which extends this module, says which *)
(* command calls it.  What the metrics report is left out.                 *)
(*                                                                         *)
(* shutdown leaves the plugins it has destroyed in the list as null        *)
(* pointers.  To use one is undefined: Dies, taken as the end of the       *)
(* process.  Other errors of a plugin are caught and logged.               *)
(***************************************************************************)
VARIABLES
  configured,    \* the plugins that the "metrics" parameters name
  plugins,       \* those that were loaded: their state
  nullPlugins,   \* the list has null entries
  initialized_, running_

metricVars == <<configured, plugins, nullPlugins, initialized_, running_>>

Plugins == {"file", "graphite"}

\* open: what sendMetric writes arrives; stopped_: what the plugin believes.
PluginState == [open : BOOLEAN, stopped_ : BOOLEAN]

MetricsTypeOK ==
  /\ configured \subseteq Plugins
  /\ DOMAIN plugins \subseteq configured
  /\ \A p \in DOMAIN plugins : plugins[p] \in PluginState
  /\ nullPlugins \in BOOLEAN /\ initialized_ \in BOOLEAN /\ running_ \in BOOLEAN

NoPlugins == [p \in {} |-> 0]

MetricsInit ==
  /\ configured \in SUBSET Plugins
  /\ plugins = NoPlugins
  /\ nullPlugins = FALSE /\ initialized_ = FALSE /\ running_ = FALSE

-----------------------------------------------------------------------------
\* The plugins: the states that startMetrics and stopMetrics may leave one in.

Started == [open |-> TRUE, stopped_ |-> FALSE]
Stopped == [open |-> FALSE, stopped_ |-> TRUE]

\* A graphite server may refuse the connection.
startMetrics(p) ==
  IF ~plugins[p].stopped_ THEN {plugins[p]}
  ELSE IF p = "file" THEN {Started} ELSE {Started, Stopped}

\* The file plugin closes its stream and does not set stopped_; no more does the
\* graphite plugin when its connection is lost and shutting it down throws.
stopMetrics(p) ==
  IF plugins[p].stopped_ THEN {plugins[p]}
  ELSE IF p = "file" THEN {[open |-> FALSE, stopped_ |-> FALSE]}
  ELSE {Stopped, [open |-> FALSE, stopped_ |-> FALSE]}

-----------------------------------------------------------------------------
\* The manager.

do_start_dies == ~running_ /\ nullPlugins

do_start ==
  /\ ~do_start_dies
  /\ running_' = TRUE
  /\ IF running_ THEN UNCHANGED plugins
     ELSE plugins' \in {new \in [DOMAIN plugins -> PluginState] :
                          \A p \in DOMAIN plugins : new[p] \in startMetrics(p)}
  /\ UNCHANGED <<configured, nullPlugins, initialized_>>

do_stop ==
  /\ running_' = FALSE
  /\ IF running_
     THEN plugins' \in {new \in [DOMAIN plugins -> PluginState] :
                          \A p \in DOMAIN plugins : new[p] \in stopMetrics(p)}
     ELSE UNCHANGED plugins
  /\ UNCHANGED <<configured, nullPlugins, initialized_>>

shutdown_dies == initialized_ /\ nullPlugins

\* The plugins are stopped, then destroyed.
shutdown ==
  /\ ~shutdown_dies
  /\ running_' = FALSE /\ initialized_' = FALSE
  /\ plugins' = IF initialized_ THEN NoPlugins ELSE plugins
  /\ nullPlugins' = (nullPlugins \/ (initialized_ /\ plugins # NoPlugins))
  /\ UNCHANGED configured

\* Without a "metrics" table nothing is called.  With one, the old plugins are shut
\* down and those that load, the graphite plugin with its connection, are appended.
initialize ==
  /\ ~shutdown_dies
  /\ UNCHANGED configured
  /\ IF configured = {} THEN UNCHANGED <<plugins, nullPlugins, initialized_, running_>>
     ELSE /\ nullPlugins' = (nullPlugins \/ (initialized_ /\ plugins # NoPlugins))
          /\ initialized_' = TRUE
          /\ running_' = (running_ /\ ~initialized_)
          /\ \E loaded \in SUBSET configured : plugins' = [p \in loaded |-> Started]

\* A Core is destroyed, its manager with it.
destroyed ==
  /\ plugins' = NoPlugins
  /\ nullPlugins' = FALSE /\ initialized_' = FALSE /\ running_' = FALSE
  /\ UNCHANGED configured

\* A new Core initializes its own manager.
initializeNew ==
  /\ nullPlugins' = FALSE /\ running_' = FALSE
  /\ initialized_' = (configured # {})
  /\ \E loaded \in SUBSET configured : plugins' = [p \in loaded |-> Started]
  /\ UNCHANGED configured

=============================================================================
