------------------------------ MODULE AppPlane ------------------------------
(***************************************************************************)
(* The app plane: one band over a knob of an application (an AppBand over   *)
(* a config file, a protocol CONFIG SET, a JVM MBean or an admin RPC), or   *)
(* over a field of another operator's object (a KubeParamBand).  Usage is  *)
(* read from the metrics plane, the limit from the actuator the layout's    *)
(* tag selects.                                                            *)
(*                                                                         *)
(* A knob has the value its process runs with and the value that survives  *)
(* a restart of it: the line in the file, the field of the object, or the  *)
(* default a process without either boots with.                            *)
(***************************************************************************)
EXTENDS BandLaw

CONSTANTS
    AppBands,       \* band specs to explore
    BootValue,      \* what a knob that lives in memory alone boots with
    AppLoads,       \* usage the metrics plane may report
    MaxAppMoves,    \* bound on moves of the load and of a rival owner
    MaxAppFaults    \* bound on failed calls and process restarts

NoPeak == -1

AppActuatorKind == {"ConfigReload", "ApiCall", "Jmx", "AppRpc", "KubeParam"}

\* reload is the layout's ConfigReload, or whether a CR field's operator
\* rolls its pods on a change; protocol is what the command string names,
\* and linked whether the JVM and admin clients are enabled, and whether
\* the file has the key.
AppBand == [kind : AppActuatorKind, reload : {"Sighup", "Reload", "Restart"},
            protocol : {"Redis", "Kafka", "Nats"}, linked : BOOLEAN,
            cfg : BandConfig, dir : {"Bidirectional", "GrowOnly"}, policy : DisruptionPolicy,
            force : Nat \cup {NoPeak}, suspended : BOOLEAN, cooldown : Nat, decay : 0..99]

ASSUME AppAssumption ==
    /\ AppBands \subseteq AppBand /\ AppLoads \subseteq Nat \ {0}
    /\ BootValue \in Nat \ {0} /\ {MaxAppMoves, MaxAppFaults} \subseteq Nat

VARIABLES
    aband,      \* the band
    awindow,    \* whether its promotion window has passed
    astored,    \* the value that survives a restart
    arunning,   \* the value the process runs with
    aload,      \* what the metrics plane reports
    arival,     \* whether another manager owns the field
    astatus,    \* [peak, cool]
    ajob,       \* the tick in progress
    aevents     \* bounded events so far

app_vars == <<aband, awindow, astored, arunning, aload, arival, astatus, ajob, aevents>>

AppIdle == [pc |-> "idle", to |-> 0, peak |-> NoPeak, receipt |-> "Observed", writes |-> FALSE]

AppInit ==
    /\ aband \in AppBands /\ awindow \in BOOLEAN
    /\ astored = BootValue /\ arunning = BootValue
    /\ aload \in AppLoads /\ arival = FALSE
    /\ astatus = [peak |-> NoPeak, cool |-> 0]
    /\ ajob = AppIdle
    /\ aevents = [moves |-> 0, faults |-> 0]

AppFault ==
    /\ aevents.faults < MaxAppFaults
    /\ aevents' = [aevents EXCEPT !.faults = @ + 1]

-----------------------------------------------------------------------------
(***************************************************************************)
(* ActuatorCluster and the actuators behind it.                            *)
(***************************************************************************)
\* Whether the knob has a stored value that breathe reads and writes.
IsStored == aband.kind \in {"ConfigReload", "KubeParam"}

\* Mutant: what the process was configured with, whatever it runs with.
app_limit_configured == astored

\* read_limit: the file's line or the object's field; otherwise the value
\* asked of the process itself.
app_limit == IF IsStored THEN astored ELSE arunning

\* classify_command and the typed clients: only Redis has one.
HasClient == aband.protocol = "Redis"

\* An unlinked bridge, a missing key and a missing client are errors that
\* no retry cures.
Readable ==
    CASE aband.kind = "ApiCall"   -> HasClient
      [] aband.kind = "KubeParam" -> TRUE
      [] OTHER                    -> aband.linked

\* LimitLayout::action_class: only a value read at start-up costs a restart.
app_class ==
    IF aband.kind \in {"ConfigReload", "KubeParam"} /\ aband.reload = "Restart"
    THEN "RestartRequiring" ELSE "RestartFree"

\* ConfigReloadEnv::reload of the controller's default environment: it has
\* neither a pid file to signal nor a command to run, so only the deferred
\* restart succeeds.
Reloaded == aband.reload = "Restart"

-----------------------------------------------------------------------------
(***************************************************************************)
(* reconcile_app_band and reconcile_kube_param.                            *)
(***************************************************************************)
app_peak == Larger(aload, IF astatus.peak = NoPeak THEN aload ELSE MulFloor(astatus.peak, aband.decay))

app_obs ==
    [used |-> aload, peak |-> app_peak, limit |-> app_limit,
     absent |-> FALSE, conflict |-> arival, staleness |-> 0, observed_for |-> 1000000,
     throttled |-> FALSE, restarting |-> FALSE, capable |-> TRUE]

AppJob(obs, to, receipt, writes) ==
    [pc |-> IF receipt = "Applied" THEN "apply" ELSE "report",
     to |-> to, peak |-> obs.peak, receipt |-> receipt, writes |-> writes]

\* The mutation door: the disruption policy, then the gate.
AppDoor(obs, to, open, writes) ==
    AppJob(obs, to, IF ~permits(aband.policy, app_class) THEN "Deferred"
                    ELSE IF open THEN "Applied" ELSE "ShadowWouldApply", writes)

\* Break-glass forceLimit, clamped to the band's range.
AppForced(obs, open, writes) ==
    LET to == Smaller(Larger(aband.force, aband.cfg.floor_bytes), aband.cfg.ceiling_bytes)
    IN IF to = obs.limit THEN AppJob(obs, 0, "Observed", writes) ELSE AppDoor(obs, to, open, writes)

AppPlanned(obs, open, writes) ==
    LET plan == plan_tick(obs, aband.cfg, aband.dir, "Enabled", "Forbidden",
                          [on |-> FALSE, ahead |-> 0], 0, astatus.cool > 0)
    IN IF plan.arm = "Act" THEN AppDoor(obs, plan.decision.to, open, writes)
       ELSE AppJob(obs, 0, plan.arm, writes)

\* Both clocks of the tick: whether the actuator writes is read first, the
\* gate of the mutation door after it, and the window may pass in between.
AppRead ==
    /\ ajob.pc = "idle" /\ ~aband.suspended /\ validate(aband.cfg)
    /\ \/ /\ Readable
          /\ \E open \in {awindow, TRUE}, obs \in {app_obs} :
               /\ awindow' = open
               /\ ajob' = IF aband.force # NoPeak THEN AppForced(obs, open, awindow)
                                                 ELSE AppPlanned(obs, open, awindow)
          /\ UNCHANGED aevents
       \/ /\ ~Readable
          /\ ajob' = [AppIdle EXCEPT !.pc = "report", !.receipt = "Error"]
          /\ UNCHANGED <<awindow, aevents>>
       \/ /\ AppFault
          /\ ajob' = [AppIdle EXCEPT !.pc = "report", !.receipt = "Error"]
          /\ UNCHANGED awindow
    /\ UNCHANGED <<aband, astored, arunning, aload, arival, astatus>>

AppReceipt(receipt) == ajob' = [ajob EXCEPT !.pc = "report", !.receipt = receipt]

Unwritten == UNCHANGED <<astored, arunning>>

\* A call that writes: it may fail before the write, or lose its answer.
Attempt(written) ==
    \/ written /\ AppReceipt("Applied") /\ UNCHANGED aevents
    \/ AppFault /\ written /\ AppReceipt("Error")
    \/ AppFault /\ Unwritten /\ AppReceipt("Error")

SetLive == arunning' = ajob.to /\ UNCHANGED astored

\* The line is written first; a reload that fails leaves it written.
ConfigApply ==
    \/ /\ astored' = ajob.to /\ UNCHANGED <<arunning, aevents>>
       /\ AppReceipt(IF Reloaded THEN "Applied" ELSE "Error")
    \/ AppFault /\ Unwritten /\ AppReceipt("Error")

ApiCallApply == Attempt(SetLive)
AppRpcApply  == Attempt(SetLive)

\* Jolokia reports a refused write inside an answer that is not looked into.
JmxApply == Attempt(SetLive) \/ (AppFault /\ Unwritten /\ AppReceipt("Applied"))

KubeApply == Attempt(astored' = ajob.to /\ arunning' = ajob.to)

\* Cluster::apply.  An actuator built in shadow reports success and writes
\* nothing; a Kubernetes field has no such switch.
AppApply ==
    /\ ajob.pc = "apply"
    /\ \/ aband.kind = "KubeParam" /\ KubeApply
       \/ /\ aband.kind # "KubeParam" /\ ~ajob.writes
          /\ Unwritten /\ AppReceipt("Applied") /\ UNCHANGED aevents
       \/ /\ ajob.writes
          /\ \/ aband.kind = "ConfigReload" /\ ConfigApply
             \/ aband.kind = "ApiCall" /\ ApiCallApply
             \/ aband.kind = "Jmx" /\ JmxApply
             \/ aband.kind = "AppRpc" /\ AppRpcApply
    /\ UNCHANGED <<aband, awindow, aload, arival, astatus>>

\* status_for and the merge patch.
AppReport ==
    /\ ajob.pc = "report"
    /\ astatus' = [peak |-> IF ajob.peak = NoPeak THEN astatus.peak ELSE ajob.peak,
                   cool |-> IF ajob.receipt = "Applied" THEN aband.cooldown ELSE astatus.cool]
    /\ ajob' = AppIdle
    /\ UNCHANGED <<aband, awindow, astored, arunning, aload, arival, aevents>>

-----------------------------------------------------------------------------
(***************************************************************************)
(* The application, and the other owner of a shared field.                 *)
(***************************************************************************)
ProcessRestarts ==
    /\ AppFault
    /\ arunning' = astored
    /\ UNCHANGED <<aband, awindow, astored, aload, arival, astatus, ajob>>

AppLoadMoves ==
    /\ aevents.moves < MaxAppMoves
    /\ aevents' = [aevents EXCEPT !.moves = @ + 1]
    /\ aload' \in AppLoads \ {aload}
    /\ UNCHANGED <<aband, awindow, astored, arunning, arival, astatus, ajob>>

\* Only fields of Kubernetes objects have managers; the actuators report an
\* empty owner set.
RivalMoves ==
    /\ aband.kind = "KubeParam" /\ aevents.moves < MaxAppMoves
    /\ aevents' = [aevents EXCEPT !.moves = @ + 1]
    /\ arival' = ~arival
    /\ UNCHANGED <<aband, awindow, astored, arunning, aload, astatus, ajob>>

AppSecond ==
    /\ astatus.cool > 0
    /\ astatus' = [astatus EXCEPT !.cool = @ - 1]
    /\ UNCHANGED <<aband, awindow, astored, arunning, aload, arival, ajob, aevents>>

AppNext ==
    \/ AppRead \/ AppApply \/ AppReport \/ ProcessRestarts
    \/ AppLoadMoves \/ RivalMoves \/ AppSecond

-----------------------------------------------------------------------------
(***************************************************************************)
(* Properties.                                                             *)
(***************************************************************************)
\* A knob whose process has been outgrown by its load, with room and the
\* authority to raise it.
Outgrown ==
    /\ Readable /\ ~aband.suspended /\ aband.force = NoPeak /\ aband.dir = "Bidirectional"
    /\ awindow /\ ~arival /\ permits(aband.policy, app_class)
    /\ arunning < aband.cfg.ceiling_bytes
    /\ aload * 100 > aband.cfg.grow_above * arunning

\* An outgrown knob that is set in the process itself, or by the operator of
\* its object, is raised in the end, through processes that restart into their
\* boot value, answers lost after the write, refused writes reported as done
\* and a tick whose window passes between its two clocks and which reports an
\* apply that wrote nothing.
KnobRelieved == []<>(Outgrown => aband.kind = "ConfigReload")

\* A value carved into a config file takes effect in the process ("triggers the
\* matching ConfigReload so the value takes effect"), where the mechanism is a
\* live one.  It does not: the controller's environment can neither signal nor
\* run a command, the line is written before the reload fails, and every later
\* tick finds the file in band.
ReloadTakesEffect == []<>(Outgrown => aband.kind # "ConfigReload" \/ aband.reload = "Restart")
=============================================================================
