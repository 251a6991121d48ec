---------------------------- MODULE PluginRuntime ----------------------------
(***************************************************************************)
(* One installed plugin: its directory and the in-place update that swaps  *)
(* it (modules/plugins/plugins.service.ts), its lifecycle in the loader    *)
(* (core/plugins/plugin-loader.service.ts, plugin-sandbox-bridge.ts), the  *)
(* worker thread of each of its generations, and the hook events that are  *)
(* dispatched into it (core/plugins/sandbox/plugin-worker-host.ts).        *)
(* Operations on one plugin are serialised; worker exits, crashes of the   *)
(* process and events are not.  A file operation is part of the step that  *)
(* makes it, but a crash may come in the middle of such a step.            *)
(***************************************************************************)
EXTENDS Naturals, FiniteSets

CONSTANTS Worker, Call, None,
          Version, Faulty,    \* packages, and those that the loader refuses
          Faults, MaxFaults,  \* what may go wrong, and how often
          MaxOps              \* requests of the operator

ASSUME PluginAssumption ==
    /\ IsFiniteSet(Call) /\ None \notin Worker \cup Version /\ Faulty \subseteq Version
    /\ Faults \subseteq {"crash", "exit", "hang", "throw", "swap"}
    /\ MaxFaults \in Nat /\ MaxOps \in Nat

VARIABLES
    up,         \* the process runs
    live, backup, staging,  \* <id>, .<id>.bak and .<id>.new: a version, or None
    decision,   \* registry: enabledByOperator
    loaded,     \* the loader's map: the version, or None
    status,     \* of the loaded plugin
    host,       \* sandboxHosts
    hooks,      \* generations whose hook shims are registered
    search,     \* the generation registered as a search provider
    worker,     \* per generation
    op,         \* the operation under way: what it is, where, its generation, wasEnabled
    call,       \* per hook event: where it is, and the host it looked up
    inFlight,   \* inFlightHookEvents of each generation's host
    ops, faults

disk     == <<live, backup, staging>>
registry == <<hooks, search>>
events   == <<call, inFlight>>
vars == <<up, live, backup, staging, decision, loaded, status, host, hooks, search, worker,
          op, call, inFlight, ops, faults>>

Status == {"none", "installed", "enabled", "disabled", "error"}
Kind   == {"none", "enable", "restore", "disable", "uninstall", "update", "back"}
Doing(kind, pc, w, was) == [kind |-> kind, pc |-> pc, w |-> w, was |-> was]
Idle   == Doing("none", "idle", None, FALSE)
Goto(pc) == op' = Doing(op.kind, pc, op.w, op.was)
NoCall == [pc |-> "idle", to |-> None]
Fault(kind) == kind \in Faults /\ faults > 0 /\ faults' = faults - 1

AllOff   == [w \in Worker |-> "off"]
NoCalls  == [c \in Call |-> NoCall]
NoCount  == [w \in Worker |-> 0]

Init == /\ up = TRUE /\ live \in Version \ Faulty /\ backup = None /\ staging = None
        /\ decision = FALSE /\ loaded = live /\ status = "installed"
        /\ op = Idle /\ host = None /\ hooks = {} /\ search = None
        /\ worker = AllOff /\ call = NoCalls /\ inFlight = NoCount
        /\ ops = MaxOps /\ faults = MaxFaults

Runs(w) == worker[w] # "off"

-----------------------------------------------------------------------------
(* Generations of the worker.                                              *)

\* handleExit: what waits for the worker is settled.
Drained(w) ==
    /\ call' = [c \in Call |-> IF call[c] = [pc |-> "open", to |-> w] THEN NoCall ELSE call[c]]
    /\ inFlight' = [inFlight EXCEPT ![w] = 0]

\* enableSandboxed: a worker, its host, and the load that the operation awaits.
Launch(kind, was) ==
    \E w \in Worker :
        /\ ~Runs(w) /\ \A c \in Call : call[c].to # w
        /\ worker' = [worker EXCEPT ![w] = "up"]
        /\ host' = w /\ op' = Doing(kind, "loading", w, was)

\* onExit of a worker that nobody terminated.
CrashCleanup == /\ host' = None /\ hooks' = {}
                /\ status' = IF loaded = None THEN status ELSE "error"

\* The worker exits by itself.
Exits(w) ==
    /\ Runs(w) /\ op.pc \notin {"failing", "terminating"} /\ Fault("exit")
    /\ worker' = [worker EXCEPT ![w] = "off"]
    /\ Drained(w) /\ search' = None /\ CrashCleanup
    /\ UNCHANGED <<up, disk, decision, loaded, op, ops>>

\* It stops answering.
Hangs(w) ==
    /\ worker[w] = "up" /\ Fault("hang")
    /\ worker' = [worker EXCEPT ![w] = "hung"]
    /\ UNCHANGED <<up, disk, decision, loaded, status, host, registry, op, events, ops>>

\* hook-subscribe: registered once for each generation.
Subscribes(w) ==
    /\ worker[w] = "up" /\ w \notin hooks
    /\ hooks' = hooks \cup {w}
    /\ UNCHANGED <<up, disk, decision, loaded, status, host, search, worker, op, events, ops, faults>>

\* search-provider-register: the transport is the host registered for the plugin.
Provides(w) ==
    /\ worker[w] = "up" /\ host # None /\ search # host
    /\ search' = host
    /\ UNCHANGED <<up, disk, decision, loaded, status, host, hooks, worker, op, events, ops, faults>>

-----------------------------------------------------------------------------
(* Requests, one at a time (serialize).                                    *)

Ready == up /\ op = Idle /\ ops > 0 /\ ops' = ops - 1

\* enableInner.
Enable ==
    /\ Ready /\ loaded # None
    /\ IF status = "enabled"
         THEN decision' = TRUE /\ UNCHANGED <<worker, host, op>>
         ELSE Launch("enable", FALSE) /\ UNCHANGED decision
    /\ UNCHANGED <<up, disk, loaded, status, registry, events, faults>>

\* The operation k tears an enabled plugin down first.
Teardown(k) == op' = Doing(k, "disabling", host, TRUE)

\* disableInner: a plugin that is not enabled, or not even loaded, is not to come back.
Disable ==
    /\ Ready
    /\ IF status = "enabled"
         THEN Teardown("disable") /\ UNCHANGED decision
         ELSE decision' = FALSE /\ UNCHANGED op
    /\ UNCHANGED <<up, disk, loaded, status, host, registry, worker, events, faults>>

\* uninstallPlugin, once unloaded.
Removed == /\ loaded' = None /\ status' = "none" /\ decision' = FALSE
           /\ live' = None /\ UNCHANGED <<backup, staging>>

Uninstall ==
    /\ Ready /\ loaded # None
    /\ IF status = "enabled"
         THEN Teardown("uninstall") /\ UNCHANGED <<disk, decision, loaded, status>>
         ELSE Removed /\ UNCHANGED op
    /\ UNCHANGED <<up, host, registry, worker, events, faults>>

\* install(): a directory that the loader refuses is removed again.
Install ==
    /\ Ready /\ loaded = None /\ live = None
    /\ \E v \in Version \ Faulty : live' = v /\ loaded' = v
    /\ status' = "installed"
    /\ UNCHANGED <<up, backup, staging, decision, host, registry, worker, op, events, faults>>

\* updatePackageInner: the new tree is staged before the plugin is stopped.
Update ==
    /\ Ready /\ loaded # None
    /\ staging' \in Version
    /\ IF status = "enabled"
         THEN Teardown("update")
         ELSE op' = Doing("update", "swap", None, FALSE)
    /\ UNCHANGED <<up, live, backup, decision, loaded, status, host, registry, worker, events, faults>>

-----------------------------------------------------------------------------
(* Enabling.                                                               *)

\* The load, then onLoad and onEnable.
Loads ==
    /\ op.pc = "loading" /\ worker[op.w] = "up"
    /\ Goto("enabling")
    /\ UNCHANGED <<up, disk, decision, loaded, status, host, registry, worker, events, ops, faults>>

\* Enabled: an update is over now, and its backup removed.
Enabled ==
    /\ op.pc = "enabling" /\ worker[op.w] = "up"
    /\ status' = "enabled" /\ op' = Idle
    /\ decision' = (decision \/ op.kind = "enable")
    /\ backup' = IF op.kind = "update" THEN None ELSE backup
    /\ UNCHANGED <<up, live, staging, loaded, host, registry, worker, events, ops, faults>>

\* Mutant: the lifecycle is awaited without a limit.
EnableFailsUntimed ==
    /\ op.pc \in {"loading", "enabling"}
    /\ \/ ~Runs(op.w) /\ UNCHANGED faults
       \/ worker[op.w] = "up" /\ Fault("throw")
    /\ host' = None /\ search' = None /\ Goto("failing")
    /\ UNCHANGED <<up, disk, decision, loaded, status, hooks, worker, events, ops>>

\* The worker is gone, does not answer in time, or reports an error.
EnableFails ==
    /\ op.pc \in {"loading", "enabling"}
    /\ \/ worker[op.w] # "up" /\ UNCHANGED faults
       \/ worker[op.w] = "up" /\ Fault("throw")
    /\ host' = None /\ search' = None /\ Goto("failing")
    /\ UNCHANGED <<up, disk, decision, loaded, status, hooks, worker, events, ops>>

\* Mutant: what the failed enable registered stays.
UnregisteredNot == UNCHANGED hooks

\* The loader drops every hook of the plugin.
Unregistered == hooks' = {}

\* Mutant: nobody ends the worker of an enable that failed.
TerminatedNot(w) == UNCHANGED <<worker, events, search>>

\* terminate() returns: the worker has exited.
Terminated(w) == /\ worker' = [worker EXCEPT ![w] = "off"]
                 /\ Drained(w) /\ search' = None

Failed ==
    /\ op.pc = "failing" /\ Terminated(op.w) /\ Unregistered
    /\ status' = "error"
    /\ op' = IF op.kind = "update" THEN Doing("update", "rollback", None, op.was) ELSE Idle
    /\ UNCHANGED <<up, disk, decision, loaded, host, ops, faults>>

-----------------------------------------------------------------------------
(* Disabling: the worker's hooks run for a limited time, and then it ends. *)

\* onDisable, and onUnload when it leaves the runtime: done, failed or timed out.
DisableRuns ==
    /\ op.pc = "disabling"
    /\ Goto("terminating")
    /\ UNCHANGED <<up, disk, decision, loaded, status, host, registry, worker, events, ops, faults>>

\* The worker has exited; the request goes on.
Disabled ==
    /\ op.pc = "terminating" /\ Terminated(op.w) /\ Unregistered
    /\ host' = None
    /\ \/ /\ op.kind = "disable" /\ status' = "disabled" /\ decision' = FALSE /\ op' = Idle
          /\ UNCHANGED <<disk, loaded>>
       \/ op.kind = "uninstall" /\ Removed /\ op' = Idle
       \/ /\ op.kind = "update" /\ status' = "disabled" /\ op' = Doing("update", "swap", None, op.was)
          /\ UNCHANGED <<disk, decision, loaded>>
    /\ UNCHANGED <<up, ops, faults>>

-----------------------------------------------------------------------------
(* The swap of an update, and its way back.                                *)

\* An enabled plugin is enabled again, in the version that was loaded.
Resume(kind) == IF op.was THEN Launch(kind, TRUE) ELSE op' = Idle /\ UNCHANGED <<worker, host>>

\* live -> backup, staging -> live, and the new version is loaded.
Swap ==
    /\ op.pc = "swap"
    /\ live' = staging /\ staging' = None
    /\ IF staging \in Faulty
         THEN /\ backup' = live /\ loaded' = None /\ status' = "none"
              /\ Goto("rollback") /\ UNCHANGED <<worker, host>>
         ELSE /\ backup' = IF op.was THEN live ELSE None
              /\ loaded' = staging /\ status' = "installed" /\ Resume("update")
    /\ UNCHANGED <<up, decision, registry, events, ops, faults>>

\* A rename failed: the old tree is put back and loaded.
SwapFails ==
    /\ op.pc = "swap" /\ Fault("swap")
    /\ staging' = None
    /\ loaded' = live /\ status' = "installed" /\ Resume("back")
    /\ UNCHANGED <<up, live, backup, decision, registry, events, ops>>

\* Mutant: the new version is not unloaded first, and the old one not loaded over it.
ReloadedOver == UNCHANGED <<loaded, status>>

\* The failed version is unloaded, the one put back is loaded.
Reloaded == loaded' = backup /\ status' = "installed"

\* The new version did not load or did not start: the old one comes back.
Rollback ==
    /\ op.pc = "rollback"
    /\ live' = backup /\ backup' = None /\ Reloaded
    /\ Resume("back")
    /\ UNCHANGED <<up, staging, decision, registry, events, ops, faults>>

-----------------------------------------------------------------------------
(* The process.  A crash in the middle of a step is told from one between   *)
(* steps where the step renames directories.                               *)

\* The disk as a crash in the middle of a step can leave it.
Cuts == CASE op.pc = "swap"     -> {<<live, None, staging>>, <<None, live, staging>>,
                                    <<staging, live, None>>}
          [] op.pc = "rollback" -> {<<live, backup, None>>, <<None, backup, None>>}
          [] OTHER              -> {disk}

Crash ==
    /\ up /\ Fault("crash") /\ up' = FALSE
    /\ \E d \in Cuts : live' = d[1] /\ backup' = d[2] /\ staging' = d[3]
    /\ loaded' = None /\ status' = "none" /\ op' = Idle
    /\ host' = None /\ hooks' = {} /\ search' = None
    /\ worker' = AllOff /\ call' = NoCalls /\ inFlight' = NoCount
    /\ UNCHANGED <<decision, ops>>

\* Mutant: every backup is taken for that of a completed swap.
RecoveredAlways == UNCHANGED live /\ backup' = None /\ staging' = None

\* recoverInterruptedUpdates.
Recovered == /\ live' = IF live = None THEN backup ELSE live
             /\ backup' = None /\ staging' = None

\* The plugins that the operator had enabled.
Restored == decision /\ live' \notin Faulty \cup {None}

\* onModuleInit loads what the directory holds, onApplicationBootstrap enables it.
Boot ==
    /\ ~up /\ up' = TRUE
    /\ Recovered
    /\ IF live' \in Faulty \cup {None}
         THEN UNCHANGED <<loaded, status>>
         ELSE loaded' = live' /\ status' = "installed"
    /\ IF Restored THEN Launch("restore", FALSE)
                   ELSE UNCHANGED <<worker, host, op>>
    /\ UNCHANGED <<decision, registry, events, ops, faults>>

-----------------------------------------------------------------------------
(* Hook events.                                                            *)

\* A shim fires, looks the host up, and awaits the handover gate.
Fires(c) ==
    /\ up /\ call[c] = NoCall /\ hooks # {} /\ host # None
    /\ call' = [call EXCEPT ![c] = [pc |-> "gate", to |-> host]]
    /\ UNCHANGED <<up, disk, decision, loaded, status, host, registry, worker, op, inFlight,
                   ops, faults>>

\* dispatchHook: a host whose worker died meanwhile lets the event pass.
Dispatches(c) ==
    /\ call[c].pc = "gate"
    /\ IF Runs(call[c].to)
         THEN /\ call' = [call EXCEPT ![c].pc = "open"]
              /\ inFlight' = [inFlight EXCEPT ![call[c].to] = @ + 1]
         ELSE call' = [call EXCEPT ![c] = NoCall] /\ UNCHANGED inFlight
    /\ UNCHANGED <<up, disk, decision, loaded, status, host, registry, worker, op, ops, faults>>

\* Mutant: the time-out leaves the event in flight.
SettledUncounted(c) == call' = [call EXCEPT ![c] = NoCall] /\ UNCHANGED inFlight

\* settle(): the event is not in flight any more.
Settled(c) == /\ call' = [call EXCEPT ![c] = NoCall]
              /\ inFlight' = [inFlight EXCEPT ![call[c].to] = @ - 1]

\* Mutant: the result is waited for.
AnswersUntimed(c) ==
    /\ call[c].pc = "open" /\ worker[call[c].to] = "up" /\ Settled(c)
    /\ UNCHANGED <<up, disk, decision, loaded, status, host, registry, worker, op, ops, faults>>

\* The result came, or the time was over: a result that comes later finds no waiter.
Answers(c) ==
    /\ call[c].pc = "open" /\ Settled(c)
    /\ UNCHANGED <<up, disk, decision, loaded, status, host, registry, worker, op, ops, faults>>

Step == Loads \/ Enabled \/ EnableFails \/ Failed \/ DisableRuns \/ Disabled
        \/ Swap \/ SwapFails \/ Rollback
Next == \/ Enable \/ Disable \/ Uninstall \/ Install \/ Update
        \/ Step \/ Crash \/ Boot
        \/ \E w \in Worker : Exits(w) \/ Hangs(w) \/ Subscribes(w) \/ Provides(w)
        \/ \E c \in Call : Fires(c) \/ Dispatches(c) \/ Answers(c)

Spec == Init /\ [][Next]_vars

\* Promises settle, lifecycle and hook calls are limited in time, terminate() ends a
\* worker, and a process that died is started again.
FairSpec == /\ Spec /\ WF_vars(Step) /\ WF_vars(Boot)
            /\ \A c \in Call : WF_vars(Dispatches(c)) /\ WF_vars(Answers(c))

-----------------------------------------------------------------------------
(* Properties.                                                             *)

\* Every variable keeps to its range.
TypeOK ==
    /\ up \in BOOLEAN /\ decision \in BOOLEAN
    /\ {live, backup, staging, loaded} \subseteq Version \cup {None}
    /\ status \in Status
    /\ hooks \subseteq Worker /\ {host, search} \subseteq Worker \cup {None}
    /\ worker \in [Worker -> {"off", "up", "hung"}]
    /\ op \in [kind : Kind, w : Worker \cup {None}, was : BOOLEAN,
               pc : {"idle", "loading", "enabling", "failing", "disabling", "terminating",
                     "swap", "rollback"}]
    /\ call \in [Call -> [pc : {"idle", "gate", "open"}, to : Worker \cup {None}]]
    /\ inFlight \in [Worker -> 0..Cardinality(Call)]
    /\ ops \in 0..MaxOps /\ faults \in 0..MaxFaults

\* No worker thread is left behind by a failed enable, a crash, an update or an
\* uninstall: whatever runs is the plugin's host or in the hands of the operation.
NoStrayWorker == \A w \in Worker : Runs(w) => w \in {host, op.w}

\* What reports ENABLED has a worker; a crash shows.
EnabledIsLive == status = "enabled" /\ op = Idle => host # None /\ Runs(host) /\ loaded # None

\* No hook shim and no search provider outlives its generation: an event would be
\* dispatched twice, and every search sent to a dead worker.
RegistrationsLive == \A w \in hooks \cup ({search} \ {None}) : Runs(w)

\* Nothing of a generation is left behind.
NothingLeft == NoStrayWorker /\ RegistrationsLive

\* An event waits only for a worker that runs, and counts as in flight exactly while it
\* waits: a count that stays would cut the plugin off from its own events for good.
CallsLive == \A w \in Worker :
    LET open == {c \in Call : call[c] = [pc |-> "open", to |-> w]} IN
    inFlight[w] = Cardinality(open) /\ (open # {} => Runs(w))

\* Between operations the loader runs the version that is on the disk, and no update
\* has left anything there.
Synced == up /\ op = Idle => /\ loaded = IF live \in Faulty THEN None ELSE live
                             /\ backup = None /\ staging = None

\* Whatever an update was doing when the process died, the plugin is still there.
NeverVanishes ==
    [][up' # up /\ {live, backup} # {None} => live' # None \/ (~up' /\ backup' # None)]_vars

\* At rest nothing runs that the operator did not enable, restarts included.
OnlyAsDecided == status = "enabled" /\ op = Idle => decision

\* An update of an enabled plugin ends with the new version or the old one running, or
\* with an error that shows: never with the plugin silently off.
UpdateResumes ==
    [][op.kind \in {"update", "back"} /\ op.was /\ op' = Idle /\ up'
          => status' \in {"enabled", "error"}]_vars

\* Every operation ends, hung workers included: the next one waits for it.
OperationsEnd == (up /\ op # Idle) ~> (op = Idle)

\* Every event goes on, hung and dead workers included: the hook chain waits for it.
EventsEnd == \A c \in Call : (call[c].pc # "idle") ~> (call[c].pc = "idle")

\* Whatever was begun ends.
EverythingEnds == OperationsEnd /\ EventsEnd
=============================================================================
