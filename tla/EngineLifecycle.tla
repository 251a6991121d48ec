--------------------------- MODULE EngineLifecycle ---------------------------
(***************************************************************************)
(* The engines of one process for one session NAME: which engine object is *)
(* built, launched, replaced and torn down, and when the directory of its  *)
(* WhatsApp credentials (keyed by the name) is written and removed.        *)
(*                                                                         *)
(* A start, a reconnect attempt and the controls (stop, logout, kill,      *)
(* delete) are flows: each action is what a flow does between two awaits   *)
(* that wait for something.  Nothing serialises the flows but the start    *)
(* reservation, the engine registry, the stop mark and the fence on        *)
(* pending credential teardowns.  Session ids share the name: one of them  *)
(* has a row at a time, and a deleted one may be recreated as another.     *)
(***************************************************************************)
EXTENDS Naturals, FiniteSets

CONSTANTS Session, Engine, Flow,
          NoSession, NoEngine,
          Requests,      \* what operators may ask
          Faults,        \* what may go wrong
          MaxRequests,   \* bound on the requests of a behaviour
          MaxFaults      \* bound on its faults

ASSUME LifecycleAssumption ==
    /\ NoSession \notin Session /\ NoEngine \notin Engine
    /\ MaxRequests \in Nat /\ MaxFaults \in Nat
    /\ Requests \subseteq {"start", "stop", "logout", "kill", "delete", "create"}
    /\ Faults \subseteq {"drop", "unlink", "early", "stuck", "error", "reject",
                         "hang", "query", "exhaust", "slow"}

VARIABLES
    row,        \* [Session -> absent, present or deleted]
    status,     \* [Session -> sessions.status]
    engine,     \* [Engine -> [owner, phase]]
    registry,   \* EngineRegistry.engines
    stopMark,   \* stoppingSessions
    stopped,    \* ghost: marked sessions that a control has gone on to take down
    reconnect,  \* reconnectStates: no entry, entry without timer, armed, fired
    recovered,  \* stuckAuthRecoveryUsed
    flow,       \* [Flow -> FlowState]
    dropping,   \* handleEngineDisconnected() is reading the row for these
    wiping,     \* pendingTeardowns: engines whose credential removal is tracked
    clearing,   \* engines in recoverFromStuckAuth(), whose removal is not tracked
    dir,        \* the engine that last populated the auth directory
    requests, faults

table == <<row, status>>
marks == <<stopMark, stopped, recovered>>
disk  == <<wiping, clearing, dir>>
ghost == <<requests, faults>>
vars  == <<row, status, engine, registry, stopMark, stopped, reconnect, recovered, flow,
           dropping, wiping, clearing, dir, requests, faults>>

Control == {"stop", "logout", "kill", "delete"}
Kind    == {"none", "start", "attempt"} \cup Control
PC      == {"idle", "enter", "fence", "fence2", "hook", "saving", "launching", "reap",
            "failing", "failed", "guard", "initial", "teardown", "record", "retire", "residue", "purge"}
Status  == {"created", "initializing", "disconnected", "failed"}
Phase   == {"built", "launching", "up", "dead", "torn"}
Live    == {"launching", "up"}

FlowState == [ kind : Kind, session : Session \cup {NoSession}, pc : PC,
               engine : Engine \cup {NoEngine}, waits : SUBSET Engine ]

NoFlow == [kind |-> "none", session |-> NoSession, pc |-> "idle",
           engine |-> NoEngine, waits |-> {}]

\* Types, and: a registered engine is its session's and has not been torn down,
\* and a flow that is over holds nothing.
TypeOK == /\ row \in [Session -> {"absent", "present", "deleted"}]
          /\ status \in [Session -> Status]
          /\ engine \in [Engine -> [owner : Session \cup {NoSession}, phase : Phase]]
          /\ registry \in [Session -> Engine \cup {NoEngine}]
          /\ stopMark \in SUBSET Session /\ stopped \in SUBSET stopMark
          /\ recovered \in SUBSET Session
          /\ reconnect \in [Session -> {"none", "dormant", "armed", "spent"}]
          /\ flow \in [Flow -> FlowState]
          /\ dropping \in SUBSET Engine /\ wiping \in SUBSET Engine /\ clearing \in SUBSET Engine
          /\ dir \in Engine \cup {NoEngine}
          /\ requests \in Nat /\ faults \in Nat
          /\ \A s \in Session : registry[s] # NoEngine =>
                engine[registry[s]].owner = s /\ engine[registry[s]].phase # "torn"
          /\ \A f \in Flow : flow[f].kind = "none" <=> flow[f] = NoFlow

\* One row has the name; the process has just booted.
Init == /\ \E s \in Session :
             row = [t \in Session |-> IF t = s THEN "present" ELSE "absent"]
        /\ status = [s \in Session |-> "created"]
        /\ engine = [e \in Engine |-> [owner |-> NoSession, phase |-> "torn"]]
        /\ registry = [s \in Session |-> NoEngine]
        /\ stopMark = {} /\ stopped = {} /\ recovered = {}
        /\ reconnect = [s \in Session |-> "none"]
        /\ flow = [f \in Flow |-> NoFlow]
        /\ dropping = {} /\ wiping = {} /\ clearing = {} /\ dir = NoEngine
        /\ requests = MaxRequests /\ faults = MaxFaults

-----------------------------------------------------------------------------
\* What the handlers share.

Present(s)   == row[s] = "present"
Closing(e)   == \E f \in Flow : flow[f].engine = e /\ flow[f].pc \in {"teardown", "retire"}
Saving(e)    == \E f \in Flow : flow[f].engine = e /\ flow[f].pc = "saving"
Settled(f)   == flow[f].waits \cap wiping = {}
IsLive(e)    == engine[e].owner # NoSession /\ registry[engine[e].owner] = e

\* An object nobody holds any more: its name may stand for a new one.
Available == {e \in Engine : /\ engine[e].phase = "torn" /\ dir # e
                             /\ \A s \in Session : registry[s] # e
                             /\ e \notin dropping \cup wiping \cup clearing
                             /\ \A f \in Flow : flow[f].engine # e /\ e \notin flow[f].waits}

Request(r) == r \in Requests /\ requests > 0 /\ requests' = requests - 1 /\ UNCHANGED faults
Fault(x)   == x \in Faults /\ faults > 0 /\ faults' = faults - 1 /\ UNCHANGED requests

Enter(f, r) == flow' = [flow EXCEPT ![f] = r]
Goto(f, pc) == Enter(f, [flow[f] EXCEPT !.pc = pc, !.waits = {}])
Leave(f)    == Enter(f, NoFlow)

\* The engine table eng with e torn down, if e is an engine; the map without it, if it is there.
Torn(eng, e)    == IF e = NoEngine THEN eng ELSE [eng EXCEPT ![e].phase = "torn"]
DeleteIfLive(e) == [s \in Session |-> IF registry[s] = e THEN NoEngine ELSE registry[s]]

\* An UPDATE of a row that is gone matches nothing.
WithStatus(s, v) == IF Present(s) THEN [status EXCEPT ![s] = v] ELSE status

\* The stop mark of s goes, and with it what a control had stopped.
Unmark(s) == stopMark' = stopMark \ {s} /\ stopped' = stopped \ {s}

\* awaitPendingTeardown(): flow f (of kind k) waits at pc for the removals pending now.
Wait(f, s, k, pc) ==
    Enter(f, [kind |-> k, session |-> s, pc |-> pc, engine |-> flow[f].engine, waits |-> wiping])

-----------------------------------------------------------------------------
\* initializeEngine(), and the start that runs it.

\* Build and register an engine for s in flow f; an engine registered before is
\* overwritten.  reg and eng are the registry and the engines so far.
Register(f, s, k, reg, eng) ==
    \E e \in Available :
        /\ engine' = [eng EXCEPT ![e] = [owner |-> s, phase |-> "built"]]
        /\ registry' = [reg EXCEPT ![s] = e]
        /\ Enter(f, [kind |-> k, session |-> s, pc |-> "saving", engine |-> e, waits |-> {}])

\* Past the fence, a start clears the stop mark and any reconnect, then runs its hook.
Accept(f, s) ==
    /\ Unmark(s)
    /\ reconnect' = [reconnect EXCEPT ![s] = "none"]
    /\ Enter(f, [NoFlow EXCEPT !.kind = "start", !.session = s, !.pc = "hook"])

\* Mutants: no reservation against a second start; no credential fence.
StartUnreserved(f, s) ==
    /\ Request("start")
    /\ flow[f] = NoFlow /\ Present(s) /\ registry[s] = NoEngine
    /\ Accept(f, s)
    /\ UNCHANGED <<table, engine, registry, recovered, dropping, disk>>
StartUnfenced(f, s) ==
    /\ \A g \in Flow : ~(flow[g].kind = "start" /\ flow[g].session = s)
    /\ StartUnreserved(f, s)

\* start(), from the row it read to its hook or to the fence.
Start(f, s) ==
    /\ Request("start")
    /\ flow[f] = NoFlow /\ Present(s) /\ registry[s] = NoEngine
    /\ \A g \in Flow : ~(flow[g].kind = "start" /\ flow[g].session = s)
    /\ IF wiping = {} THEN Accept(f, s)
       ELSE Wait(f, s, "start", "fence") /\ UNCHANGED <<stopMark, stopped, reconnect>>
    /\ UNCHANGED <<table, engine, registry, recovered, dropping, disk>>

StartFenced(f) ==
    /\ flow[f].kind = "start" /\ flow[f].pc = "fence" /\ Settled(f)
    /\ Accept(f, flow[f].session)
    /\ UNCHANGED <<table, engine, registry, recovered, dropping, disk, ghost>>

StartRegister(f) ==
    LET s == flow[f].session IN
    /\ flow[f].kind = "start" /\ flow[f].pc = "hook"
    /\ reconnect' = [reconnect EXCEPT ![s] = "dormant"]
    /\ recovered' = recovered \ {s}
    /\ Register(f, s, "start", registry, engine)
    /\ UNCHANGED <<table, stopMark, stopped, dropping, disk, ghost>>

\* Mutant: the mark is not looked at after the launch.
AfterInitUnmarked(f) == Goto(f, "guard")

\* isSessionRetired() once initialize() has returned: the mark now, the row later.
\* A retired session's registered engine is torn down.
AfterInit(f) ==
    LET s == flow[f].session IN
    IF s \notin stopMark THEN Goto(f, "guard")
    ELSE Enter(f, [flow[f] EXCEPT !.engine = registry[s],
                                  !.pc = IF registry[s] = NoEngine THEN "residue" ELSE "retire"])

\* Mutant: initialize() runs whatever happened during the write.
SavedUnchecked(f) ==
    LET e == flow[f].engine IN
    /\ flow[f].pc = "saving"
    /\ status' = WithStatus(flow[f].session, "initializing")
    /\ engine' = [engine EXCEPT ![e].phase = "launching"]
    /\ dir' = e
    /\ Goto(f, "launching")
    /\ UNCHANGED <<row, registry, marks, reconnect, dropping, wiping, clearing, ghost>>

\* The INITIALIZING write returns: initialize() runs unless the engine was
\* replaced or its session marked meanwhile.
Saved(f) ==
    LET s == flow[f].session
        e == flow[f].engine
    IN  /\ flow[f].pc = "saving"
        /\ status' = WithStatus(s, "initializing")
        /\ IF IsLive(e) /\ s \notin stopMark
           THEN /\ engine' = [engine EXCEPT ![e].phase = "launching"]
                /\ dir' = e
                /\ Goto(f, "launching")
           ELSE AfterInit(f) /\ UNCHANGED <<engine, dir>>
        /\ UNCHANGED <<row, registry, marks, reconnect, dropping, wiping, clearing, ghost>>

\* The INITIALIZING write fails, and with it the launch and the controls that
\* await it (a delete takes its mark back).
SaveFails(f) ==
    LET s == flow[f].session
        Awaits(g) == flow[g].pc = "initial" /\ flow[g].engine = flow[f].engine
    IN  /\ flow[f].pc = "saving" /\ Fault("query")
        /\ flow' = [g \in Flow |-> IF g = f THEN [flow[f] EXCEPT !.pc = "failing"]
                                    ELSE IF Awaits(g) THEN NoFlow ELSE flow[g]]
        /\ IF \E g \in Flow : Awaits(g) /\ flow[g].kind = "delete"
           THEN Unmark(s) ELSE UNCHANGED <<stopMark, stopped>>
        /\ UNCHANGED <<table, engine, registry, reconnect, recovered, dropping, disk>>

\* initialize() returns; an engine that died under it may make it return or reject.
Launched(f) ==
    LET e == flow[f].engine IN
    /\ flow[f].pc = "launching"
    /\ engine' = IF engine[e].phase = "launching" THEN [engine EXCEPT ![e].phase = "up"]
                 ELSE engine
    /\ AfterInit(f)
    /\ UNCHANGED <<table, registry, marks, reconnect, dropping, disk, ghost>>

\* scheduleReconnect(s): nothing without reconnect state, else arm the timer, or
\* give up: FAILED, the registered engine killed, the state dropped.
Reschedule(s, reg, eng, sta) ==
    \/ /\ reconnect[s] = "none"
       /\ registry' = reg /\ engine' = eng /\ status' = sta
       /\ UNCHANGED <<reconnect, ghost>>
    \/ /\ reconnect[s] # "none"
       /\ reconnect' = [reconnect EXCEPT ![s] = "armed"]
       /\ registry' = reg /\ engine' = eng /\ status' = sta
       /\ UNCHANGED ghost
    \/ /\ reconnect[s] # "none" /\ Fault("exhaust")
       /\ reconnect' = [reconnect EXCEPT ![s] = "none"]
       /\ registry' = [reg EXCEPT ![s] = NoEngine]
       /\ engine' = Torn(eng, reg[s])
       /\ status' = IF Present(s) THEN [sta EXCEPT ![s] = "failed"] ELSE sta

\* start()'s catch, and executeReconnect()'s: whatever engine is registered for
\* the session is taken for the one that failed.
Fails(f, eng, sta) ==
    LET s == flow[f].session
        e == registry[s]
    IN  \/ /\ flow[f].kind = "start"
           /\ engine' = Torn(eng, e) /\ status' = sta
           /\ registry' = [registry EXCEPT ![s] = NoEngine]
           /\ IF e = NoEngine
              THEN Leave(f) /\ reconnect' = [reconnect EXCEPT ![s] = "none"]
              ELSE Goto(f, "failed") /\ UNCHANGED reconnect
           /\ UNCHANGED ghost
        \/ /\ flow[f].kind = "attempt"
           /\ Reschedule(s, [registry EXCEPT ![s] = NoEngine], Torn(eng, e), sta)
           /\ Leave(f)

\* initialize() rejects because the engine died under it.
LaunchAborted(f) ==
    /\ flow[f].pc = "launching" /\ engine[flow[f].engine].phase \in {"dead", "torn"}
    /\ Fails(f, engine, status)
    /\ UNCHANGED <<row, marks, dropping, disk>>

\* initialize() rejects: a launch that cannot succeed.
LaunchRejected(f) ==
    LET e == flow[f].engine IN
    /\ flow[f].pc = "launching" /\ engine[e].phase = "launching" /\ Fault("reject")
    /\ engine' = [engine EXCEPT ![e].phase = "dead"]
    /\ Goto(f, "failing")
    /\ UNCHANGED <<table, registry, marks, reconnect, dropping, disk>>

Rejected(f) ==
    /\ flow[f].pc = "failing"
    /\ Fails(f, engine, status)
    /\ UNCHANGED <<row, marks, dropping, disk>>

\* Mutants: a hung launch is evicted but not killed; killed but not evicted.
HangLeavesRunning(f) ==
    /\ flow[f].pc = "launching" /\ Fault("hang")
    /\ registry' = [registry EXCEPT ![flow[f].session] = NoEngine]
    /\ Goto(f, "reap")
    /\ UNCHANGED <<table, engine, marks, reconnect, dropping, disk>>

\* initialize() passes its deadline: whatever engine is registered leaves the
\* registry, this flow's engine is killed, and the flow fails after a status write.
LaunchHangs(f) ==
    LET e == flow[f].engine IN
    /\ flow[f].pc = "launching" /\ Fault("hang")
    /\ registry' = [registry EXCEPT ![flow[f].session] = NoEngine]
    /\ engine' = Torn(engine, e)
    /\ Goto(f, "reap")
    /\ UNCHANGED <<table, marks, reconnect, dropping, disk>>

Reaped(f) ==
    /\ flow[f].pc = "reap"
    /\ Fails(f, engine, WithStatus(flow[f].session, "disconnected"))
    /\ UNCHANGED <<row, marks, dropping, disk>>

StartFailed(f) ==
    LET s == flow[f].session IN
    /\ flow[f].pc = "failed"
    /\ status' = WithStatus(s, "failed")
    /\ reconnect' = [reconnect EXCEPT ![s] = "none"]
    /\ Leave(f)
    /\ UNCHANGED <<row, engine, registry, marks, dropping, disk, ghost>>

\* The row is read: gone, and the session is retired after all.
Guarded(f) ==
    LET s == flow[f].session IN
    /\ flow[f].pc = "guard"
    /\ IF Present(s) THEN Leave(f)
       ELSE Enter(f, [flow[f] EXCEPT !.engine = registry[s],
                                     !.pc = IF registry[s] = NoEngine THEN "residue" ELSE "retire"])
    /\ UNCHANGED <<table, engine, registry, marks, reconnect, dropping, disk, ghost>>

Retired(f) ==
    /\ flow[f].pc = "retire"
    /\ engine' = Torn(engine, flow[f].engine)
    /\ registry' = DeleteIfLive(flow[f].engine)
    /\ Goto(f, "residue")
    /\ UNCHANGED <<table, marks, reconnect, dropping, disk, ghost>>

\* purgeAuthDirsIfDeleted(): unless the session, or another of its name, has a row.
Residue(f) ==
    /\ flow[f].pc = "residue"
    /\ IF \E s \in Session : Present(s) THEN Leave(f) ELSE Goto(f, "purge")
    /\ UNCHANGED <<table, engine, registry, marks, reconnect, dropping, disk, ghost>>

Purged(f) ==
    /\ flow[f].pc = "purge" /\ flow[f].kind # "delete"
    /\ dir' = NoEngine
    /\ Leave(f)
    /\ UNCHANGED <<table, engine, registry, marks, reconnect, dropping, wiping, clearing, ghost>>

-----------------------------------------------------------------------------
\* executeReconnect().

ReconnectFires(f, s) ==
    LET e == registry[s] IN
    /\ flow[f] = NoFlow /\ reconnect[s] = "armed"
    /\ reconnect' = [reconnect EXCEPT ![s] = "spent"]
    /\ \/ s \in stopMark /\ UNCHANGED <<engine, registry, flow>>
       \/ /\ s \notin stopMark /\ e # NoEngine
          /\ Enter(f, [kind |-> "attempt", session |-> s, pc |-> "teardown",
                       engine |-> e, waits |-> {}])
          /\ UNCHANGED <<engine, registry>>
       \/ /\ s \notin stopMark /\ e = NoEngine
          /\ IF wiping = {} THEN Register(f, s, "attempt", registry, engine)
             ELSE Wait(f, s, "attempt", "fence") /\ UNCHANGED <<engine, registry>>
    /\ UNCHANGED <<table, marks, dropping, disk, ghost>>

\* Mutant: the attempt relaunches without the credential fence.
AttemptUnfenced(f) ==
    LET e == flow[f].engine IN
    /\ flow[f].kind = "attempt" /\ flow[f].pc = "teardown"
    /\ Register(f, flow[f].session, "attempt", DeleteIfLive(e), Torn(engine, e))
    /\ UNCHANGED <<table, marks, reconnect, dropping, disk, ghost>>

\* The old engine is down (killed, if destroy() did not finish).
AttemptCleared(f) ==
    LET e == flow[f].engine
        s == flow[f].session
    IN  /\ flow[f].kind = "attempt" /\ flow[f].pc = "teardown"
        /\ IF wiping = {} THEN Register(f, s, "attempt", DeleteIfLive(e), Torn(engine, e))
           ELSE /\ Wait(f, s, "attempt", "fence")
                /\ engine' = Torn(engine, e) /\ registry' = DeleteIfLive(e)
        /\ UNCHANGED <<table, marks, reconnect, dropping, disk, ghost>>

AttemptFenced(f) ==
    /\ flow[f].kind = "attempt" /\ flow[f].pc = "fence" /\ Settled(f)
    /\ Register(f, flow[f].session, "attempt", registry, engine)
    /\ UNCHANGED <<table, marks, reconnect, dropping, disk, ghost>>

\* The fence's own deadline passes: 409 for a start, a failed attempt for a reconnect.
FenceRefuses(f) ==
    /\ flow[f].pc = "fence" /\ ~Settled(f)
    /\ "slow" \in Faults
    /\ \/ /\ flow[f].kind \in {"start", "delete"} /\ Leave(f)
          /\ UNCHANGED <<status, engine, registry, reconnect, ghost>>
       \/ flow[f].kind = "attempt" /\ Fails(f, engine, status)
    /\ UNCHANGED <<row, marks, dropping, disk>>

-----------------------------------------------------------------------------
\* What an engine reports.

\* The connection drops, running or (early) while initialize() is pending:
\* handleEngineDisconnected() starts with a read of the row.
Drops(e) ==
    /\ IsLive(e) /\ ~Closing(e)
    /\ \/ engine[e].phase = "up" /\ Fault("drop")
       \/ engine[e].phase = "launching" /\ Fault("early")
    /\ engine' = [engine EXCEPT ![e].phase = "dead"]
    /\ dropping' = dropping \cup {e}
    /\ UNCHANGED <<table, registry, marks, reconnect, flow, disk>>

\* WhatsApp unlinks the device: the same, and the profile's removal, which is tracked.
Unlinked(e) ==
    /\ engine[e].phase = "up" /\ IsLive(e) /\ ~Closing(e)
    /\ Fault("unlink")
    /\ engine' = [engine EXCEPT ![e].phase = "dead"]
    /\ dropping' = dropping \cup {e}
    /\ wiping' = wiping \cup {e}
    /\ UNCHANGED <<table, registry, marks, reconnect, flow, clearing, dir>>

\* Mutant: the drop is recorded, and no reconnect scheduled.
DropRecorded(e) ==
    LET s == engine[e].owner IN
    /\ e \in dropping
    /\ dropping' = dropping \ {e}
    /\ status' = IF Present(s) /\ IsLive(e) THEN WithStatus(s, "disconnected") ELSE status
    /\ UNCHANGED <<row, registry, engine, reconnect, marks, flow, disk, ghost>>

\* The row is read: if it is there and the engine still registered, reconnect.
DropHandled(e) ==
    LET s == engine[e].owner IN
    /\ e \in dropping
    /\ dropping' = dropping \ {e}
    /\ IF Present(s) /\ IsLive(e)
       THEN Reschedule(s, registry, engine, WithStatus(s, "disconnected"))
       ELSE UNCHANGED <<registry, engine, status, reconnect, ghost>>
    /\ UNCHANGED <<row, marks, flow, disk>>

\* The read of the row fails.
DropLost(e) ==
    /\ e \in dropping /\ Fault("query")
    /\ dropping' = dropping \ {e}
    /\ UNCHANGED <<table, engine, registry, marks, reconnect, flow, disk>>

\* onError(): terminal.
EngineFails(e, budget) ==
    LET s == engine[e].owner IN
    /\ budget
    /\ reconnect' = [reconnect EXCEPT ![s] = "none"]
    /\ status' = WithStatus(s, "failed")
    /\ registry' = [registry EXCEPT ![s] = NoEngine]
    /\ engine' = Torn(engine, e)

Errs(e) ==
    /\ engine[e].phase \in Live /\ IsLive(e) /\ ~Closing(e)
    /\ EngineFails(e, Fault("error"))
    /\ UNCHANGED <<row, marks, flow, dropping, disk>>

\* recoverFromStuckAuth(): once per episode the credentials are cleared.
Stuck(e) ==
    LET s == engine[e].owner IN
    /\ engine[e].phase = "up" /\ IsLive(e) /\ ~Closing(e) /\ e \notin clearing
    /\ IF s \in recovered
       THEN EngineFails(e, Fault("stuck")) /\ UNCHANGED <<recovered, clearing>>
       ELSE /\ Fault("stuck")
            /\ recovered' = recovered \cup {s}
            /\ clearing' = clearing \cup {e}
            /\ UNCHANGED <<status, engine, registry, reconnect>>
    /\ UNCHANGED <<row, stopMark, stopped, flow, dropping, wiping, dir>>

\* The directory is gone: the adapter reports a disconnection.
Cleared(e) ==
    /\ e \in clearing
    /\ clearing' = clearing \ {e}
    /\ dir' = NoEngine
    /\ IF IsLive(e) /\ engine[e].phase = "up"
       THEN /\ engine' = [engine EXCEPT ![e].phase = "dead"]
            /\ dropping' = dropping \cup {e}
       ELSE UNCHANGED <<engine, dropping>>
    /\ UNCHANGED <<table, registry, marks, reconnect, flow, wiping, ghost>>

\* A tracked removal ends; that of a logout WhatsApp did not acknowledge removes nothing.
Wiped(e) ==
    /\ e \in wiping
    /\ wiping' = wiping \ {e}
    /\ dir' \in {dir, NoEngine}
    /\ UNCHANGED <<table, engine, registry, marks, reconnect, flow, dropping, clearing, ghost>>

-----------------------------------------------------------------------------
\* stop(), logout(), forceKill(), delete().

\* SessionService.stop() and delete() mark the session before their first await.
StopEntered(f, s, k) ==
    /\ k \in {"stop", "delete"} /\ Request(k)
    /\ flow[f] = NoFlow /\ Present(s)
    /\ stopMark' = stopMark \cup {s}
    /\ Enter(f, [NoFlow EXCEPT !.kind = k, !.session = s, !.pc = "enter"])
    /\ UNCHANGED <<table, engine, registry, reconnect, stopped, recovered, dropping, disk>>

\* assertNotHeldElsewhere() or the read of the row fails, or a peer holds the
\* session: the request is over, and its mark stays.
EnterRefused(f) ==
    /\ flow[f].pc = "enter" /\ Fault("query")
    /\ Leave(f)
    /\ UNCHANGED <<table, engine, registry, marks, reconnect, dropping, disk>>

\* The engine a logout can be sent through, if it is one: it has been launched.
Linked(e) == {d \in {e} : engine[d].phase \in Live \cup {"dead"}}

\* Mark, cancel the reconnect, capture the engine, and wait for its INITIALIZING
\* write; a logout's teardown is tracked as a credential removal from its start.
Retire(f, s, k) ==
    LET e == registry[s] IN
    /\ stopMark' = stopMark \cup {s} /\ stopped' = stopped \cup {s}
    /\ reconnect' = [reconnect EXCEPT ![s] = "none"]
    /\ IF e # NoEngine
       THEN /\ Enter(f, [kind |-> k, session |-> s, engine |-> e, waits |-> {},
                         pc |-> IF Saving(e) THEN "initial" ELSE "teardown"])
            /\ wiping' = IF k = "logout" /\ ~Saving(e) THEN wiping \cup Linked(e) ELSE wiping
       ELSE /\ IF k = "delete" /\ wiping # {} THEN Wait(f, s, k, "fence2")
               ELSE Enter(f, [kind |-> k, session |-> s, engine |-> NoEngine, waits |-> {},
                              pc |-> IF k = "delete" THEN "hook" ELSE "record"])
            /\ UNCHANGED wiping

ControlBegin(f) ==
    LET s == flow[f].session
        k == flow[f].kind
    IN  /\ flow[f].pc = "enter"
        /\ IF ~Present(s) THEN Leave(f) /\ UNCHANGED <<stopMark, stopped, reconnect, wiping>>
           ELSE IF k = "delete" /\ wiping # {}
                THEN Wait(f, s, k, "fence") /\ UNCHANGED <<stopMark, stopped, reconnect, wiping>>
                ELSE Retire(f, s, k)
        /\ UNCHANGED <<table, engine, registry, recovered, dropping, clearing, dir, ghost>>

\* logout() and forceKill() need an engine.
ControlWithEngine(f, s, k) ==
    /\ k \in {"logout", "kill"} /\ Request(k)
    /\ flow[f] = NoFlow /\ Present(s) /\ registry[s] # NoEngine
    /\ Retire(f, s, k)
    /\ UNCHANGED <<table, engine, registry, recovered, dropping, clearing, dir>>

DeleteFenced(f) ==
    /\ flow[f].kind = "delete" /\ flow[f].pc = "fence" /\ Settled(f)
    /\ Retire(f, flow[f].session, "delete")
    /\ UNCHANGED <<table, engine, registry, recovered, dropping, clearing, dir, ghost>>

\* awaitInitialStatus() returns: the write has, or (slow) its deadline has passed.
InitialAwaited(f) ==
    /\ flow[f].pc = "initial"
    /\ Saving(flow[f].engine) => "slow" \in Faults
    /\ Goto(f, "teardown")
    /\ wiping' = IF flow[f].kind = "logout" THEN wiping \cup Linked(flow[f].engine) ELSE wiping
    /\ UNCHANGED <<table, engine, registry, marks, reconnect, dropping, clearing, dir, ghost>>

\* Mutant: the engine leaves the registry before its teardown has returned.
TornDownEarly(f) ==
    /\ flow[f].kind \in Control /\ flow[f].pc = "teardown"
    /\ registry' = DeleteIfLive(flow[f].engine)
    /\ Goto(f, IF flow[f].kind = "delete" THEN "hook" ELSE "record")
    /\ UNCHANGED <<table, engine, marks, reconnect, dropping, disk, ghost>>

\* The teardown returns, or (slow) a logout's deadline passes with its removal pending.
TornDown(f) ==
    LET e == flow[f].engine
        s == flow[f].session
        k == flow[f].kind
    IN  /\ k \in Control /\ flow[f].pc = "teardown"
        /\ (k = "logout" /\ e \in wiping) => "slow" \in Faults
        /\ engine' = Torn(engine, e)
        /\ registry' = DeleteIfLive(e)
        /\ IF k = "delete" THEN IF wiping = {} THEN Goto(f, "hook") ELSE Wait(f, s, k, "fence2")
           ELSE Goto(f, "record")
        /\ UNCHANGED <<table, marks, reconnect, dropping, disk, ghost>>

\* The final DISCONNECTED write.
Recorded(f) ==
    /\ flow[f].pc = "record"
    /\ status' = WithStatus(flow[f].session, "disconnected")
    /\ Leave(f)
    /\ UNCHANGED <<row, engine, registry, marks, reconnect, dropping, disk, ghost>>

DeleteFencedAgain(f) ==
    /\ flow[f].pc = "fence2" /\ Settled(f)
    /\ Goto(f, "hook")
    /\ UNCHANGED <<table, engine, registry, marks, reconnect, dropping, disk, ghost>>

\* 409 from the second fence: the status follows the engine, the mark goes.
DeleteRefused(f) ==
    LET s == flow[f].session IN
    /\ flow[f].pc = "fence2" /\ ~Settled(f) /\ "slow" \in Faults
    /\ status' = IF flow[f].engine # NoEngine THEN WithStatus(s, "disconnected") ELSE status
    /\ Unmark(s)
    /\ Leave(f)
    /\ UNCHANGED <<row, engine, registry, recovered, reconnect, dropping, disk, ghost>>

\* The hook and the transaction: the row is gone and its name free.
DeleteCommits(f) ==
    /\ flow[f].kind = "delete" /\ flow[f].pc = "hook"
    /\ row' = [row EXCEPT ![flow[f].session] = "deleted"]
    /\ Goto(f, "purge")
    /\ UNCHANGED <<status, engine, registry, marks, reconnect, dropping, disk, ghost>>

DeletePurges(f) ==
    LET s == flow[f].session IN
    /\ flow[f].kind = "delete" /\ flow[f].pc = "purge"
    /\ dir' = NoEngine
    /\ Unmark(s) /\ recovered' = recovered \ {s}
    /\ Leave(f)
    /\ UNCHANGED <<table, engine, registry, reconnect, dropping, wiping, clearing, ghost>>

\* A query fails after the launch, before the final write or in the transaction:
\* the flow ends where it is, and a delete takes its mark back.
QueryFails(f) ==
    /\ \/ flow[f].pc \in {"guard", "residue", "record"}
       \/ flow[f].kind = "delete" /\ flow[f].pc = "hook"
    /\ Fault("query")
    /\ IF flow[f].kind = "delete" THEN Unmark(flow[f].session) ELSE UNCHANGED <<stopMark, stopped>>
    /\ Leave(f)
    /\ UNCHANGED <<table, engine, registry, recovered, reconnect, dropping, disk>>

\* SessionService.create(): the name is free.
Create(s) ==
    /\ Request("create")
    /\ row[s] = "absent" /\ \A t \in Session : ~Present(t)
    /\ row' = [row EXCEPT ![s] = "present"]
    /\ UNCHANGED <<status, engine, registry, marks, reconnect, flow, dropping, disk>>

-----------------------------------------------------------------------------
\* The next step: a request, a flow that goes on, a timer, a callback, a fault.

Ask == \/ \E s \in Session : Create(s)
       \/ \E f \in Flow, s \in Session :
            \/ Start(f, s)
            \/ \E k \in Control : StopEntered(f, s, k) \/ ControlWithEngine(f, s, k)

StartStep(f) == \/ StartFenced(f) \/ StartRegister(f) \/ StartFailed(f)
LaunchStep(f) == \/ Saved(f) \/ Launched(f) \/ LaunchAborted(f) \/ Rejected(f) \/ Reaped(f)
                 \/ Guarded(f) \/ Retired(f) \/ Residue(f) \/ Purged(f)
AttemptStep(f) == AttemptCleared(f) \/ AttemptFenced(f)
ControlStep(f) == \/ ControlBegin(f) \/ DeleteFenced(f) \/ InitialAwaited(f) \/ TornDown(f)
                  \/ Recorded(f) \/ DeleteFencedAgain(f) \/ DeleteCommits(f) \/ DeletePurges(f)
Continue(f) == StartStep(f) \/ LaunchStep(f) \/ AttemptStep(f) \/ ControlStep(f)

\* What may happen to a flow, and what need not.
Disturb(f) == \/ SaveFails(f) \/ LaunchRejected(f) \/ LaunchHangs(f)
              \/ EnterRefused(f) \/ FenceRefuses(f) \/ DeleteRefused(f) \/ QueryFails(f)

Callback(e) == DropHandled(e) \/ Cleared(e) \/ Wiped(e)
Mishap(e)   == Drops(e) \/ Unlinked(e) \/ DropLost(e) \/ Errs(e) \/ Stuck(e)

\* What a flow waited for has come: it goes on before any other callback runs.
Prompt(f) == \/ flow[f].pc = "failing"
             \/ flow[f].pc = "initial" /\ ~Saving(flow[f].engine)
             \/ flow[f].pc \in {"fence", "fence2"} /\ Settled(f)
             \/ flow[f].pc = "teardown" /\ flow[f].kind = "logout" /\ flow[f].engine \notin wiping

Next == \/ \E f \in Flow : Prompt(f) /\ Continue(f)
        \/ /\ \A f \in Flow : ~Prompt(f)
           /\ \/ Ask
              \/ \E f \in Flow : Continue(f) \/ Disturb(f)
              \/ \E f \in Flow, s \in Session : ReconnectFires(f, s)
              \/ \E e \in Engine : Callback(e) \/ Mishap(e)

Spec == Init /\ [][Next]_vars

\* Awaited work returns, timers fire, removals end.
FairSpec == /\ Spec
            /\ \A f \in Flow : WF_vars(Continue(f))
            /\ \A s \in Session : WF_vars(\E f \in Flow : ReconnectFires(f, s))
            /\ \A e \in Engine : WF_vars(Callback(e))

-----------------------------------------------------------------------------
\* Properties.

Quiet(s) == \A f \in Flow : flow[f].session # s

\* No engine is lost: one that runs, or is being launched, is registered for its
\* session or is being torn down.
Tracked == \A e \in Engine : engine[e].phase \in Live => IsLive(e) \/ Closing(e)

\* Two engines of a session never run at once, in memory or on its credentials.
OneEngine == \A e, d \in Engine :
    (engine[e].phase \in Live /\ engine[d].phase \in Live /\ engine[e].owner = engine[d].owner)
        => e = d

\* The engines of a session: never two at once, and never one that no stop would find.
SoleEngine == Tracked /\ OneEngine

\* initialize() is never called on an engine that was torn down, launched or lost before.
NoRearm == [][\A e \in Engine : (engine[e].phase # "launching" /\ engine'[e].phase = "launching")
                => engine[e].phase = "built" /\ registry[engine[e].owner] = e]_vars

\* A stopped session stays stopped: once a control has gone on to take it down, and
\* until a start or the end of a deletion takes the mark back, no engine is registered
\* for it when its flows are over, whatever was in flight when the control came.
StopSticks == \A s \in stopped : Quiet(s) => registry[s] = NoEngine

\* An engine of a deleted session that is still about: a start past its last
\* look at the row builds it after the deletion has, its removal may be pending.
Orphan(e) == /\ engine[e].owner # NoSession /\ ~Present(engine[e].owner)
             /\ engine[e].phase # "torn" \/ e \in wiping \cup clearing

\* Credentials are never removed under an engine that is using them, unless the
\* removal is that engine's own or the purge that a committed deletion ends with,
\* which looks at no engine, or the name has changed hands with an engine about.
CredentialsSpared ==
    [][dir # NoEngine /\ dir' = NoEngine /\ engine[dir].phase \in Live
         => \/ dir \in (wiping \ wiping') \cup (clearing \ clearing')
            \/ \E f \in Flow : flow[f].pc = "purge" /\ flow'[f].pc # "purge"
            \/ \E e \in Engine : Orphan(e)]_vars

\* A connection that dropped is replaced or given up: its engine leaves the registry.
DeadEngineLeaves == \A s \in Session, e \in Engine :
    (registry[s] = e /\ engine[e].phase = "dead") ~> (registry[s] # e \/ engine[e].phase # "dead")

-----------------------------------------------------------------------------
\* What comments say of the program, and the program does not do.

\* delete(): a mark left behind when the fence refuses is harmless, cleared by the next
\* start.  It stays on a running engine, whose next drop is then not reconnected.
MarkMeansStopped == \A s \in stopMark : Quiet(s) => registry[s] = NoEngine

\* stop(): the control action stays the final persisted owner of the status.
StopHasLastWord == \A s \in stopMark : Present(s) /\ Quiet(s) => status[s] # "initializing"

\* start()'s catch: the engine in the map is the one this start just created.
CatchReapsOwn ==
    [][\A f \in Flow : flow[f].kind = "start" /\ flow'[f].pc = "failed" /\ flow[f].pc # "failed"
         => registry[flow[f].session] = flow[f].engine]_vars

\* The deadline of initialize() evicts the engine that missed it, and no replacement.
TimeoutEvictsOwn ==
    [][\A f \in Flow : flow[f].pc = "launching" /\ flow'[f].pc = "reap"
         => registry[flow[f].session] \in {flow[f].engine, NoEngine}]_vars

\* purgeAuthDirsIfDeleted(): no credentials, and no engine, outlive the row.
DeletedLeavesNothing ==
    \A s \in Session : row[s] = "deleted" /\ Quiet(s) =>
        /\ \A e \in Engine : engine[e].owner = s => engine[e].phase \notin Live
        /\ dir # NoEngine => engine[dir].owner # s
=============================================================================
