-------------------------- MODULE SessionOwnership --------------------------
(***************************************************************************)
(* Which process of the cluster runs a session's engine.                   *)
(*                                                                         *)
(* A process claims a session's row before it launches an engine for it,   *)
(* renews the claims that still cover something alive, gives a claim back  *)
(* on stop and on a failed start, tears its engine down when a renewal     *)
(* finds the row gone, and sweeps up the sessions whose holder's lease has *)
(* lapsed.  Every action is what one process does between two awaits, so   *)
(* the interleavings are those of the processes on one table and of the    *)
(* requests, timers and callbacks inside one process.                      *)
(*                                                                         *)
(* Engines are identified here by (process, session); generations of one   *)
(* engine inside a process are the subject of EngineLifecycle.             *)
(***************************************************************************)
EXTENDS Naturals, FiniteSets

CONSTANTS Node, Session, NoNode,
          MaxConcurrent,   \* MAX_CONCURRENT_SESSIONS
          Requests,        \* what operators may ask: start, the controls, a shutdown
          Faults,          \* what may go wrong
          MaxRequests,     \* bound on the requests of a behaviour
          MaxFaults        \* bound on its faults

Kind == {"stop", "logout", "kill", "delete"}   \* the controls

ASSUME OwnershipAssumption ==
    /\ NoNode \notin Node
    /\ MaxConcurrent \in Nat /\ MaxRequests \in Nat /\ MaxFaults \in Nat
    /\ Requests \subseteq {"start", "shutdown"} \cup Kind
    /\ Faults \subseteq {"crash", "lapse", "query", "launch", "drop", "exhaust", "error"}

VARIABLES
    nodeId, lapsed,    \* the claim: sessions.nodeId, and leaseExpiresAt < now
    status, linked,    \* sessions.status ("deleted": no row), phone IS NOT NULL
    proc,              \* [Node -> Proc]: the life of each process
    mem,               \* [Node -> Memory]: what each process holds in memory
    command,           \* ghost: what the operator last asked of the session
    requests, faults   \* what is left of the two bounds

claim == <<nodeId, lapsed>>
info  == <<status, linked>>
row   == <<nodeId, lapsed, status, linked>>
ghost == <<command, requests, faults>>
vars  == <<nodeId, lapsed, status, linked, proc, mem, command, requests, faults>>

Proc   == {"down", "booting", "starting", "running", "draining", "exiting"}
Status == {"created", "initializing", "ready", "disconnected", "failed", "deleted"}
StartPC == {"idle", "claimed", "entered", "hook", "saving", "launching",
            "failing", "failed", "guard"}
ControlPC == {"idle", "fence", "body", "teardown", "record", "unlink", "settle"}

ActiveStatuses   == {"initializing", "ready"}
TakeoverStatuses == {"ready", "initializing", "disconnected"}

Memory ==
    [ owned     : SUBSET Session,   \* SessionOwnershipService.owned
      engine    : SUBSET Session,   \* EngineRegistry: sessions with an engine
      stopMark  : SUBSET Session,   \* stoppingSessions
      closing   : SUBSET Session,   \* stopOrphanEngines is destroying it
      releasing : SUBSET Session,   \* a release UPDATE is in flight
      reconnect : [Session -> {"none", "dormant", "armed", "running"}],
      attempt   : [Session -> {"idle", "clearing", "launching"}],
      start     : [Session -> StartPC],
      control   : [Session -> [pc : ControlPC, kind : Kind]],
      queued    : [Session -> {"no", "boot", "sweep"}],
      renewal   : [pc : {"idle", "update", "select", "conclude"},
                   ids : SUBSET Session, live : SUBSET Session] ]

NoRenewal == [pc |-> "idle", ids |-> {}, live |-> {}]
NoControl == [pc |-> "idle", kind |-> "stop"]

FreshMemory ==
    [ owned |-> {}, engine |-> {}, stopMark |-> {}, closing |-> {}, releasing |-> {},
      reconnect |-> [s \in Session |-> "none"],
      attempt   |-> [s \in Session |-> "idle"],
      start     |-> [s \in Session |-> "idle"],
      control   |-> [s \in Session |-> NoControl],
      queued    |-> [s \in Session |-> "no"],
      renewal   |-> NoRenewal ]

\* Types, and: a row nobody holds has no lease.
TypeOK == /\ nodeId \in [Session -> Node \cup {NoNode}]
          /\ lapsed \in [Session -> BOOLEAN]
          /\ \A s \in Session : lapsed[s] => nodeId[s] # NoNode
          /\ status \in [Session -> Status]
          /\ linked \in [Session -> BOOLEAN]
          /\ proc \in [Node -> Proc]
          /\ mem \in [Node -> Memory]
          /\ command \in [Session -> {"start", "stop", "stopped"}]
          /\ requests \in Nat /\ faults \in Nat

\* Sessions exist, none is claimed or running; some were linked in an earlier life.
Init == /\ nodeId = [s \in Session |-> NoNode]
        /\ lapsed = [s \in Session |-> FALSE]
        /\ linked \in [Session -> BOOLEAN]
        /\ status = [s \in Session |-> IF linked[s] THEN "disconnected" ELSE "created"]
        /\ proc = [n \in Node |-> "down"]
        /\ mem = [n \in Node |-> FreshMemory]
        /\ command = [s \in Session |-> "start"]
        /\ requests = MaxRequests /\ faults = MaxFaults

-----------------------------------------------------------------------------
\* Predicates and updates the handlers share.

Exists(s) == status[s] # "deleted"
Alive(n)  == proc[n] \in {"starting", "running", "draining", "exiting"}
Up(n)     == proc[n] \in {"starting", "running"}

\* A request or a fault of the given kind, within the bounds.
Request(r) == r \in Requests /\ requests > 0 /\ requests' = requests - 1
Fault(f)   == f \in Faults /\ faults > 0 /\ faults' = faults - 1

\* Mutants: the claim's UPDATE without its WHERE, and without its lease clause.
ClaimableAlways(n, s) == TRUE
ClaimableUnlapsed(n, s) == nodeId[s] \in {NoNode, n}

\* claimableWhere(): the rule of the boot reset, the boot scan and the claim.
Claimable(n, s) == nodeId[s] = NoNode \/ nodeId[s] = n \/ lapsed[s]

HeldByOther(n, s)   == nodeId[s] \notin {NoNode, n} /\ ~lapsed[s]
LapsedByOther(n, s) == nodeId[s] \notin {NoNode, n} /\ lapsed[s]

\* Mutant: a pending reconnect does not count.
ActiveNow(m, s) == s \in m.engine \/ m.start[s] \notin {"idle", "claimed"}

\* isEngineActive() of a memory m: an engine, an in-flight start, or a pending reconnect.
ActiveIn(m, s) == \/ s \in m.engine
                  \/ m.start[s] \notin {"idle", "claimed"}
                  \/ m.reconnect[s] \in {"armed", "running"}
Active(n, s) == ActiveIn(mem[n], s)

\* Mutant: every held claim is pushed out.
EveryClaim(n) == mem[n].owned

\* The held claims a heartbeat pushes out: those that still cover something.
LiveClaims(n) == {s \in mem[n].owned : Active(n, s)}

\* releaseUnlessEngineActive(), up to the moment its UPDATE is sent.
LetGo(m, s) == IF ActiveIn(m, s) THEN m
               ELSE [m EXCEPT !.owned = @ \ {s}, !.releasing = @ \cup {s}]

Update(n, m) == mem' = [mem EXCEPT ![n] = m]

\* An UPDATE of a deleted session's row matches nothing.
SetStatus(s, v) == status' = IF Exists(s) THEN [status EXCEPT ![s] = v] ELSE status

\* FAILED is only written by a node that believes it owns the session.
SetFailed(n, s) == IF s \in mem[n].owned THEN SetStatus(s, "failed") ELSE UNCHANGED status

-----------------------------------------------------------------------------
\* SessionService: boot.

\* onModuleInit(): an active status on a row this node may claim is a leftover.
Boot(n) ==
    /\ proc[n] = "down"
    /\ proc' = [proc EXCEPT ![n] = "booting"]
    /\ status' = [s \in Session |->
                    IF status[s] \in ActiveStatuses /\ Claimable(n, s)
                    THEN "disconnected" ELSE status[s]]
    /\ UNCHANGED <<claim, linked, mem, ghost>>

\* onApplicationBootstrap(): heartbeat on, then the scan for auto-start.
Bootstrap(n) ==
    /\ proc[n] = "booting"
    /\ proc' = [proc EXCEPT ![n] = "starting"]
    /\ Update(n, [mem[n] EXCEPT !.queued =
                    [s \in Session |-> IF /\ linked[s] /\ status[s] = "disconnected"
                                          /\ Claimable(n, s)
                                       THEN "boot" ELSE "no"]])
    /\ UNCHANGED <<row, ghost>>

\* The boot starts are done: requests are listened to, and the sweep timer runs.
Listen(n) ==
    /\ proc[n] = "starting"
    /\ \A s \in Session : mem[n].queued[s] = "no" /\ mem[n].start[s] = "idle"
    /\ proc' = [proc EXCEPT ![n] = "running"]
    /\ UNCHANGED <<row, mem, ghost>>

\* SessionTakeoverService.sweep(): list what a lapsed peer left behind, at most
\* one sweep at a time; each entry is started in turn from that one reading.
Sweep(n) ==
    LET eligible == {s \in Session : /\ LapsedByOther(n, s) /\ linked[s]
                                     /\ status[s] \in TakeoverStatuses}
    IN  /\ proc[n] = "running"
        /\ \A s \in Session : mem[n].queued[s] = "no"
        /\ eligible # {}
        /\ Update(n, [mem[n] EXCEPT !.queued =
                        [s \in Session |-> IF s \in eligible THEN "sweep" ELSE "no"]])
        /\ UNCHANGED <<row, proc, ghost>>

-----------------------------------------------------------------------------
\* SessionService.start() and SessionEngineControls.start().

\* claim(): the conditional UPDATE; m is the memory but for its outcome.
ClaimRow(n, s, m) ==
    /\ mem[n].start[s] = "idle"
    /\ IF Exists(s) /\ Claimable(n, s)
       THEN /\ nodeId' = [nodeId EXCEPT ![s] = n]
            /\ lapsed' = [lapsed EXCEPT ![s] = FALSE]
            /\ Update(n, [m EXCEPT !.start[s] = "claimed"])
       ELSE Update(n, m) /\ UNCHANGED claim
    /\ UNCHANGED <<info, proc, faults>>

RequestStart(n, s) ==
    /\ proc[n] = "running" /\ Request("start")
    /\ command' = [command EXCEPT ![s] = "start"]
    /\ ClaimRow(n, s, mem[n])

\* The next entry of the boot scan or of the sweep; neither loop is cut short
\* by a shutdown.
QueuedStart(n, s) ==
    /\ Alive(n) /\ mem[n].queued[s] # "no"
    /\ command' = IF mem[n].queued[s] = "boot" THEN [command EXCEPT ![s] = "start"] ELSE command
    /\ ClaimRow(n, s, [mem[n] EXCEPT !.queued[s] = "no"])
    /\ UNCHANGED requests

\* The claim's answer arrives: the node believes it owns the session and the
\* start is reserved in initializingSessions.
StartEnter(n, s) ==
    /\ Alive(n) /\ mem[n].start[s] = "claimed"
    /\ Update(n, [mem[n] EXCEPT !.owned = @ \cup {s}, !.start[s] = "entered"])
    /\ UNCHANGED <<row, proc, ghost>>

OthersActive(n, s) ==
    Cardinality({t \in Session \ {s} : t \in mem[n].engine \/ mem[n].start[t] \notin {"idle", "claimed"}})

Startable(n, s) == Exists(s) /\ s \notin mem[n].engine /\ OthersActive(n, s) < MaxConcurrent

\* Accepted: the stop mark and any pending reconnect go, then the hook is awaited.
StartAccept(n, s) ==
    /\ Alive(n) /\ mem[n].start[s] = "entered" /\ Startable(n, s)
    /\ Update(n, [mem[n] EXCEPT !.stopMark = @ \ {s}, !.reconnect[s] = "none",
                                !.start[s] = "hook"])
    /\ UNCHANGED <<row, proc, ghost>>

StartRefuse(n, s) ==
    /\ Alive(n) /\ mem[n].start[s] = "entered" /\ ~Startable(n, s)
    /\ Update(n, LetGo([mem[n] EXCEPT !.start[s] = "idle"], s))
    /\ UNCHANGED <<row, proc, ghost>>

\* initializeEngine(): register the engine and send the INITIALIZING write.
StartRegister(n, s) ==
    /\ Alive(n) /\ mem[n].start[s] = "hook"
    /\ Update(n, [mem[n] EXCEPT !.reconnect[s] = "dormant", !.engine = @ \cup {s},
                                !.start[s] = "saving"])
    /\ UNCHANGED <<row, proc, ghost>>

\* After that write: launch, unless the engine or the session was retired.
StartSaved(n, s) ==
    /\ Alive(n) /\ mem[n].start[s] = "saving"
    /\ SetStatus(s, "initializing")
    /\ Update(n, [mem[n] EXCEPT !.start[s] =
                    IF s \in mem[n].engine /\ s \notin mem[n].stopMark
                    THEN "launching" ELSE "guard"])
    /\ UNCHANGED <<claim, linked, proc, ghost>>

\* initialize() rejects or times out: the engine, if still there, is evicted.
StartFails(n, s) ==
    /\ Alive(n) /\ mem[n].start[s] = "launching" /\ Fault("launch")
    /\ Update(n, [mem[n] EXCEPT !.engine = @ \ {s},
                                !.start[s] = IF s \in mem[n].engine THEN "failing" ELSE "failed"])
    /\ UNCHANGED <<row, proc, command, requests>>

\* The evicted engine is down: a timeout writes DISCONNECTED whatever happened to
\* the engine, a rejection writes FAILED if the engine was there to evict.
StartFailed(n, s) ==
    /\ Alive(n) /\ mem[n].start[s] \in {"failing", "failed"}
    /\ \/ SetStatus(s, "disconnected")
       \/ mem[n].start[s] = "failing" /\ SetFailed(n, s)
       \/ mem[n].start[s] = "failed" /\ UNCHANGED status
    /\ Update(n, LetGo([mem[n] EXCEPT !.reconnect[s] = "none", !.start[s] = "idle"], s))
    /\ UNCHANGED <<claim, linked, proc, ghost>>

\* isSessionRetired() once the launch resolved or was skipped: a stop or delete
\* landed meanwhile.  A retired start whose row is still there resolves, without
\* a release.
StartGuard(n, s) ==
    /\ Alive(n) /\ mem[n].start[s] \in {"launching", "guard"}
    /\ LET done == [mem[n] EXCEPT !.start[s] = "idle"]
           down == [done EXCEPT !.engine = @ \ {s}]
       IN  Update(n, IF ~Exists(s) THEN LetGo(down, s)
                     ELSE IF s \in mem[n].stopMark THEN down ELSE done)
    /\ UNCHANGED <<row, proc, ghost>>

\* Mutant: a release without the WHERE that asks for the holder.
ReleaseAnyRow(n, s) ==
    /\ Alive(n) /\ s \in mem[n].releasing
    /\ nodeId' = [nodeId EXCEPT ![s] = NoNode]
    /\ lapsed' = [lapsed EXCEPT ![s] = FALSE]
    /\ Update(n, [mem[n] EXCEPT !.releasing = @ \ {s}])
    /\ UNCHANGED <<info, proc, ghost>>

\* release(): the UPDATE sent earlier reaches the table.
ReleaseRow(n, s) ==
    /\ Alive(n) /\ s \in mem[n].releasing
    /\ IF Exists(s) /\ (nodeId[s] = n \/ lapsed[s])
       THEN /\ nodeId' = [nodeId EXCEPT ![s] = NoNode]
            /\ lapsed' = [lapsed EXCEPT ![s] = FALSE]
       ELSE UNCHANGED claim
    /\ Update(n, [mem[n] EXCEPT !.releasing = @ \ {s}])
    /\ UNCHANGED <<info, proc, ghost>>

-----------------------------------------------------------------------------
\* stop(), logout(), forceKill() and delete(), from the service to the controls.

Control(n, s, pc) == [mem[n] EXCEPT !.control[s].pc = pc]

\* stop and delete mark synchronously, then await the fence; the others go on.
RequestControl(n, s, kind) ==
    /\ proc[n] = "running" /\ Request(kind) /\ mem[n].control[s].pc = "idle"
    /\ command' = [command EXCEPT ![s] = "stop"]
    /\ LET fenced == kind \in {"stop", "delete"}
       IN  Update(n, [mem[n] EXCEPT
                        !.control[s] = [pc |-> IF fenced THEN "fence" ELSE "body", kind |-> kind],
                        !.stopMark = IF fenced THEN @ \cup {s} ELSE @])
    /\ UNCHANGED <<row, proc, faults>>

\* assertNotHeldElsewhere(): a 409 leaves the mark behind.
ControlFence(n, s) ==
    /\ Alive(n) /\ mem[n].control[s].pc = "fence"
    /\ Update(n, Control(n, s, IF HeldByOther(n, s) THEN "idle" ELSE "body"))
    /\ UNCHANGED <<row, proc, ghost>>

Controllable(n, s) ==
    Exists(s) /\ (mem[n].control[s].kind \in {"logout", "kill"} => s \in mem[n].engine)

ControlBody(n, s) ==
    /\ Alive(n) /\ mem[n].control[s].pc = "body" /\ Controllable(n, s)
    /\ Update(n, [Control(n, s, IF s \in mem[n].engine THEN "teardown" ELSE "record")
                    EXCEPT !.stopMark = @ \cup {s}, !.reconnect[s] = "none"])
    /\ UNCHANGED <<row, proc, ghost>>

\* 404 or 400; only logout and forceKill release on the way out.
ControlRefuse(n, s) ==
    /\ Alive(n) /\ mem[n].control[s].pc = "body" /\ ~Controllable(n, s)
    /\ LET idle == Control(n, s, "idle")
       IN  Update(n, IF mem[n].control[s].kind \in {"logout", "kill"} THEN LetGo(idle, s) ELSE idle)
    /\ UNCHANGED <<row, proc, ghost>>

ControlTornDown(n, s) ==
    /\ Alive(n) /\ mem[n].control[s].pc = "teardown"
    /\ Update(n, [Control(n, s, "record") EXCEPT !.engine = @ \ {s}])
    /\ UNCHANGED <<row, proc, ghost>>

\* The final row write: DISCONNECTED, or the transaction that removes the row.
ControlRecord(n, s) ==
    /\ Alive(n) /\ mem[n].control[s].pc = "record"
    /\ IF mem[n].control[s].kind = "delete"
       THEN /\ nodeId' = [nodeId EXCEPT ![s] = NoNode]
            /\ lapsed' = [lapsed EXCEPT ![s] = FALSE]
            /\ status' = [status EXCEPT ![s] = "deleted"]
            /\ linked' = [linked EXCEPT ![s] = FALSE]
       ELSE SetStatus(s, "disconnected") /\ UNCHANGED <<claim, linked>>
    /\ Update(n, Control(n, s, IF mem[n].control[s].kind = "logout" THEN "unlink" ELSE "settle"))
    /\ UNCHANGED <<proc, ghost>>

\* logout(): phone is cleared whether or not the unlink completed.
ControlUnlink(n, s) ==
    /\ Alive(n) /\ mem[n].control[s].pc = "unlink"
    /\ linked' = [linked EXCEPT ![s] = FALSE]
    /\ Update(n, Control(n, s, "settle"))
    /\ UNCHANGED <<claim, status, proc, ghost>>

\* The way out: delete releases always, the others unless something runs here.
ControlSettle(n, s) ==
    /\ Alive(n) /\ mem[n].control[s].pc = "settle"
    /\ LET idle == Control(n, s, "idle")
       IN  Update(n, IF mem[n].control[s].kind = "delete"
                     THEN [idle EXCEPT !.stopMark = @ \ {s}, !.owned = @ \ {s},
                                       !.releasing = @ \cup {s}]
                     ELSE LetGo(idle, s))
    /\ command' = IF command[s] = "stop" THEN [command EXCEPT ![s] = "stopped"] ELSE command
    /\ UNCHANGED <<row, proc, requests, faults>>

-----------------------------------------------------------------------------
\* renew(): one heartbeat, from its first line to the lost claims.

RenewBegin(n) ==
    LET held == mem[n].owned IN
    /\ Up(n) /\ mem[n].renewal.pc = "idle" /\ held # {}
    /\ Update(n, [mem[n] EXCEPT !.renewal =
                    [pc |-> "update", ids |-> held, live |-> LiveClaims(n)]])
    /\ UNCHANGED <<row, proc, ghost>>

\* Mutant: a renewal without the WHERE that asks for the holder.
RenewAnyRow(n) ==
    /\ Alive(n) /\ mem[n].renewal.pc = "update"
    /\ lapsed' = [s \in Session |-> lapsed[s] /\ s \notin mem[n].renewal.live]
    /\ Update(n, [mem[n] EXCEPT !.renewal.pc = "select", !.renewal.live = {}])
    /\ UNCHANGED <<nodeId, info, proc, ghost>>

\* Only the claims that cover something alive are pushed out.
RenewUpdate(n) ==
    /\ Alive(n) /\ mem[n].renewal.pc = "update"
    /\ lapsed' = [s \in Session |->
                    lapsed[s] /\ ~(s \in mem[n].renewal.live /\ nodeId[s] = n)]
    /\ Update(n, [mem[n] EXCEPT !.renewal.pc = "select", !.renewal.live = {}])
    /\ UNCHANGED <<nodeId, info, proc, ghost>>

\* The held rows that no longer name this node.
RenewSelect(n) ==
    /\ Alive(n) /\ mem[n].renewal.pc = "select"
    /\ Update(n, [mem[n] EXCEPT !.renewal.pc = "conclude",
                                !.renewal.ids = {s \in @ : ~(Exists(s) /\ nodeId[s] = n)}])
    /\ UNCHANGED <<row, proc, ghost>>

\* A failed query is not a loss.
RenewFail(n) ==
    /\ Alive(n) /\ mem[n].renewal.pc \in {"update", "select"} /\ Fault("query")
    /\ Update(n, [mem[n] EXCEPT !.renewal = NoRenewal])
    /\ UNCHANGED <<row, proc, command, requests>>

\* Mutant: lost claims are forgotten, their engines are not torn down.
RenewForgets(n) ==
    /\ Alive(n) /\ mem[n].renewal.pc = "conclude"
    /\ Update(n, [mem[n] EXCEPT !.renewal = NoRenewal, !.owned = @ \ mem[n].renewal.ids])
    /\ UNCHANGED <<row, proc, ghost>>

\* Lost claims leave `owned`; stopOrphanEngines() marks them, cancels their
\* reconnects and starts destroying the engines it finds.
RenewConclude(n) ==
    LET lost == mem[n].renewal.ids IN
    /\ Alive(n) /\ mem[n].renewal.pc = "conclude"
    /\ Update(n, [mem[n] EXCEPT
                    !.renewal = NoRenewal,
                    !.owned = @ \ lost,
                    !.stopMark = @ \cup lost,
                    !.reconnect = [s \in Session |-> IF s \in lost THEN "none" ELSE @[s]],
                    !.closing = @ \cup (lost \cap mem[n].engine)])
    /\ UNCHANGED <<row, proc, ghost>>

OrphanDown(n, s) ==
    /\ Alive(n) /\ s \in mem[n].closing
    /\ Update(n, [mem[n] EXCEPT !.closing = @ \ {s}, !.engine = @ \ {s}])
    /\ UNCHANGED <<row, proc, ghost>>

-----------------------------------------------------------------------------
\* Engine callbacks and the reconnect loop.

Launched(n, s) == Alive(n) /\ s \in mem[n].engine /\ mem[n].start[s] # "saving"

\* handleEngineReady(): not fenced on ownership.
EngineReady(n, s) ==
    /\ Launched(n, s)
    /\ SetStatus(s, "ready")
    /\ linked' = IF Exists(s) THEN [linked EXCEPT ![s] = TRUE] ELSE linked
    /\ UNCHANGED <<claim, proc, mem, ghost>>

\* scheduleReconnect() once no engine or a dead one is left: nothing without
\* reconnect state or in a drain, else another attempt or, the budget spent, FAILED.
Reschedule(n, s, m) ==
    \/ /\ ~Up(n) \/ m.reconnect[s] = "none"
       /\ Update(n, m) /\ SetStatus(s, "disconnected")
    \/ /\ Up(n) /\ m.reconnect[s] # "none"
       /\ \/ /\ Update(n, [m EXCEPT !.reconnect[s] = "armed"])
             /\ SetStatus(s, "disconnected")
          \/ /\ "exhaust" \in Faults
             /\ Update(n, [m EXCEPT !.reconnect[s] = "none", !.engine = @ \ {s}])
             /\ SetStatus(s, IF s \in m.owned THEN "failed" ELSE "disconnected")

\* handleEngineDisconnected(), from the engine or from the liveness watchdog.
EngineDrops(n, s) ==
    /\ Launched(n, s) /\ Fault("drop")
    /\ Reschedule(n, s, mem[n])
    /\ UNCHANGED <<claim, linked, proc, command, requests>>

\* onError: terminal.
EngineErrs(n, s) ==
    /\ Launched(n, s) /\ Fault("error")
    /\ SetFailed(n, s)
    /\ Update(n, [mem[n] EXCEPT !.reconnect[s] = "none", !.engine = @ \ {s}])
    /\ UNCHANGED <<claim, linked, proc, command, requests>>

\* executeReconnect(): the timer fires and the dead engine is torn down.
ReconnectFires(n, s) ==
    /\ Alive(n) /\ mem[n].reconnect[s] = "armed" /\ mem[n].attempt[s] = "idle"
    /\ s \notin mem[n].stopMark
    /\ Update(n, [mem[n] EXCEPT !.reconnect[s] = "running", !.attempt[s] = "clearing",
                                !.engine = @ \ {s}])
    /\ UNCHANGED <<row, proc, ghost>>

ReconnectLaunches(n, s) ==
    /\ Alive(n) /\ mem[n].attempt[s] = "clearing"
    /\ SetStatus(s, "initializing")
    /\ Update(n, [mem[n] EXCEPT !.engine = @ \cup {s}, !.attempt[s] = "launching"])
    /\ UNCHANGED <<claim, linked, proc, ghost>>

Retired(n, s) == s \in mem[n].stopMark \/ ~Exists(s)

ReconnectEnds(n, s) ==
    /\ Alive(n) /\ mem[n].attempt[s] = "launching"
    /\ LET done == [mem[n] EXCEPT !.attempt[s] = "idle"]
       IN  Update(n, IF Retired(n, s) THEN [done EXCEPT !.engine = @ \ {s}] ELSE done)
    /\ UNCHANGED <<row, proc, ghost>>

ReconnectFails(n, s) ==
    /\ Alive(n) /\ mem[n].attempt[s] = "launching" /\ Fault("launch")
    /\ Reschedule(n, s, [mem[n] EXCEPT !.attempt[s] = "idle", !.engine = @ \ {s}])
    /\ UNCHANGED <<claim, linked, proc, command, requests>>

-----------------------------------------------------------------------------
\* Time, crashes and shutdowns.

\* The heartbeat keeps these; a drain is shorter than the lease.
Renewed(n, s) == Alive(n) /\ s \in LiveClaims(n)

Lapse(s) == /\ nodeId[s] # NoNode /\ ~lapsed[s]
            /\ lapsed' = [lapsed EXCEPT ![s] = TRUE]
            /\ UNCHANGED <<nodeId, info, proc, mem, command, requests>>

\* A lease outlives a flow that only waits for the database: a heartbeat or a
\* release in flight, a start whose claim has just been answered.
Prompt(n, s) == /\ mem[n].renewal.pc = "idle" /\ s \notin mem[n].releasing
                /\ mem[n].start[s] \notin {"claimed", "entered"}

\* The lease of a claim nothing renews runs out.
UnrenewedLapse(s) == /\ \A n \in Node : Prompt(n, s) /\ (nodeId[s] = n => ~Renewed(n, s))
                     /\ Lapse(s) /\ UNCHANGED faults

\* A slow query or a long pause: a healthy holder is late.
HealthyLapse(s) == Fault("lapse") /\ Lapse(s)

Down(n) == proc' = [proc EXCEPT ![n] = "down"] /\ Update(n, FreshMemory)

Crash(n) == /\ proc[n] # "down" /\ Fault("crash")
            /\ Down(n)
            /\ UNCHANGED <<row, command, requests>>

\* onModuleDestroy(): heartbeat and reconnect timers off, engines being destroyed.
Shutdown(n) == /\ Up(n) /\ Request("shutdown")
               /\ proc' = [proc EXCEPT ![n] = "draining"]
               /\ Update(n, [mem[n] EXCEPT !.reconnect = [s \in Session |-> "none"]])
               /\ UNCHANGED <<row, command, faults>>

\* Mutant: a releaseAll() without the WHERE that asks for the holder.
ShutdownReleaseAny(n) ==
    /\ proc[n] = "draining"
    /\ proc' = [proc EXCEPT ![n] = "exiting"]
    /\ nodeId' = [s \in Session |-> IF s \in mem[n].owned THEN NoNode ELSE nodeId[s]]
    /\ lapsed' = [s \in Session |-> lapsed[s] /\ s \notin mem[n].owned]
    /\ Update(n, [mem[n] EXCEPT !.engine = {}, !.owned = {}])
    /\ UNCHANGED <<info, ghost>>

\* The engines are down, the registry is cleared, and releaseAll() frees the rows.
ShutdownRelease(n) ==
    LET mine == {s \in mem[n].owned : nodeId[s] = n} IN
    /\ proc[n] = "draining"
    /\ proc' = [proc EXCEPT ![n] = "exiting"]
    /\ nodeId' = [s \in Session |-> IF s \in mine THEN NoNode ELSE nodeId[s]]
    /\ lapsed' = [s \in Session |-> lapsed[s] /\ s \notin mine]
    /\ Update(n, [mem[n] EXCEPT !.engine = {}, !.owned = {}])
    /\ UNCHANGED <<info, ghost>>

Exit(n) == proc[n] = "exiting" /\ Down(n) /\ UNCHANGED <<row, ghost>>

-----------------------------------------------------------------------------
StartStep(n, s) ==
    \/ StartEnter(n, s) \/ StartAccept(n, s) \/ StartRefuse(n, s) \/ StartRegister(n, s)
    \/ StartSaved(n, s) \/ StartFailed(n, s) \/ StartGuard(n, s)

ControlStep(n, s) ==
    \/ ControlFence(n, s) \/ ControlBody(n, s) \/ ControlRefuse(n, s)
    \/ ControlTornDown(n, s) \/ ControlRecord(n, s) \/ ControlUnlink(n, s)
    \/ ControlSettle(n, s)

RenewStep(n) == \/ RenewBegin(n) \/ RenewUpdate(n) \/ RenewSelect(n)
                \/ RenewConclude(n)

ReconnectStep(n, s) == \/ ReconnectFires(n, s) \/ ReconnectLaunches(n, s)
                       \/ ReconnectEnds(n, s)

SessionStep(n, s) ==
    \/ RequestStart(n, s) \/ QueuedStart(n, s) \/ StartStep(n, s) \/ StartFails(n, s) \/ ReleaseRow(n, s)
    \/ \E kind \in Kind : RequestControl(n, s, kind)
    \/ ControlStep(n, s) \/ OrphanDown(n, s)
    \/ EngineReady(n, s) \/ EngineDrops(n, s) \/ EngineErrs(n, s)
    \/ ReconnectStep(n, s) \/ ReconnectFails(n, s)

NodeStep(n) ==
    \/ Boot(n) \/ Bootstrap(n) \/ Listen(n) \/ Sweep(n) \/ RenewStep(n) \/ RenewFail(n)
    \/ Crash(n) \/ Shutdown(n) \/ ShutdownRelease(n) \/ Exit(n)

Next == \/ \E n \in Node : NodeStep(n) \/ \E s \in Session : SessionStep(n, s)
        \/ \E s \in Session : UnrenewedLapse(s) \/ HealthyLapse(s)

Spec == Init /\ [][Next]_vars

\* What the event loop, the timers and the clock guarantee of a live process:
\* flows in flight go on, the heartbeat and the sweep tick, an unrenewed lease
\* runs out.  Nothing obliges an operator, a fault, a boot or a launch outcome.
Fairness ==
    /\ \A n \in Node : /\ WF_vars(RenewStep(n)) /\ WF_vars(Sweep(n))
                       /\ WF_vars(Bootstrap(n)) /\ WF_vars(Listen(n))
                       /\ WF_vars(ShutdownRelease(n)) /\ WF_vars(Exit(n))
    /\ \A n \in Node, s \in Session :
          /\ WF_vars(StartStep(n, s)) /\ WF_vars(ControlStep(n, s))
          /\ WF_vars(QueuedStart(n, s)) /\ WF_vars(ReleaseRow(n, s))
          /\ WF_vars(OrphanDown(n, s)) /\ WF_vars(ReconnectStep(n, s))
    /\ \A s \in Session : SF_vars(UnrenewedLapse(s))

FairSpec == Spec /\ Fairness

-----------------------------------------------------------------------------
\* Correctness properties.

\* The statements a process has sent and that have not reached the table, and the
\* claims it has been answered and not yet taken up.
Sent(n) == [renew      |-> mem[n].renewal.live,
            release    |-> mem[n].releasing,
            releaseAll |-> IF proc[n] = "draining" THEN mem[n].owned ELSE {},
            remove     |-> {s \in Session : mem[n].control[s] = [pc |-> "record", kind |-> "delete"]}]
Granted(n) == {s \in Session : mem[n].start[s] = "claimed"}

\* The claim columns follow the abstract lease, in whatever order the UPDATEs of
\* claim(), renew(), release(), releaseAll() and delete() reach the table: a node that
\* is told it owns a session owns it, and nobody prolongs, gives up or takes a claim
\* another node holds on an unexpired lease.  Only a deletion asks for no holder.
Claims == INSTANCE Lease WITH holder <- nodeId, expired <- lapsed,
                              sent <- [n \in Node |-> Sent(n)],
                              granted <- [n \in Node |-> Granted(n)]
LeaseRefined == Claims!Spec

\* A session's engine runs in at most one process.  It holds of a cluster that
\* crashes, restarts, drops connections and misses heartbeats, as long as no
\* healthy claim lapses and nobody stops a session or has a launch fail.
SingleEngine ==
    \A s \in Session : \A n, m \in Node :
        s \in mem[n].engine \cap mem[m].engine => n = m

\* Something of a session is alive in a memory m, or on its way.
Engaged(m, s) == \/ s \in m.engine \/ m.start[s] # "idle" \/ m.attempt[s] # "idle"
                 \/ m.reconnect[s] \in {"armed", "running"}

\* No heartbeat in flight has listed the session.
Resting(m, s) == m.renewal.pc = "idle" \/ s \notin m.renewal.ids

\* How far a start, an attempt, an engine, a mark and a claim may be apart in one memory.
Coherent(m, s) ==
    /\ m.control[s].pc = "idle" /\ s \notin m.closing
    /\ m.start[s] \in {"idle", "claimed", "entered", "hook", "saving", "launching"}
    /\ m.start[s] \in {"claimed", "entered", "hook"} =>
          s \notin m.engine /\ m.attempt[s] = "idle" /\ m.reconnect[s] \in {"none", "dormant"}
    /\ m.start[s] = "saving" => s \in m.engine /\ m.reconnect[s] = "dormant"
    /\ m.start[s] = "launching" => s \in m.engine \/ m.reconnect[s] = "running"
    /\ m.attempt[s] = "clearing" => s \notin m.engine /\ m.reconnect[s] = "running"
    /\ m.attempt[s] = "launching" => s \in m.engine
    /\ m.reconnect[s] = "armed" => s \in m.engine
    /\ s \in m.stopMark => m.start[s] \in {"claimed", "entered"} \/ ~Engaged(m, s)
    /\ s \in m.owned <=> Engaged(m, s) /\ m.start[s] # "claimed"
    /\ Engaged(m, s) => m.queued[s] = "no" /\ s \notin m.releasing
    /\ s \in m.releasing => m.queued[s] = "no"
    /\ ~Resting(m, s) => /\ m.queued[s] = "no" /\ m.start[s] # "claimed"
                         /\ m.renewal.pc = "conclude" => ~Engaged(m, s)

\* The row backs what a process has of the session, and is not taken from under a heartbeat.
Backed(n, s) == /\ Engaged(mem[n], s) \/ s \in mem[n].releasing => nodeId[s] = n /\ ~lapsed[s]
                /\ ~Resting(mem[n], s) => ~lapsed[s]

\* Why there is a single engine: all that a process has of a session, an attempt that
\* has removed the dead engine and a release in flight included, rests on an unexpired
\* claim of its own.
SingleEngineInv ==
    /\ \A s \in Session : Exists(s)
    /\ \A n \in Node : /\ proc[n] \in {"down", "booting", "starting", "running"}
                       /\ proc[n] \in {"down", "booting"} => mem[n] = FreshMemory
    /\ \A n \in Node, s \in Session : Coherent(mem[n], s) /\ Backed(n, s)

\* A node that still believes it owns a session whose row names another node, or
\* nobody, does not keep its engine: a heartbeat finds the loss and
\* stopOrphanEngines() takes the engine down, or the node gets the row back.
OwnedLossHeals ==
    \A n \in Node, s \in Session :
        (s \in mem[n].engine /\ s \in mem[n].owned /\ nodeId[s] # n)
            ~> (s \notin mem[n].engine \/ nodeId[s] = n)

\* A claim that covers nothing alive is not pinned to its node: the heartbeat
\* leaves it out and its lease runs out.
IdleClaimLapses ==
    \A n \in Node, s \in Session :
        (nodeId[s] = n /\ ~(Alive(n) /\ Active(n, s)))
            ~> (nodeId[s] # n \/ lapsed[s] \/ (Alive(n) /\ Active(n, s)))

\* What a dead process left behind is adopted: while a peer is running, a lapsed
\* claim on a linked session worth resuming does not stay lapsed.
Orphan(s) == /\ nodeId[s] # NoNode /\ lapsed[s] /\ linked[s] /\ status[s] \in TakeoverStatuses
             /\ \E n \in Node : n # nodeId[s] /\ proc[n] = "running"
OrphanAdopted == \A s \in Session : Orphan(s) ~> ~Orphan(s)

-----------------------------------------------------------------------------
\* What comments and documents say of the program, and the program does not do.

\* docs/13: a lost claim's engine is torn down at the next heartbeat.  Unlike
\* OwnedLossHeals, whatever the node believes.
LossHeals ==
    \A n \in Node, s \in Session :
        (s \in mem[n].engine /\ nodeId[s] # n) ~> (s \notin mem[n].engine \/ nodeId[s] = n)

\* stop(): the claim is not released under an in-flight start.
ReleaseSparesEngine ==
    [][\A n \in Node, s \in Session :
         (s \in mem[n].releasing /\ nodeId[s] = n /\ nodeId'[s] = NoNode) => ~Active(n, s)]_vars

\* release(): the takeover sweep does not restart the session the operator stopped.
SweepSparesStopped ==
    [][\A n \in Node, s \in Session :
         (mem[n].queued[s] = "sweep" /\ mem[n].start[s] = "idle" /\ mem'[n].start[s] = "claimed")
            => command[s] # "stopped"]_vars

\* docs/13: a cleanly stopped session releases its claim so it is never lapsed.
CleanStopReleases ==
    \A s \in Session :
        (command[s] = "stopped" /\ \A n \in Node : s \notin mem[n].releasing)
            => ~(nodeId[s] # NoNode /\ lapsed[s])

\* onModuleDestroy(): claims are released only once the engines are down.
ShutdownReleasesDown ==
    \A n \in Node, s \in Session :
        (proc[n] = "exiting" /\ s \in mem[n].engine) => nodeId[s] = n

\* isEngineActive(): true while an executing reconnect will register an engine.
ActivityCoversAttempt ==
    \A n \in Node, s \in Session : mem[n].attempt[s] # "idle" => Active(n, s)

\* assertNotHeldElsewhere(): a delete does not remove the row a live peer is running.
DeleteSparesPeer ==
    [][\A s \in Session, n \in Node :
         (Exists(s) /\ ~Exists(s)' /\ s \in mem[n].engine /\ nodeId[s] = n /\ ~lapsed[s])
            => mem[n].control[s].pc = "record"]_vars

\* executeReconnect(), start(): a delete that races a launch does not leak its engine.
DeletedHasNoEngine ==
    \A n \in Node, s \in Session :
        (~Exists(s) /\ s \in mem[n].engine) ~> (s \notin mem[n].engine)
=============================================================================
