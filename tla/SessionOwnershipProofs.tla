----------------------- MODULE SessionOwnershipProofs -----------------------
(***************************************************************************)
(* Theorems about SessionOwnership, for every set of processes and of      *)
(* sessions and every bound.                                               *)
(***************************************************************************)
EXTENDS SessionOwnership, TLAPS

-----------------------------------------------------------------------------
\* The updates a handler makes to a process's memory keep it well formed.

LEMMA UpdateType ==
    ASSUME mem \in [Node -> Memory], NEW n \in Node, NEW m \in Memory, Update(n, m)
    PROVE  mem' \in [Node -> Memory]
BY DEF Update

LEMMA LetGoType ==
    ASSUME NEW m \in Memory, NEW s \in Session
    PROVE  LetGo(m, s) \in Memory
BY DEF LetGo, Memory, ActiveIn

LEMMA FreshType == FreshMemory \in Memory
BY DEF FreshMemory, Memory, NoControl, NoRenewal, StartPC, ControlPC, Kind

LEMMA SetStatusType ==
    ASSUME status \in [Session -> Status], NEW s \in Session, NEW v \in Status, SetStatus(s, v)
    PROVE  status' \in [Session -> Status]
BY DEF SetStatus

LEMMA BudgetType ==
    ASSUME requests \in Nat, faults \in Nat
    PROVE  /\ \A r : Request(r) => requests' \in Nat
           /\ \A f : Fault(f) => faults' \in Nat
BY DEF Request, Fault

LEMMA QueueUpdates ==
    ASSUME NEW m \in Memory, NEW S \in SUBSET Session
    PROVE  /\ [m EXCEPT !.queued = [t \in Session |-> IF t \in S THEN "boot" ELSE "no"]] \in Memory
           /\ [m EXCEPT !.queued = [t \in Session |-> IF t \in S THEN "sweep" ELSE "no"]] \in Memory
           /\ \A s \in Session : [m EXCEPT !.queued[s] = "no"] \in Memory
BY DEF Memory

LEMMA StartUpdates ==
    ASSUME NEW m \in Memory, NEW s \in Session
    PROVE  /\ \A pc \in StartPC : [m EXCEPT !.start[s] = pc] \in Memory
           /\ \A pc \in StartPC : [m EXCEPT !.reconnect[s] = "none", !.start[s] = pc] \in Memory
           /\ \A pc \in StartPC : [m EXCEPT !.engine = @ \ {s}, !.start[s] = pc] \in Memory
           /\ [m EXCEPT !.owned = @ \cup {s}, !.start[s] = "entered"] \in Memory
           /\ [m EXCEPT !.stopMark = @ \ {s}, !.reconnect[s] = "none",
                        !.start[s] = "hook"] \in Memory
           /\ [m EXCEPT !.reconnect[s] = "dormant", !.engine = @ \cup {s},
                        !.start[s] = "saving"] \in Memory
           /\ [m EXCEPT !.engine = @ \ {s}] \in Memory
           /\ [m EXCEPT !.releasing = @ \ {s}] \in Memory
           /\ [m EXCEPT !.closing = @ \ {s}, !.engine = @ \ {s}] \in Memory
<1>0. \A k \in Memory, pc \in {"entered", "hook", "saving"} : [k EXCEPT !.start[s] = pc] \in Memory
  BY DEF Memory, StartPC
<1>1. ASSUME NEW pc \in StartPC
      PROVE  /\ [m EXCEPT !.start[s] = pc] \in Memory
             /\ [m EXCEPT !.reconnect[s] = "none", !.start[s] = pc] \in Memory
  BY DEF Memory
<1>2. ASSUME NEW pc \in StartPC PROVE [m EXCEPT !.engine = @ \ {s}, !.start[s] = pc] \in Memory
  BY DEF Memory
<1>3. [m EXCEPT !.owned = @ \cup {s}, !.start[s] = "entered"] \in Memory
  <2> DEFINE k == [m EXCEPT !.owned = @ \cup {s}]
  <2>1. k \in Memory
    BY DEF Memory
  <2> HIDE DEF k
  <2>2. [k EXCEPT !.start[s] = "entered"] \in Memory
    BY <2>1, <1>0
  <2> QED BY <2>2 DEF k
<1>4. [m EXCEPT !.stopMark = @ \ {s}, !.reconnect[s] = "none", !.start[s] = "hook"] \in Memory
  <2> DEFINE k == [m EXCEPT !.stopMark = @ \ {s}, !.reconnect[s] = "none"]
  <2>1. k \in Memory
    BY DEF Memory
  <2> HIDE DEF k
  <2>2. [k EXCEPT !.start[s] = "hook"] \in Memory
    BY <2>1, <1>0
  <2> QED BY <2>2 DEF k
<1>5. [m EXCEPT !.reconnect[s] = "dormant", !.engine = @ \cup {s}, !.start[s] = "saving"] \in Memory
  <2> DEFINE k == [m EXCEPT !.reconnect[s] = "dormant", !.engine = @ \cup {s}]
  <2>1. k \in Memory
    BY DEF Memory
  <2> HIDE DEF k
  <2>2. [k EXCEPT !.start[s] = "saving"] \in Memory
    BY <2>1, <1>0
  <2> QED BY <2>2 DEF k
<1>6. /\ [m EXCEPT !.engine = @ \ {s}] \in Memory
      /\ [m EXCEPT !.releasing = @ \ {s}] \in Memory
      /\ [m EXCEPT !.closing = @ \ {s}, !.engine = @ \ {s}] \in Memory
  BY DEF Memory
<1> QED BY <1>1, <1>2, <1>3, <1>4, <1>5, <1>6

LEMMA ControlUpdates ==
    ASSUME NEW m \in Memory, NEW s \in Session
    PROVE  /\ \A pc \in ControlPC : [m EXCEPT !.control[s].pc = pc] \in Memory
           /\ \A c \in [pc : ControlPC, kind : Kind], S \in SUBSET Session :
                 [m EXCEPT !.control[s] = c, !.stopMark = S] \in Memory
           /\ [m EXCEPT !.stopMark = @ \cup {s}, !.reconnect[s] = "none"] \in Memory
           /\ [m EXCEPT !.engine = @ \ {s}] \in Memory
           /\ [m EXCEPT !.stopMark = @ \ {s}, !.owned = @ \ {s},
                        !.releasing = @ \cup {s}] \in Memory
<1>1. ASSUME NEW pc \in ControlPC PROVE [m EXCEPT !.control[s].pc = pc] \in Memory
  <2>1. /\ m.control \in [Session -> [pc : ControlPC, kind : Kind]]
        /\ \A c \in [Session -> [pc : ControlPC, kind : Kind]] : [m EXCEPT !.control = c] \in Memory
    BY DEF Memory
  <2>2. [m.control EXCEPT ![s].pc = pc] \in [Session -> [pc : ControlPC, kind : Kind]]
    BY <2>1
  <2> QED BY <2>1, <2>2
<1>2. ASSUME NEW c \in [pc : ControlPC, kind : Kind], NEW S \in SUBSET Session
      PROVE  [m EXCEPT !.control[s] = c, !.stopMark = S] \in Memory
  BY DEF Memory
<1>3. [m EXCEPT !.stopMark = @ \cup {s}, !.reconnect[s] = "none"] \in Memory
  <2> DEFINE Timers == [Session -> {"none", "dormant", "armed", "running"}]
  <2>1. m.stopMark \cup {s} \in SUBSET Session /\ [m.reconnect EXCEPT ![s] = "none"] \in Timers
    BY DEF Memory
  <2>2. \A S \in SUBSET Session, r \in Timers :
           [m EXCEPT !.stopMark = S, !.reconnect = r] \in Memory
    BY DEF Memory
  <2> HIDE DEF Timers
  <2> QED BY <2>1, <2>2
<1>4. [m EXCEPT !.engine = @ \ {s}] \in Memory
  BY DEF Memory
<1>5. [m EXCEPT !.stopMark = @ \ {s}, !.owned = @ \ {s}, !.releasing = @ \cup {s}] \in Memory
  <2>1. /\ m.stopMark \ {s} \in SUBSET Session /\ m.owned \ {s} \in SUBSET Session
        /\ m.releasing \cup {s} \in SUBSET Session
    BY DEF Memory
  <2>2. \A A, B, C \in SUBSET Session :
           [m EXCEPT !.stopMark = A, !.owned = B, !.releasing = C] \in Memory
    BY DEF Memory
  <2> QED BY <2>1, <2>2
<1> QED BY <1>1, <1>2, <1>3, <1>4, <1>5

LEMMA RenewUpdates ==
    ASSUME NEW m \in Memory
    PROVE  /\ \A held, live \in SUBSET Session :
                 [m EXCEPT !.renewal = [pc |-> "update", ids |-> held, live |-> live]] \in Memory
           /\ [m EXCEPT !.renewal.pc = "select", !.renewal.live = {}] \in Memory
           /\ \A ids \in SUBSET Session :
                 [m EXCEPT !.renewal.pc = "conclude", !.renewal.ids = ids] \in Memory
           /\ [m EXCEPT !.renewal = NoRenewal] \in Memory
           /\ \A lost \in SUBSET Session :
                 [m EXCEPT !.renewal = NoRenewal, !.owned = @ \ lost, !.stopMark = @ \cup lost,
                           !.reconnect = [s \in Session |-> IF s \in lost THEN "none" ELSE @[s]],
                           !.closing = @ \cup (lost \cap m.engine)] \in Memory
<1> DEFINE Renewal == [pc : {"idle", "update", "select", "conclude"},
                       ids : SUBSET Session, live : SUBSET Session]
<1>1. m.renewal \in Renewal /\ \A r \in Renewal : [m EXCEPT !.renewal = r] \in Memory
  BY DEF Memory
<1>2. NoRenewal \in Renewal
  BY DEF NoRenewal
<1>3. /\ \A held, live \in SUBSET Session : [pc |-> "update", ids |-> held, live |-> live] \in Renewal
      /\ [m.renewal EXCEPT !.pc = "select", !.live = {}] \in Renewal
      /\ \A ids \in SUBSET Session : [m.renewal EXCEPT !.pc = "conclude", !.ids = ids] \in Renewal
  BY <1>1
<1>4. ASSUME NEW lost \in SUBSET Session
      PROVE  [m EXCEPT !.renewal = NoRenewal, !.owned = @ \ lost, !.stopMark = @ \cup lost,
                       !.reconnect = [s \in Session |-> IF s \in lost THEN "none" ELSE @[s]],
                       !.closing = @ \cup (lost \cap m.engine)] \in Memory
  BY <1>2 DEF Memory
<1>5. [m EXCEPT !.renewal.pc = "select", !.renewal.live = {}] \in Memory
  BY <1>3 DEF Memory
<1>6. ASSUME NEW ids \in SUBSET Session
      PROVE  [m EXCEPT !.renewal.pc = "conclude", !.renewal.ids = ids] \in Memory
  BY <1>3 DEF Memory
<1> HIDE DEF Renewal
<1> QED BY <1>1, <1>2, <1>3, <1>4, <1>5, <1>6

LEMMA ReconnectUpdates ==
    ASSUME NEW m \in Memory, NEW s \in Session
    PROVE  /\ [m EXCEPT !.reconnect[s] = "armed"] \in Memory
           /\ [m EXCEPT !.reconnect[s] = "none", !.engine = @ \ {s}] \in Memory
           /\ [m EXCEPT !.reconnect[s] = "running", !.attempt[s] = "clearing",
                        !.engine = @ \ {s}] \in Memory
           /\ [m EXCEPT !.engine = @ \cup {s}, !.attempt[s] = "launching"] \in Memory
           /\ [m EXCEPT !.attempt[s] = "idle"] \in Memory
           /\ [m EXCEPT !.attempt[s] = "idle", !.engine = @ \ {s}] \in Memory
           /\ [m EXCEPT !.engine = @ \ {s}] \in Memory
<1>1. [m EXCEPT !.reconnect[s] = "armed"] \in Memory
  BY DEF Memory
<1>2. [m EXCEPT !.reconnect[s] = "none", !.engine = @ \ {s}] \in Memory
  BY DEF Memory
<1>3. [m EXCEPT !.reconnect[s] = "running", !.attempt[s] = "clearing", !.engine = @ \ {s}] \in Memory
  <2> DEFINE k == [m EXCEPT !.reconnect[s] = "running", !.attempt[s] = "clearing"]
  <2>1. k \in Memory
    BY DEF Memory
  <2>2. \A h \in Memory : [h EXCEPT !.engine = @ \ {s}] \in Memory
    BY DEF Memory
  <2> HIDE DEF k
  <2>3. [k EXCEPT !.engine = @ \ {s}] \in Memory
    BY <2>1, <2>2
  <2> QED BY <2>3 DEF k
<1>4. [m EXCEPT !.engine = @ \cup {s}, !.attempt[s] = "launching"] \in Memory
  <2> DEFINE k == [m EXCEPT !.engine = @ \cup {s}]
  <2>1. k \in Memory
    BY DEF Memory
  <2>2. \A h \in Memory : [h EXCEPT !.attempt[s] = "launching"] \in Memory
    BY DEF Memory
  <2> HIDE DEF k
  <2>3. [k EXCEPT !.attempt[s] = "launching"] \in Memory
    BY <2>1, <2>2
  <2> QED BY <2>3 DEF k
<1>5. /\ [m EXCEPT !.attempt[s] = "idle"] \in Memory
      /\ [m EXCEPT !.attempt[s] = "idle", !.engine = @ \ {s}] \in Memory
      /\ [m EXCEPT !.engine = @ \ {s}] \in Memory
  BY DEF Memory
<1> QED BY <1>1, <1>2, <1>3, <1>4, <1>5

LEMMA ShutdownUpdates ==
    ASSUME NEW m \in Memory
    PROVE  /\ [m EXCEPT !.reconnect = [s \in Session |-> "none"]] \in Memory
           /\ [m EXCEPT !.engine = {}, !.owned = {}] \in Memory
BY DEF Memory

-----------------------------------------------------------------------------
\* Every action keeps the types.

LEMMA NodeTypes ==
    ASSUME TypeOK, NEW n \in Node, NodeStep(n)
    PROVE  TypeOK'
<1> USE DEF TypeOK
<1>0. mem[n] \in Memory /\ NoNode \notin Node
  BY OwnershipAssumption
<1>1. CASE Boot(n)
  BY <1>1 DEF Boot, claim, ghost, Proc, Status
<1>2. CASE Bootstrap(n)
  <2> DEFINE S == {s \in Session : linked[s] /\ status[s] = "disconnected" /\ Claimable(n, s)}
  <2>0. S \in SUBSET Session
    OBVIOUS
  <2>1. [mem[n] EXCEPT !.queued = [s \in Session |-> IF s \in S THEN "boot" ELSE "no"]] \in Memory
    <3> HIDE DEF S
    <3> QED BY <1>0, <2>0, QueueUpdates
  <2>2. [s \in Session |-> IF s \in S THEN "boot" ELSE "no"]
            = [s \in Session |-> IF linked[s] /\ status[s] = "disconnected" /\ Claimable(n, s)
                                 THEN "boot" ELSE "no"]
    OBVIOUS
  <2> HIDE DEF S
  <2> QED BY <1>2, <2>1, <2>2, UpdateType DEF Bootstrap, row, ghost, Proc
<1>3. CASE Listen(n)
  BY <1>3 DEF Listen, row, ghost, Proc
<1>4. CASE Sweep(n)
  <2> DEFINE S == {s \in Session : LapsedByOther(n, s) /\ linked[s] /\ status[s] \in TakeoverStatuses}
  <2>0. S \in SUBSET Session
    OBVIOUS
  <2>1. [mem[n] EXCEPT !.queued = [s \in Session |-> IF s \in S THEN "sweep" ELSE "no"]] \in Memory
    <3> HIDE DEF S
    <3> QED BY <1>0, <2>0, QueueUpdates
  <2> HIDE DEF TypeOK
  <2>2. /\ Update(n, [mem[n] EXCEPT !.queued = [s \in Session |-> IF s \in S THEN "sweep" ELSE "no"]])
        /\ UNCHANGED <<row, proc, ghost>>
    BY <1>4 DEF Sweep
  <2> HIDE DEF S
  <2> USE DEF TypeOK
  <2> QED BY <2>1, <2>2, UpdateType DEF row, ghost
<1>5. CASE RenewBegin(n)
  <2>1. mem[n].owned \in SUBSET Session /\ LiveClaims(n) \in SUBSET Session
    BY <1>0 DEF Memory, LiveClaims
  <2> QED BY <1>0, <1>5, <2>1, RenewUpdates, UpdateType DEF RenewBegin, row, ghost
<1>6. CASE RenewUpdate(n)
  BY <1>0, <1>6, RenewUpdates, UpdateType DEF RenewUpdate, info, ghost
<1>7. CASE RenewSelect(n)
  <2>1. {s \in mem[n].renewal.ids : ~(Exists(s) /\ nodeId[s] = n)} \in SUBSET Session
    BY <1>0 DEF Memory
  <2> QED BY <1>0, <1>7, <2>1, RenewUpdates, UpdateType DEF RenewSelect, row, ghost
<1>8. CASE RenewConclude(n)
  <2>1. mem[n].renewal.ids \in SUBSET Session
    BY <1>0 DEF Memory
  <2> QED BY <1>0, <1>8, <2>1, RenewUpdates, UpdateType DEF RenewConclude, row, ghost
<1>9. CASE RenewFail(n)
  BY <1>0, <1>9, RenewUpdates, UpdateType, BudgetType DEF RenewFail, row
<1>10. CASE Crash(n)
  BY <1>10, FreshType, UpdateType, BudgetType DEF Crash, Down, row, Proc
<1>11. CASE Shutdown(n)
  BY <1>0, <1>11, ShutdownUpdates, UpdateType, BudgetType DEF Shutdown, row, Proc
<1>12. CASE ShutdownRelease(n)
  BY <1>0, <1>12, ShutdownUpdates, UpdateType DEF ShutdownRelease, info, ghost, Proc
<1>13. CASE Exit(n)
  BY <1>13, FreshType, UpdateType DEF Exit, Down, row, ghost, Proc
<1> QED
  BY <1>1, <1>2, <1>3, <1>4, <1>5, <1>6, <1>7, <1>8, <1>9, <1>10, <1>11, <1>12, <1>13
  DEF NodeStep, RenewStep

LEMMA StartTypes ==
    ASSUME TypeOK, NEW n \in Node, NEW s \in Session,
           \/ RequestStart(n, s) \/ QueuedStart(n, s) \/ StartStep(n, s)
           \/ StartFails(n, s) \/ ReleaseRow(n, s)
    PROVE  TypeOK'
<1> USE DEF TypeOK
<1>0. mem[n] \in Memory /\ NoNode \notin Node
  BY OwnershipAssumption
<1>1. ASSUME NEW m \in Memory, ClaimRow(n, s, m)
      PROVE  /\ mem' \in [Node -> Memory]
             /\ nodeId' \in [Session -> Node \cup {NoNode}]
             /\ lapsed' \in [Session -> BOOLEAN]
             /\ \A t \in Session : lapsed'[t] => nodeId'[t] # NoNode
             /\ UNCHANGED <<info, proc, faults>>
  <2>1. [m EXCEPT !.start[s] = "claimed"] \in Memory
    BY StartUpdates DEF StartPC
  <2>2. CASE Exists(s) /\ Claimable(n, s)
    <3>1. Update(n, [m EXCEPT !.start[s] = "claimed"])
      BY <1>1, <2>2 DEF ClaimRow
    <3>2. mem' \in [Node -> Memory]
      BY <2>1, <3>1, UpdateType
    <3> QED BY <1>0, <1>1, <2>2, <3>2 DEF ClaimRow
  <2>3. CASE ~(Exists(s) /\ Claimable(n, s))
    <3>1. Update(n, m) /\ UNCHANGED claim
      BY <1>1, <2>3 DEF ClaimRow
    <3>2. mem' \in [Node -> Memory]
      BY <3>1, UpdateType
    <3> QED BY <1>0, <1>1, <3>1, <3>2 DEF ClaimRow, claim
  <2> QED BY <2>2, <2>3
<1>2. CASE RequestStart(n, s)
  BY <1>0, <1>1, <1>2, BudgetType DEF RequestStart, info
<1>3. CASE QueuedStart(n, s)
  <2>1. [mem[n] EXCEPT !.queued[s] = "no"] \in Memory
    BY <1>0, QueueUpdates
  <2> QED BY <1>1, <1>3, <2>1 DEF QueuedStart, info
<1>4. CASE StartEnter(n, s)
  BY <1>0, <1>4, StartUpdates, UpdateType DEF StartEnter, row, ghost
<1>5. CASE StartAccept(n, s)
  BY <1>0, <1>5, StartUpdates, UpdateType DEF StartAccept, row, ghost
<1>6. CASE StartRefuse(n, s)
  BY <1>0, <1>6, StartUpdates, LetGoType, UpdateType DEF StartRefuse, row, ghost, StartPC
<1>7. CASE StartRegister(n, s)
  BY <1>0, <1>7, StartUpdates, UpdateType DEF StartRegister, row, ghost
<1>8. CASE StartSaved(n, s)
  BY <1>0, <1>8, StartUpdates, UpdateType, SetStatusType DEF StartSaved, claim, ghost, StartPC, Status
<1>9. CASE StartFails(n, s)
  BY <1>0, <1>9, StartUpdates, UpdateType, BudgetType DEF StartFails, row, StartPC
<1>10. CASE StartFailed(n, s)
  <2>1. status' \in [Session -> Status]
    BY <1>10, SetStatusType DEF StartFailed, SetFailed, Status
  <2> QED BY <1>0, <1>10, <2>1, StartUpdates, LetGoType, UpdateType
          DEF StartFailed, claim, ghost, StartPC
<1>11. CASE StartGuard(n, s)
  BY <1>0, <1>11, StartUpdates, LetGoType, UpdateType DEF StartGuard, row, ghost, StartPC
<1>12. CASE ReleaseRow(n, s)
  BY <1>0, <1>12, StartUpdates, UpdateType DEF ReleaseRow, claim, info, ghost
<1> QED
  BY <1>2, <1>3, <1>4, <1>5, <1>6, <1>7, <1>8, <1>9, <1>10, <1>11, <1>12 DEF StartStep

LEMMA ControlTypes ==
    ASSUME TypeOK, NEW n \in Node, NEW s \in Session,
           (\E kind \in Kind : RequestControl(n, s, kind)) \/ ControlStep(n, s) \/ OrphanDown(n, s)
    PROVE  TypeOK'
<1> USE DEF TypeOK
<1>0. mem[n] \in Memory /\ NoNode \notin Node
  BY OwnershipAssumption
<1>1. ASSUME NEW pc \in ControlPC PROVE Control(n, s, pc) \in Memory
  BY <1>0, <1>1, ControlUpdates DEF Control
<1>2. ASSUME NEW kind \in Kind, RequestControl(n, s, kind) PROVE TypeOK'
  <2> DEFINE c == [pc |-> IF kind \in {"stop", "delete"} THEN "fence" ELSE "body", kind |-> kind]
             S == IF kind \in {"stop", "delete"} THEN mem[n].stopMark \cup {s} ELSE mem[n].stopMark
  <2>1. c \in [pc : ControlPC, kind : Kind] /\ S \in SUBSET Session
    BY <1>0 DEF ControlPC, Memory
  <2>2. [mem[n] EXCEPT !.control[s] = c, !.stopMark = S] \in Memory
    BY <1>0, <2>1, ControlUpdates
  <2> QED BY <1>2, <2>2, UpdateType, BudgetType DEF RequestControl, row
<1>3. CASE ControlFence(n, s)
  BY <1>1, <1>3, UpdateType DEF ControlFence, row, ghost, ControlPC
<1>4. CASE ControlBody(n, s)
  BY <1>1, <1>4, ControlUpdates, UpdateType DEF ControlBody, row, ghost, ControlPC
<1>5. CASE ControlRefuse(n, s)
  BY <1>1, <1>5, LetGoType, UpdateType DEF ControlRefuse, row, ghost, ControlPC
<1>6. CASE ControlTornDown(n, s)
  BY <1>1, <1>6, ControlUpdates, UpdateType DEF ControlTornDown, row, ghost, ControlPC
<1>7. CASE ControlRecord(n, s)
  BY <1>1, <1>7, SetStatusType, UpdateType DEF ControlRecord, claim, ghost, ControlPC, Status
<1>8. CASE ControlUnlink(n, s)
  BY <1>1, <1>8, UpdateType DEF ControlUnlink, claim, ghost, ControlPC
<1>9. CASE ControlSettle(n, s)
  BY <1>1, <1>9, ControlUpdates, LetGoType, UpdateType DEF ControlSettle, row, ControlPC
<1>10. CASE OrphanDown(n, s)
  BY <1>0, <1>10, StartUpdates, UpdateType DEF OrphanDown, row, ghost
<1> QED
  BY <1>2, <1>3, <1>4, <1>5, <1>6, <1>7, <1>8, <1>9, <1>10 DEF ControlStep

LEMMA EngineTypes ==
    ASSUME TypeOK, NEW n \in Node, NEW s \in Session,
           \/ EngineReady(n, s) \/ EngineDrops(n, s) \/ EngineErrs(n, s)
           \/ ReconnectStep(n, s) \/ ReconnectFails(n, s)
    PROVE  TypeOK'
<1> USE DEF TypeOK
<1>0. mem[n] \in Memory
  OBVIOUS
<1>1. ASSUME NEW m \in Memory, Reschedule(n, s, m)
      PROVE  mem' \in [Node -> Memory] /\ status' \in [Session -> Status]
  BY <1>0, <1>1, ReconnectUpdates, UpdateType, SetStatusType DEF Reschedule, Status
<1>2. CASE EngineReady(n, s)
  BY <1>2, SetStatusType DEF EngineReady, claim, ghost, Status
<1>3. CASE EngineDrops(n, s)
  BY <1>0, <1>1, <1>3, BudgetType DEF EngineDrops, claim
<1>4. CASE EngineErrs(n, s)
  BY <1>0, <1>4, ReconnectUpdates, UpdateType, SetStatusType, BudgetType
  DEF EngineErrs, SetFailed, claim, Status
<1>5. CASE ReconnectFires(n, s)
  BY <1>0, <1>5, ReconnectUpdates, UpdateType DEF ReconnectFires, row, ghost
<1>6. CASE ReconnectLaunches(n, s)
  BY <1>0, <1>6, ReconnectUpdates, UpdateType, SetStatusType DEF ReconnectLaunches, claim, ghost, Status
<1>7. CASE ReconnectEnds(n, s)
  BY <1>0, <1>7, ReconnectUpdates, UpdateType DEF ReconnectEnds, row, ghost
<1>8. CASE ReconnectFails(n, s)
  <2>1. [mem[n] EXCEPT !.attempt[s] = "idle", !.engine = @ \ {s}] \in Memory
    BY <1>0, ReconnectUpdates
  <2> QED BY <1>1, <1>8, <2>1, BudgetType DEF ReconnectFails, claim
<1> QED
  BY <1>2, <1>3, <1>4, <1>5, <1>6, <1>7, <1>8 DEF ReconnectStep

\* Type correctness, and: a row nobody holds has no lease.
THEOREM TypeCorrect == Spec => []TypeOK
<1>1. Init => TypeOK
  BY FreshType, OwnershipAssumption DEF Init, TypeOK, Status, Proc
<1>2. TypeOK /\ [Next]_vars => TypeOK'
  <2> SUFFICES ASSUME TypeOK, [Next]_vars PROVE TypeOK'
    OBVIOUS
  <2>1. CASE UNCHANGED vars
    BY <2>1 DEF vars, TypeOK
  <2>2. ASSUME NEW s \in Session, UnrenewedLapse(s) \/ HealthyLapse(s) PROVE TypeOK'
    BY <2>2, BudgetType DEF UnrenewedLapse, HealthyLapse, Lapse, info, TypeOK
  <2>3. ASSUME NEW n \in Node, NEW s \in Session, SessionStep(n, s) PROVE TypeOK'
    BY <2>3, StartTypes, ControlTypes, EngineTypes DEF SessionStep
  <2> QED BY <2>1, <2>2, <2>3, NodeTypes DEF Next
<1> QED BY <1>1, <1>2, PTL DEF Spec
-----------------------------------------------------------------------------
\* The claim columns follow the abstract lease.

\* What the step does to the row t: nothing, or what one statement of n may do.
RowFollowsLease(n, t) ==
    \/ Claims!Unchanged(t) \/ Claims!Acquire(n, t) \/ Claims!Extend(n, t)
    \/ Claims!Release(n, t) \/ Claims!ReleaseAll(n, t) \/ Claims!Remove(n, t)

\* What n is told: nothing, or the claim it has just made.
AnswersFollowLease(n, t) == Claims!Told(n, t) => Claims!Acquire(n, t)

LEMMA SentTypes ==
    ASSUME TypeOK
    PROVE  \A n \in Node : Sent(n) \in Claims!Statements /\ Granted(n) \in SUBSET Session
<1> SUFFICES ASSUME NEW n \in Node PROVE Sent(n) \in Claims!Statements /\ Granted(n) \in SUBSET Session
  OBVIOUS
<1>1. mem[n] \in Memory
  BY DEF TypeOK
<1>2. mem[n].renewal.live \subseteq Session /\ mem[n].releasing \subseteq Session /\ mem[n].owned \subseteq Session
  BY <1>1 DEF Memory
<1> QED BY <1>2 DEF Sent, Granted, Claims!Statements

\* A node that does not take the step sends nothing and is told nothing.
LEMMA OthersUntold ==
    ASSUME TypeOK, NEW n \in Node, mem' = [mem EXCEPT ![n] = mem'[n]],
           NEW m \in Node \ {n}, NEW t \in Session
    PROVE  AnswersFollowLease(m, t)
<1>1. mem'[m] = mem[m]
  BY DEF TypeOK
<1> QED BY <1>1 DEF AnswersFollowLease, Claims!Told, Granted

\* A step that answers no claim of n tells it nothing.
LEMMA Untold ==
    ASSUME NEW n \in Node, NEW t \in Session,
           mem'[n].start[t] = "claimed" => mem[n].start[t] = "claimed"
    PROVE  AnswersFollowLease(n, t)
BY DEF AnswersFollowLease, Claims!Told, Granted

\* Nor does one that leaves the rows alone do anything to them.
LEMMA Kept ==
    ASSUME TypeOK, NEW n \in Node, NEW t \in Session, NEW k, Update(n, k), UNCHANGED <<nodeId, lapsed>>,
           k.start[t] = "claimed" => mem[n].start[t] = "claimed"
    PROVE  RowFollowsLease(n, t) /\ AnswersFollowLease(n, t)
<1>1. mem'[n] = k
  BY DEF TypeOK, Update
<1> QED BY <1>1, Untold DEF RowFollowsLease, Claims!Unchanged

LEMMA NodeFollowsLease ==
    ASSUME TypeOK, NEW n \in Node, NodeStep(n), NEW t \in Session
    PROVE  RowFollowsLease(n, t) /\ AnswersFollowLease(n, t)
<1>m. mem[n] \in Memory
  BY DEF TypeOK
<1>1. CASE RenewUpdate(n)
  <2>1. nodeId'[t] = nodeId[t] /\ (lapsed'[t] = (lapsed[t] /\ ~(t \in mem[n].renewal.live /\ nodeId[t] = n)))
    BY <1>1 DEF RenewUpdate
  <2>2. mem'[n] = [mem[n] EXCEPT !.renewal.pc = "select", !.renewal.live = {}]
    BY <1>1 DEF TypeOK, RenewUpdate, Update
  <2>4. mem'[n].renewal.live = {} /\ mem'[n].start = mem[n].start
    <3> DEFINE m == [mem[n] EXCEPT !.renewal.pc = "select"]
    <3>1. m \in Memory /\ m.start = mem[n].start
      BY <1>m DEF Memory
    <3>2. [m EXCEPT !.renewal.live = {}].renewal.live = {} /\ [m EXCEPT !.renewal.live = {}].start = m.start
      <4> HIDE DEF m
      <4> QED BY <3>1 DEF Memory
    <3> QED BY <2>2, <3>1, <3>2
  <2>5. ASSUME t \in mem[n].renewal.live /\ nodeId[t] = n PROVE RowFollowsLease(n, t)
    BY <2>1, <2>4, <2>5 DEF RowFollowsLease, Claims!Extend, Claims!Consumed, Sent
  <2>6. ASSUME ~(t \in mem[n].renewal.live /\ nodeId[t] = n) PROVE RowFollowsLease(n, t)
    BY <2>1, <2>6 DEF TypeOK, RowFollowsLease, Claims!Unchanged
  <2> QED BY <2>4, <2>5, <2>6, Untold
<1>2. CASE ShutdownRelease(n)
  <2>1. proc[n] = "draining" /\ proc'[n] = "exiting"
    BY <1>2 DEF TypeOK, ShutdownRelease
  <2>2. mem'[n] = [mem[n] EXCEPT !.engine = {}, !.owned = {}]
    BY <1>2 DEF TypeOK, ShutdownRelease, Update
  <2>4. mem'[n].start = mem[n].start
    BY <1>m, <2>2 DEF Memory
  <2>5. ASSUME t \in mem[n].owned /\ nodeId[t] = n PROVE RowFollowsLease(n, t)
    <3>1. nodeId'[t] = NoNode /\ ~lapsed'[t]
      BY <1>2, <2>5 DEF TypeOK, ShutdownRelease
    <3> QED BY <2>1, <2>5, <3>1 DEF RowFollowsLease, Claims!ReleaseAll, Claims!Consumed, Claims!Vacated, Sent
  <2>6. ASSUME ~(t \in mem[n].owned /\ nodeId[t] = n) PROVE RowFollowsLease(n, t)
    BY <1>2, <2>6 DEF TypeOK, ShutdownRelease, RowFollowsLease, Claims!Unchanged
  <2> QED BY <2>4, <2>5, <2>6, Untold
<1>3. CASE ~RenewUpdate(n) /\ ~ShutdownRelease(n)
  <2>1. UNCHANGED <<nodeId, lapsed>>
    BY <1>3 DEF NodeStep, RenewStep, Boot, Bootstrap, Listen, Sweep, RenewBegin, RenewSelect,
                RenewConclude, RenewFail, Crash, Shutdown, Exit, row, claim
  <2>3. mem'[n].start[t] = "claimed" => mem[n].start[t] = "claimed"
    <3>1. CASE Boot(n) \/ Listen(n)
      BY <3>1 DEF Boot, Listen
    <3>2. CASE Crash(n) \/ Exit(n)
      BY <3>2 DEF TypeOK, Crash, Exit, Down, Update, FreshMemory
    <3>3. CASE Bootstrap(n) \/ Sweep(n) \/ Shutdown(n)
      <4>1. \A f : /\ [mem[n] EXCEPT !.queued = f].start = mem[n].start
                   /\ [mem[n] EXCEPT !.reconnect = f].start = mem[n].start
        BY <1>m DEF Memory
      <4>2. \E f : mem'[n] = [mem[n] EXCEPT !.queued = f] \/ mem'[n] = [mem[n] EXCEPT !.reconnect = f]
        BY <3>3 DEF TypeOK, Bootstrap, Sweep, Shutdown, Update
      <4> QED BY <4>1, <4>2
    <3>4. CASE RenewBegin(n) \/ RenewFail(n)
      <4>1. \A r : [mem[n] EXCEPT !.renewal = r].start = mem[n].start
        BY <1>m DEF Memory
      <4>2. \E r : mem'[n] = [mem[n] EXCEPT !.renewal = r]
        BY <3>4 DEF TypeOK, RenewBegin, RenewFail, Update
      <4> QED BY <4>1, <4>2
    <3>5. CASE RenewSelect(n)
      <4>1. mem'[n] = [mem[n] EXCEPT !.renewal.pc = "conclude",
                          !.renewal.ids = {u \in @ : ~(Exists(u) /\ nodeId[u] = n)}]
        BY <3>5 DEF TypeOK, RenewSelect, Update
      <4>2. mem'[n].start = mem[n].start
        BY <1>m, <4>1 DEF Memory
      <4> QED BY <4>2
    <3>6. CASE RenewConclude(n)
      BY <1>m, <3>6 DEF TypeOK, RenewConclude, Update, Memory
    <3> QED BY <1>3, <3>1, <3>2, <3>3, <3>4, <3>5, <3>6 DEF NodeStep, RenewStep
  <2> QED BY <2>1, <2>3, Untold DEF RowFollowsLease, Claims!Unchanged
<1> QED BY <1>1, <1>2, <1>3

LEMMA SessionFollowsLease ==
    ASSUME TypeOK, NEW n \in Node, NEW s \in Session, SessionStep(n, s), NEW t \in Session
    PROVE  RowFollowsLease(n, t) /\ AnswersFollowLease(n, t)
<1>m. mem[n] \in Memory
  BY DEF TypeOK
<1>1. ASSUME NEW m \in Memory, ClaimRow(n, s, m), m.start = mem[n].start
      PROVE  RowFollowsLease(n, t) /\ AnswersFollowLease(n, t)
  <2>1. CASE t = s /\ Exists(s) /\ Claimable(n, s)
    <3>1. nodeId'[t] = n /\ ~lapsed'[t]
      BY <1>1, <2>1 DEF TypeOK, ClaimRow
    <3>2. mem'[n].start[t] = "claimed" /\ mem[n].start[t] = "idle"
      BY <1>1, <2>1 DEF TypeOK, ClaimRow, Update, Memory
    <3>3. Claims!Acquire(n, t)
      BY <2>1, <3>1, <3>2 DEF RowFollowsLease, Claims!Acquire, Claims!Told, Granted, Claimable
    <3> QED BY <3>3 DEF RowFollowsLease, AnswersFollowLease
  <2>2. CASE ~(t = s /\ Exists(s) /\ Claimable(n, s))
    <3>1. nodeId'[t] = nodeId[t] /\ lapsed'[t] = lapsed[t]
      BY <1>1, <2>2 DEF TypeOK, ClaimRow, claim
    <3>2. mem'[n].start[t] = mem[n].start[t]
      BY <1>1, <2>2 DEF TypeOK, ClaimRow, Update, Memory
    <3> QED BY <3>1, <3>2, Untold DEF RowFollowsLease, Claims!Unchanged
  <2> QED BY <2>1, <2>2
<1>2. CASE RequestStart(n, s)
  BY <1>m, <1>1, <1>2 DEF RequestStart
<1>3. CASE QueuedStart(n, s)
  <2> DEFINE m == [mem[n] EXCEPT !.queued[s] = "no"]
  <2>1. m \in Memory /\ m.start = mem[n].start
    BY <1>m DEF Memory
  <2>2. ClaimRow(n, s, m)
    BY <1>3 DEF QueuedStart
  <2> HIDE DEF m
  <2> QED BY <1>1, <2>1, <2>2
<1>4. CASE ReleaseRow(n, s)
  <2>1. s \in mem[n].releasing /\ mem'[n] = [mem[n] EXCEPT !.releasing = @ \ {s}]
    BY <1>4 DEF TypeOK, ReleaseRow, Update
  <2>2. s \notin mem'[n].releasing /\ mem'[n].start = mem[n].start
    BY <1>m, <2>1 DEF Memory
  <2>3. ASSUME t = s /\ Exists(s) /\ (nodeId[s] = n \/ lapsed[s]) PROVE RowFollowsLease(n, t)
    <3>1. nodeId'[s] = NoNode /\ ~lapsed'[s]
      BY <1>4, <2>3 DEF TypeOK, ReleaseRow
    <3> QED BY <2>1, <2>2, <2>3, <3>1
            DEF RowFollowsLease, Claims!Release, Claims!Consumed, Claims!Vacated, Sent
  <2>4. ASSUME ~(t = s /\ Exists(s) /\ (nodeId[s] = n \/ lapsed[s])) PROVE RowFollowsLease(n, t)
    <3>1. nodeId'[t] = nodeId[t] /\ lapsed'[t] = lapsed[t]
      BY <1>4, <2>4 DEF TypeOK, ReleaseRow, claim
    <3> QED BY <2>2, <3>1 DEF RowFollowsLease, Claims!Unchanged
  <2> QED BY <2>2, <2>3, <2>4, Untold
<1>5. CASE ControlRecord(n, s)
  <2>1. mem[n].control[s].pc = "record" /\ mem'[n].control[s].pc # "record" /\ mem'[n].start = mem[n].start
    BY <1>m, <1>5 DEF TypeOK, ControlRecord, Control, Update, Memory
  <2>2. ASSUME t = s /\ mem[n].control[s].kind = "delete" PROVE RowFollowsLease(n, t)
    <3>1. nodeId'[s] = NoNode /\ ~lapsed'[s]
      BY <1>5, <2>2 DEF TypeOK, ControlRecord
    <3>2. mem[n].control[s] = [pc |-> "record", kind |-> "delete"]
      BY <1>m, <2>1, <2>2 DEF Memory
    <3>3. mem'[n].control[s] # [pc |-> "record", kind |-> "delete"]
      BY <2>1
    <3> QED BY <2>1, <2>2, <3>1, <3>2, <3>3
            DEF RowFollowsLease, Claims!Remove, Claims!Consumed, Claims!Vacated, Sent
  <2>3. ASSUME ~(t = s /\ mem[n].control[s].kind = "delete") PROVE RowFollowsLease(n, t)
    <3>1. nodeId'[t] = nodeId[t] /\ lapsed'[t] = lapsed[t]
      BY <1>5, <2>3 DEF TypeOK, ControlRecord, claim
    <3> QED BY <2>1, <3>1 DEF RowFollowsLease, Claims!Unchanged
  <2> QED BY <2>1, <2>2, <2>3, Untold
<1>6. CASE ~RequestStart(n, s) /\ ~QueuedStart(n, s) /\ ~ReleaseRow(n, s) /\ ~ControlRecord(n, s)
  <2>g. \A m \in Memory : LetGo(m, s).start = m.start
    BY DEF LetGo, Memory
  <2>1. CASE StartEnter(n, s)
    <3> DEFINE k == [mem[n] EXCEPT !.owned = @ \cup {s}, !.start[s] = "entered"]
    <3>1. k.start[t] = "claimed" => mem[n].start[t] = "claimed"
      BY <1>m DEF Memory
    <3>2. Update(n, k) /\ UNCHANGED <<nodeId, lapsed>>
      BY <2>1 DEF StartEnter, row
    <3> HIDE DEF k
    <3> QED BY <3>1, <3>2, Kept
  <2>2. CASE StartAccept(n, s)
    <3> DEFINE k == [mem[n] EXCEPT !.stopMark = @ \ {s}, !.reconnect[s] = "none", !.start[s] = "hook"]
    <3>1. k.start[t] = "claimed" => mem[n].start[t] = "claimed"
      BY <1>m DEF Memory
    <3>2. Update(n, k) /\ UNCHANGED <<nodeId, lapsed>>
      BY <2>2 DEF StartAccept, row
    <3> HIDE DEF k
    <3> QED BY <3>1, <3>2, Kept
  <2>3. CASE StartRefuse(n, s)
    <3> DEFINE m == [mem[n] EXCEPT !.start[s] = "idle"]
    <3>1. m \in Memory
      BY <1>m, StartUpdates DEF StartPC
    <3>2. m.start[t] = "claimed" => mem[n].start[t] = "claimed"
      BY <1>m DEF Memory
    <3>3. Update(n, LetGo(m, s)) /\ UNCHANGED <<nodeId, lapsed>>
      BY <2>3 DEF StartRefuse, row
    <3> HIDE DEF m
    <3> QED BY <2>g, <3>1, <3>2, <3>3, Kept
  <2>4. CASE StartRegister(n, s)
    <3> DEFINE k == [mem[n] EXCEPT !.reconnect[s] = "dormant", !.engine = @ \cup {s}, !.start[s] = "saving"]
    <3>1. k.start[t] = "claimed" => mem[n].start[t] = "claimed"
      BY <1>m DEF Memory
    <3>2. Update(n, k) /\ UNCHANGED <<nodeId, lapsed>>
      BY <2>4 DEF StartRegister, row
    <3> HIDE DEF k
    <3> QED BY <3>1, <3>2, Kept
  <2>5. CASE StartSaved(n, s)
    <3> DEFINE k == [mem[n] EXCEPT !.start[s] =
                      IF s \in mem[n].engine /\ s \notin mem[n].stopMark THEN "launching" ELSE "guard"]
    <3>1. k.start[t] = "claimed" => mem[n].start[t] = "claimed"
      BY <1>m DEF Memory
    <3>2. Update(n, k) /\ UNCHANGED <<nodeId, lapsed>>
      BY <2>5 DEF StartSaved, claim
    <3> HIDE DEF k
    <3> QED BY <3>1, <3>2, Kept
  <2>6. CASE StartFails(n, s)
    <3> DEFINE k == [mem[n] EXCEPT !.engine = @ \ {s},
                                     !.start[s] = IF s \in mem[n].engine THEN "failing" ELSE "failed"]
    <3>1. k.start[t] = "claimed" => mem[n].start[t] = "claimed"
      BY <1>m DEF Memory
    <3>2. Update(n, k) /\ UNCHANGED <<nodeId, lapsed>>
      BY <2>6 DEF StartFails, row
    <3> HIDE DEF k
    <3> QED BY <3>1, <3>2, Kept
  <2>7. CASE StartFailed(n, s)
    <3> DEFINE m == [mem[n] EXCEPT !.reconnect[s] = "none", !.start[s] = "idle"]
    <3>1. m \in Memory
      BY <1>m, StartUpdates DEF StartPC
    <3>2. m.start[t] = "claimed" => mem[n].start[t] = "claimed"
      BY <1>m DEF Memory
    <3>3. Update(n, LetGo(m, s)) /\ UNCHANGED <<nodeId, lapsed>>
      BY <2>7 DEF StartFailed, claim
    <3> HIDE DEF m
    <3> QED BY <2>g, <3>1, <3>2, <3>3, Kept
  <2>8. CASE StartGuard(n, s)
    <3> DEFINE done == [mem[n] EXCEPT !.start[s] = "idle"]
               down == [done EXCEPT !.engine = @ \ {s}]
    <3>1. done \in Memory
      BY <1>m, StartUpdates DEF StartPC
    <3>2. done.start[t] = "claimed" => mem[n].start[t] = "claimed"
      BY <1>m DEF Memory
    <3>3. PICK k : k \in {LetGo(down, s), down, done} /\ Update(n, k) /\ UNCHANGED <<nodeId, lapsed>>
      BY <2>8 DEF StartGuard, row
    <3>4. down \in Memory /\ down.start = done.start
      <4> HIDE DEF done
      <4>1. down \in Memory
        BY <3>1 DEF Memory
      <4>2. down.start = done.start
        BY <3>1 DEF Memory
      <4> QED BY <4>1, <4>2
    <3> HIDE DEF done, down
    <3>5. k.start = done.start
      BY <2>g, <3>3, <3>4
    <3> QED BY <3>2, <3>3, <3>5, Kept
  <2>c. \A pc \in ControlPC : Control(n, s, pc) \in Memory /\ Control(n, s, pc).start = mem[n].start
    <3>1. ASSUME NEW pc \in ControlPC PROVE Control(n, s, pc) \in Memory
      <4>1. /\ mem[n].control \in [Session -> [pc : ControlPC, kind : Kind]]
            /\ \A c \in [Session -> [pc : ControlPC, kind : Kind]] : [mem[n] EXCEPT !.control = c] \in Memory
        BY <1>m DEF Memory
      <4>2. [mem[n].control EXCEPT ![s].pc = pc] \in [Session -> [pc : ControlPC, kind : Kind]]
        BY <3>1, <4>1
      <4> QED BY <4>1, <4>2 DEF Control
    <3>2. \A pc : Control(n, s, pc).start = mem[n].start
      BY <1>m DEF Control, Memory
    <3> QED BY <3>1, <3>2
  <2>9. ASSUME NEW kind \in Kind, RequestControl(n, s, kind)
        PROVE  RowFollowsLease(n, t) /\ AnswersFollowLease(n, t)
    <3> DEFINE c == [pc |-> IF kind \in {"stop", "delete"} THEN "fence" ELSE "body", kind |-> kind]
               S == IF kind \in {"stop", "delete"} THEN mem[n].stopMark \cup {s} ELSE mem[n].stopMark
               k == [mem[n] EXCEPT !.control[s] = c, !.stopMark = S]
    <3>1. k.start = mem[n].start
      <4> HIDE DEF c, S
      <4> QED BY <1>m DEF Memory
    <3>2. Update(n, k) /\ UNCHANGED <<nodeId, lapsed>>
      BY <2>9 DEF RequestControl, row
    <3> HIDE DEF k
    <3> QED BY <3>1, <3>2, Kept
  <2>10. CASE ControlFence(n, s) \/ ControlUnlink(n, s)
    <3>1. PICK pc \in ControlPC : Update(n, Control(n, s, pc))
      BY <2>10 DEF ControlFence, ControlUnlink, ControlPC
    <3> QED BY <2>c, <2>10, <3>1, Kept DEF ControlFence, ControlUnlink, row, claim
  <2>11. CASE ControlBody(n, s)
    <3>1. PICK pc \in ControlPC :
            Update(n, [Control(n, s, pc) EXCEPT !.stopMark = @ \cup {s}, !.reconnect[s] = "none"])
      BY <2>11 DEF ControlBody, ControlPC
    <3> DEFINE m == Control(n, s, pc)
    <3>2. m \in Memory /\ m.start = mem[n].start
      BY <2>c
    <3> HIDE DEF m
    <3>3. [m EXCEPT !.stopMark = @ \cup {s}, !.reconnect[s] = "none"].start = m.start
      BY <3>2 DEF Memory
    <3>4. UNCHANGED <<nodeId, lapsed>>
      BY <2>11 DEF ControlBody, row
    <3> QED BY <3>1, <3>2, <3>3, <3>4, Kept DEF m
  <2>12. CASE ControlRefuse(n, s)
    <3>1. PICK k : k \in {Control(n, s, "idle"), LetGo(Control(n, s, "idle"), s)} /\ Update(n, k)
      BY <2>12 DEF ControlRefuse
    <3>2. k.start = mem[n].start
      BY <2>g, <2>c, <3>1 DEF ControlPC
    <3> QED BY <2>12, <3>1, <3>2, Kept DEF ControlRefuse, row
  <2>13. CASE ControlTornDown(n, s)
    <3> DEFINE m == Control(n, s, "record")
    <3>1. m \in Memory /\ m.start = mem[n].start
      BY <2>c DEF ControlPC
    <3>2. Update(n, [m EXCEPT !.engine = @ \ {s}]) /\ UNCHANGED <<nodeId, lapsed>>
      BY <2>13 DEF ControlTornDown, row
    <3> HIDE DEF m
    <3>3. [m EXCEPT !.engine = @ \ {s}].start = m.start
      BY <3>1 DEF Memory
    <3> QED BY <3>1, <3>2, <3>3, Kept
  <2>14. CASE ControlSettle(n, s)
    <3> DEFINE m == Control(n, s, "idle")
               gone == [m EXCEPT !.stopMark = @ \ {s}, !.owned = @ \ {s}, !.releasing = @ \cup {s}]
    <3>1. m \in Memory /\ m.start = mem[n].start
      BY <2>c DEF ControlPC
    <3>2. PICK k : k \in {LetGo(m, s), gone} /\ Update(n, k) /\ UNCHANGED <<nodeId, lapsed>>
      BY <2>14 DEF ControlSettle, row
    <3>3. gone.start = m.start
      <4> HIDE DEF m
      <4> QED BY <3>1 DEF Memory
    <3> HIDE DEF m, gone
    <3>4. k.start = mem[n].start
      BY <2>g, <3>1, <3>2, <3>3
    <3> QED BY <3>2, <3>4, Kept
  <2>15. CASE OrphanDown(n, s)
    <3> DEFINE k == [mem[n] EXCEPT !.closing = @ \ {s}, !.engine = @ \ {s}]
    <3>1. k.start[t] = "claimed" => mem[n].start[t] = "claimed"
      BY <1>m DEF Memory
    <3>2. Update(n, k) /\ UNCHANGED <<nodeId, lapsed>>
      BY <2>15 DEF OrphanDown, row
    <3> HIDE DEF k
    <3> QED BY <3>1, <3>2, Kept
  <2>16. CASE EngineReady(n, s)
    <3>1. mem' = mem /\ UNCHANGED <<nodeId, lapsed>>
      BY <2>16 DEF EngineReady, claim
    <3> QED BY <3>1, Untold DEF RowFollowsLease, Claims!Unchanged
  <2>17. CASE EngineErrs(n, s)
    <3> DEFINE k == [mem[n] EXCEPT !.reconnect[s] = "none", !.engine = @ \ {s}]
    <3>1. k.start[t] = "claimed" => mem[n].start[t] = "claimed"
      BY <1>m DEF Memory
    <3>2. Update(n, k) /\ UNCHANGED <<nodeId, lapsed>>
      BY <2>17 DEF EngineErrs, claim
    <3> HIDE DEF k
    <3> QED BY <3>1, <3>2, Kept
  <2>18. ASSUME NEW m \in Memory, Reschedule(n, s, m), m.start = mem[n].start, UNCHANGED <<nodeId, lapsed>>
         PROVE  RowFollowsLease(n, t) /\ AnswersFollowLease(n, t)
    <3>1. PICK k : /\ k \in {m, [m EXCEPT !.reconnect[s] = "armed"],
                             [m EXCEPT !.reconnect[s] = "none", !.engine = @ \ {s}]}
                   /\ Update(n, k)
      BY <2>18 DEF Reschedule
    <3>2. k.start = m.start
      BY <3>1 DEF Memory
    <3> QED BY <2>18, <3>1, <3>2, Kept
  <2>19. CASE EngineDrops(n, s)
    BY <1>m, <2>18, <2>19 DEF EngineDrops, claim
  <2>20. CASE ReconnectFails(n, s)
    <3> DEFINE m == [mem[n] EXCEPT !.attempt[s] = "idle", !.engine = @ \ {s}]
    <3>1. m \in Memory /\ m.start = mem[n].start
      BY <1>m DEF Memory
    <3>2. Reschedule(n, s, m) /\ UNCHANGED <<nodeId, lapsed>>
      BY <2>20 DEF ReconnectFails, claim
    <3> HIDE DEF m
    <3> QED BY <2>18, <3>1, <3>2
  <2>21. CASE ReconnectFires(n, s)
    <3> DEFINE k == [mem[n] EXCEPT !.reconnect[s] = "running", !.attempt[s] = "clearing",
                                     !.engine = @ \ {s}]
    <3>1. k.start[t] = "claimed" => mem[n].start[t] = "claimed"
      BY <1>m DEF Memory
    <3>2. Update(n, k) /\ UNCHANGED <<nodeId, lapsed>>
      BY <2>21 DEF ReconnectFires, row
    <3> HIDE DEF k
    <3> QED BY <3>1, <3>2, Kept
  <2>22. CASE ReconnectLaunches(n, s)
    <3> DEFINE k == [mem[n] EXCEPT !.engine = @ \cup {s}, !.attempt[s] = "launching"]
    <3>1. k.start[t] = "claimed" => mem[n].start[t] = "claimed"
      BY <1>m DEF Memory
    <3>2. Update(n, k) /\ UNCHANGED <<nodeId, lapsed>>
      BY <2>22 DEF ReconnectLaunches, claim
    <3> HIDE DEF k
    <3> QED BY <3>1, <3>2, Kept
  <2>23. CASE ReconnectEnds(n, s)
    <3> DEFINE k == IF Retired(n, s) THEN [mem[n] EXCEPT !.attempt[s] = "idle", !.engine = @ \ {s}]
               ELSE [mem[n] EXCEPT !.attempt[s] = "idle"]
    <3>1. k.start[t] = "claimed" => mem[n].start[t] = "claimed"
      BY <1>m DEF Memory
    <3>2. Update(n, k) /\ UNCHANGED <<nodeId, lapsed>>
      BY <2>23 DEF ReconnectEnds, row
    <3> HIDE DEF k
    <3> QED BY <3>1, <3>2, Kept
  <2> QED BY <1>6, <2>1, <2>2, <2>3, <2>4, <2>5, <2>6, <2>7, <2>8, <2>9, <2>10, <2>11, <2>12, <2>13, <2>14, <2>15, <2>16, <2>17, <2>19, <2>20, <2>21, <2>22, <2>23
          DEF SessionStep, StartStep, ControlStep, ReconnectStep
<1> QED BY <1>2, <1>3, <1>4, <1>5, <1>6

\* Every step of the cluster is a step of the lease: nobody prolongs, gives up or
\* takes a claim that another node holds on an unexpired lease, and a node that is
\* told it owns a session owns it.
THEOREM LeaseImplemented == Spec => LeaseRefined
<1>1. Init => Claims!Init
  <2> SUFFICES ASSUME Init PROVE Claims!Init
    OBVIOUS
  <2>1. ASSUME NEW n \in Node PROVE Sent(n) = Claims!Nothing /\ Granted(n) = {}
    <3>1. mem[n] = FreshMemory /\ proc[n] = "down"
      BY DEF Init
    <3>2. /\ mem[n].renewal.live = {} /\ mem[n].releasing = {} /\ mem[n].owned = {}
          /\ \A s \in Session : mem[n].control[s].pc = "idle" /\ mem[n].start[s] = "idle"
      BY <3>1 DEF FreshMemory, NoRenewal, NoControl
    <3>3. \A s \in Session : mem[n].control[s] # [pc |-> "record", kind |-> "delete"]
      BY <3>2
    <3> QED BY <3>1, <3>2, <3>3 DEF Sent, Granted, Claims!Nothing
  <2> QED BY <2>1 DEF Init, Claims!Init
<1>2. TypeOK /\ TypeOK' /\ [Next]_vars => [Claims!Next]_(Claims!leaseVars)
  <2> SUFFICES ASSUME TypeOK, TypeOK', [Next]_vars
               PROVE  Claims!Next \/ UNCHANGED Claims!leaseVars
    OBVIOUS
  <2>1. CASE UNCHANGED vars
    BY <2>1 DEF vars, Claims!leaseVars, Sent, Granted
  <2>2. CASE Next
    <3>1. Claims!LeaseTypeOK'
      <4>1. (\A n \in Node : Sent(n) \in Claims!Statements /\ Granted(n) \in SUBSET Session)'
        BY SentTypes, PTL
      <4> QED BY <4>1 DEF TypeOK, Claims!LeaseTypeOK
    <3>2. ASSUME NEW s \in Session, Lapse(s), NEW t \in Session
          PROVE  /\ Claims!Unchanged(t) \/ Claims!Expire(t)
                 /\ \A n \in Node : AnswersFollowLease(n, t)
      BY <3>2, Untold DEF Lapse, TypeOK, Claims!Unchanged, Claims!Expire
    <3>3. ASSUME NEW n \in Node, NodeStep(n) \/ \E s \in Session : SessionStep(n, s), NEW t \in Session
          PROVE  /\ RowFollowsLease(n, t)
                 /\ \A m \in Node : AnswersFollowLease(m, t)
      <4>1. RowFollowsLease(n, t) /\ AnswersFollowLease(n, t)
        BY <3>3, NodeFollowsLease, SessionFollowsLease
      <4>2. mem' = [mem EXCEPT ![n] = mem'[n]]
        <5>1. CASE NodeStep(n)
          BY <5>1 DEF TypeOK, NodeStep, RenewStep, Boot, Bootstrap, Listen, Sweep, RenewBegin, RenewUpdate,
                      RenewSelect, RenewConclude, RenewFail, Crash, Shutdown, ShutdownRelease, Exit, Down, Update
        <5>2. ASSUME NEW s \in Session, SessionStep(n, s) PROVE mem' = [mem EXCEPT ![n] = mem'[n]]
          <6>1. CASE StartStep(n, s) \/ StartFails(n, s) \/ RequestStart(n, s) \/ QueuedStart(n, s) \/ ReleaseRow(n, s)
            BY <6>1 DEF TypeOK, StartStep, RequestStart, QueuedStart, ClaimRow, StartEnter, StartAccept,
                 StartRefuse, StartRegister, StartSaved, StartFails, StartFailed, StartGuard, ReleaseRow, Update
          <6>2. CASE ControlStep(n, s)
            BY <6>2 DEF TypeOK, ControlStep, ControlFence, ControlBody, ControlRefuse,
                        ControlTornDown, ControlRecord, ControlUnlink, ControlSettle, Update
          <6>5. ASSUME NEW kind \in Kind, RequestControl(n, s, kind) PROVE mem' = [mem EXCEPT ![n] = mem'[n]]
            <7>1. \E m : mem' = [mem EXCEPT ![n] = m]
              BY <6>5 DEF RequestControl, Update
            <7> QED BY <7>1 DEF TypeOK, Update
          <6>3. CASE OrphanDown(n, s) \/ EngineReady(n, s) \/ EngineDrops(n, s) \/ EngineErrs(n, s)
            BY <6>3 DEF TypeOK, OrphanDown, EngineReady, EngineDrops, EngineErrs, Reschedule, Update
          <6>4. CASE ReconnectStep(n, s) \/ ReconnectFails(n, s)
            BY <6>4 DEF TypeOK, ReconnectStep, ReconnectFires, ReconnectLaunches, ReconnectEnds,
                  ReconnectFails, Reschedule, Update
          <6> QED BY <5>2, <6>1, <6>2, <6>3, <6>4, <6>5 DEF SessionStep
        <5> QED BY <3>3, <5>1, <5>2
      <4> QED BY <4>1, <4>2, OthersUntold
    <3>4. ASSUME NEW t \in Session
          PROVE  /\ \/ Claims!Unchanged(t) \/ Claims!Expire(t)
                    \/ \E n \in Node : RowFollowsLease(n, t)
                 /\ \A m \in Node : AnswersFollowLease(m, t)
      BY <2>2, <3>2, <3>3 DEF Next, UnrenewedLapse, HealthyLapse
    <3> QED BY <3>1, <3>4 DEF Claims!Next, RowFollowsLease, AnswersFollowLease
  <2> QED BY <2>1, <2>2
<1> QED BY <1>1, <1>2, TypeCorrect, PTL DEF Spec, LeaseRefined, Claims!Spec

-----------------------------------------------------------------------------
(***************************************************************************)
(* Why at most one process runs a session's engine, for every number of    *)
(* processes and sessions, every cap and every number of faults.           *)
(*                                                                         *)
(* The theorem is about a cluster left to itself: processes crash, boot,   *)
(* restart their sessions, miss heartbeats, lose and restore connections   *)
(* and adopt each other's sessions, but nobody sends a request, no launch  *)
(* fails and no healthy claim lapses.                                      *)
(***************************************************************************)

LeftAlone == Requests = {} /\ Faults \subseteq {"crash", "query", "drop"}

\* What Coherent and Backed look at is the same in two memories.
Same(m, k, s) ==
    /\ s \in m.engine <=> s \in k.engine
    /\ s \in m.owned <=> s \in k.owned
    /\ s \in m.stopMark <=> s \in k.stopMark
    /\ s \in m.closing <=> s \in k.closing
    /\ s \in m.releasing <=> s \in k.releasing
    /\ m.start[s] = k.start[s] /\ m.attempt[s] = k.attempt[s]
    /\ m.reconnect[s] = k.reconnect[s] /\ m.queued[s] = k.queued[s]
    /\ m.control[s] = k.control[s] /\ m.renewal = k.renewal

LEMMA SameCoherent ==
    ASSUME NEW m, NEW k, NEW s, Same(m, k, s), Coherent(m, s)
    PROVE  Coherent(k, s)
BY DEF Same, Coherent, Engaged, Resting

LEMMA SameEngaged ==
    ASSUME NEW m, NEW k, NEW s, Same(m, k, s)
    PROVE  Engaged(m, s) <=> Engaged(k, s)
BY DEF Same, Engaged

\* A step of one process on its memory, the row left alone: the new memory must be
\* coherent, and may have engaged, released or listed nothing that the old had not.
LEMMA MemoryStep ==
    ASSUME TypeOK, SingleEngineInv, NEW n \in Node, NEW k \in Memory,
           Update(n, k), UNCHANGED <<nodeId, lapsed>>,
           \A s \in Session : status'[s] # "deleted",
           proc'[n] \in {"starting", "running"},
           \A j \in Node \ {n} : proc'[j] = proc[j],
           \A s \in Session :
              /\ Coherent(k, s)
              /\ Engaged(k, s) \/ s \in k.releasing =>
                    Engaged(mem[n], s) \/ s \in mem[n].releasing
              /\ ~Resting(k, s) => ~lapsed[s]
    PROVE  SingleEngineInv'
<1>1. mem'[n] = k /\ \A j \in Node \ {n} : mem'[j] = mem[j]
  BY DEF Update, TypeOK
<1>2. \A s \in Session : Exists(s)'
  BY DEF Exists
<1>3. ASSUME NEW j \in Node
      PROVE  /\ proc'[j] \in {"down", "booting", "starting", "running"}
             /\ proc'[j] \in {"down", "booting"} => mem'[j] = FreshMemory
  BY <1>1 DEF SingleEngineInv
<1>4. ASSUME NEW j \in Node, NEW s \in Session PROVE Coherent(mem'[j], s) /\ Backed(j, s)'
  <2>1. CASE j = n
    BY <1>1, <2>1 DEF SingleEngineInv, Backed, Engaged, Resting
  <2>2. CASE j # n
    <3>1. Coherent(mem[j], s) /\ Backed(j, s)
      BY DEF SingleEngineInv
    <3>2. mem'[j] = mem[j]
      BY <1>1, <2>2
    <3> QED BY <3>1, <3>2 DEF Backed, Engaged, Resting
  <2> QED BY <2>1, <2>2
<1> QED BY <1>2, <1>3, <1>4 DEF SingleEngineInv

\* The same for a step that touches the memory of one session only.
LEMMA SessionMemoryStep ==
    ASSUME TypeOK, SingleEngineInv, NEW n \in Node, NEW s \in Session, NEW k \in Memory,
           Alive(n), Update(n, k), UNCHANGED <<nodeId, lapsed, proc>>,
           \A t \in Session : status'[t] # "deleted",
           \A t \in Session \ {s} : Same(mem[n], k, t),
           k.renewal = mem[n].renewal,
           Coherent(k, s),
           Engaged(k, s) \/ s \in k.releasing => Engaged(mem[n], s) \/ s \in mem[n].releasing
    PROVE  SingleEngineInv'
<1>1. proc[n] \in {"starting", "running"}
  BY DEF SingleEngineInv, Alive
<1>2. ASSUME NEW t \in Session
      PROVE  /\ Coherent(k, t)
             /\ Engaged(k, t) \/ t \in k.releasing =>
                   Engaged(mem[n], t) \/ t \in mem[n].releasing
             /\ ~Resting(k, t) => ~lapsed[t]
  <2>1. Coherent(mem[n], t) /\ Backed(n, t)
    BY DEF SingleEngineInv
  <2>2. ~Resting(k, t) => ~lapsed[t]
    BY <2>1 DEF Backed, Resting
  <2>3. CASE t # s
    BY <2>1, <2>2, <2>3, SameCoherent, SameEngaged DEF Same
  <2> QED BY <2>2, <2>3
<1> QED BY <1>1, <1>2, MemoryStep

LEMMA EnterUpheld ==
    ASSUME TypeOK, SingleEngineInv, NEW n \in Node, NEW s \in Session, StartEnter(n, s)
    PROVE  SingleEngineInv'
<1> DEFINE k == [mem[n] EXCEPT !.owned = @ \cup {s}, !.start[s] = "entered"]
<1>1. mem[n] \in Memory /\ Coherent(mem[n], s) /\ \A t \in Session : status[t] # "deleted"
  BY DEF TypeOK, SingleEngineInv, Exists
<1>2. k \in Memory
  BY <1>1, StartUpdates
<1>3. k.renewal = mem[n].renewal /\ \A t \in Session \ {s} : Same(mem[n], k, t)
  BY <1>1 DEF Memory, Same
<1>4. Coherent(k, s)
  BY <1>1 DEF StartEnter, Memory, Coherent, Engaged, Resting
<1>5. Engaged(k, s) \/ s \in k.releasing => Engaged(mem[n], s) \/ s \in mem[n].releasing
  BY <1>1 DEF StartEnter, Memory, Coherent, Engaged
<1>6. Alive(n) /\ Update(n, k) /\ UNCHANGED <<nodeId, lapsed, proc, status>>
  BY DEF StartEnter, row
<1> HIDE DEF k
<1> QED BY <1>1, <1>2, <1>3, <1>4, <1>5, <1>6, SessionMemoryStep

LEMMA AcceptUpheld ==
    ASSUME TypeOK, SingleEngineInv, NEW n \in Node, NEW s \in Session, StartAccept(n, s)
    PROVE  SingleEngineInv'
<1> DEFINE k == [mem[n] EXCEPT !.stopMark = @ \ {s}, !.reconnect[s] = "none", !.start[s] = "hook"]
<1>1. mem[n] \in Memory /\ Coherent(mem[n], s) /\ \A t \in Session : status[t] # "deleted"
  BY DEF TypeOK, SingleEngineInv, Exists
<1>2. k \in Memory
  BY <1>1, StartUpdates
<1>3. k.renewal = mem[n].renewal /\ \A t \in Session \ {s} : Same(mem[n], k, t)
  BY <1>1 DEF Memory, Same
<1>4. Coherent(k, s)
  BY <1>1 DEF StartAccept, Memory, Coherent, Engaged, Resting
<1>5. Engaged(k, s) \/ s \in k.releasing => Engaged(mem[n], s) \/ s \in mem[n].releasing
  BY <1>1 DEF StartAccept, Memory, Coherent, Engaged
<1>6. /\ Alive(n) /\ Update(n, k) /\ UNCHANGED <<nodeId, lapsed, proc>>
      /\ \A t \in Session : status'[t] # "deleted"
  BY <1>1 DEF StartAccept, row
<1> HIDE DEF k
<1> QED BY <1>1, <1>2, <1>3, <1>4, <1>5, <1>6, SessionMemoryStep

LEMMA RegisterUpheld ==
    ASSUME TypeOK, SingleEngineInv, NEW n \in Node, NEW s \in Session, StartRegister(n, s)
    PROVE  SingleEngineInv'
<1> DEFINE k == [mem[n] EXCEPT !.reconnect[s] = "dormant", !.engine = @ \cup {s},
                                 !.start[s] = "saving"]
<1>1. mem[n] \in Memory /\ Coherent(mem[n], s) /\ \A t \in Session : status[t] # "deleted"
  BY DEF TypeOK, SingleEngineInv, Exists
<1>2. k \in Memory
  BY <1>1, StartUpdates
<1>3. k.renewal = mem[n].renewal /\ \A t \in Session \ {s} : Same(mem[n], k, t)
  BY <1>1 DEF Memory, Same
<1>4. Coherent(k, s)
  BY <1>1 DEF StartRegister, Memory, Coherent, Engaged, Resting
<1>5. Engaged(k, s) \/ s \in k.releasing => Engaged(mem[n], s) \/ s \in mem[n].releasing
  BY <1>1 DEF StartRegister, Memory, Coherent, Engaged
<1>6. /\ Alive(n) /\ Update(n, k) /\ UNCHANGED <<nodeId, lapsed, proc>>
      /\ \A t \in Session : status'[t] # "deleted"
  BY <1>1 DEF StartRegister, row
<1> HIDE DEF k
<1> QED BY <1>1, <1>2, <1>3, <1>4, <1>5, <1>6, SessionMemoryStep

LEMMA SavedUpheld ==
    ASSUME TypeOK, SingleEngineInv, NEW n \in Node, NEW s \in Session, StartSaved(n, s)
    PROVE  SingleEngineInv'
<1> DEFINE k == [mem[n] EXCEPT !.start[s] = "launching"]
<1>1. mem[n] \in Memory /\ Coherent(mem[n], s) /\ \A t \in Session : status[t] # "deleted"
  BY DEF TypeOK, SingleEngineInv, Exists
<1>2. k \in Memory
  BY <1>1, StartUpdates DEF StartPC
<1>3. k.renewal = mem[n].renewal /\ \A t \in Session \ {s} : Same(mem[n], k, t)
  BY <1>1 DEF Memory, Same
<1>4. Coherent(k, s)
  BY <1>1 DEF StartSaved, Memory, Coherent, Engaged, Resting
<1>5. Engaged(k, s) \/ s \in k.releasing => Engaged(mem[n], s) \/ s \in mem[n].releasing
  BY <1>1 DEF StartSaved, Memory, Coherent, Engaged
<1>6. /\ Alive(n) /\ Update(n, k) /\ UNCHANGED <<nodeId, lapsed, proc>>
      /\ \A t \in Session : status'[t] # "deleted"
  BY <1>1 DEF StartSaved, claim, SetStatus, TypeOK, Status, Coherent, Engaged
<1> HIDE DEF k
<1> QED BY <1>1, <1>2, <1>3, <1>4, <1>5, <1>6, SessionMemoryStep

LEMMA GuardUpheld ==
    ASSUME TypeOK, SingleEngineInv, NEW n \in Node, NEW s \in Session, StartGuard(n, s)
    PROVE  SingleEngineInv'
<1> DEFINE k == [mem[n] EXCEPT !.start[s] = "idle"]
<1>1. mem[n] \in Memory /\ Coherent(mem[n], s) /\ \A t \in Session : status[t] # "deleted"
  BY DEF TypeOK, SingleEngineInv, Exists
<1>2. k \in Memory
  BY <1>1, StartUpdates DEF StartPC
<1>3. k.renewal = mem[n].renewal /\ \A t \in Session \ {s} : Same(mem[n], k, t)
  BY <1>1 DEF Memory, Same
<1>4. Coherent(k, s)
  BY <1>1 DEF StartGuard, Memory, Coherent, Engaged, Resting
<1>5. Engaged(k, s) \/ s \in k.releasing => Engaged(mem[n], s) \/ s \in mem[n].releasing
  BY <1>1 DEF StartGuard, Memory, Coherent, Engaged
<1>6. /\ Alive(n) /\ Update(n, k) /\ UNCHANGED <<nodeId, lapsed, proc>>
      /\ \A t \in Session : status'[t] # "deleted"
  BY <1>1 DEF StartGuard, row, Exists, Coherent, Engaged
<1> HIDE DEF k
<1> QED BY <1>1, <1>2, <1>3, <1>4, <1>5, <1>6, SessionMemoryStep

LEMMA ReconnectFiresUpheld ==
    ASSUME TypeOK, SingleEngineInv, NEW n \in Node, NEW s \in Session, ReconnectFires(n, s)
    PROVE  SingleEngineInv'
<1> DEFINE k == [mem[n] EXCEPT !.reconnect[s] = "running", !.attempt[s] = "clearing",
                                 !.engine = @ \ {s}]
<1>1. mem[n] \in Memory /\ Coherent(mem[n], s) /\ \A t \in Session : status[t] # "deleted"
  BY DEF TypeOK, SingleEngineInv, Exists
<1>2. k \in Memory
  BY <1>1, ReconnectUpdates
<1>3. k.renewal = mem[n].renewal /\ \A t \in Session \ {s} : Same(mem[n], k, t)
  BY <1>1 DEF Memory, Same
<1>4. Coherent(k, s)
  BY <1>1 DEF ReconnectFires, Memory, Coherent, Engaged, Resting
<1>5. Engaged(k, s) \/ s \in k.releasing => Engaged(mem[n], s) \/ s \in mem[n].releasing
  BY <1>1 DEF ReconnectFires, Memory, Coherent, Engaged
<1>6. /\ Alive(n) /\ Update(n, k) /\ UNCHANGED <<nodeId, lapsed, proc>>
      /\ \A t \in Session : status'[t] # "deleted"
  BY <1>1 DEF ReconnectFires, row
<1> HIDE DEF k
<1> QED BY <1>1, <1>2, <1>3, <1>4, <1>5, <1>6, SessionMemoryStep

LEMMA ReconnectLaunchesUpheld ==
    ASSUME TypeOK, SingleEngineInv, NEW n \in Node, NEW s \in Session, ReconnectLaunches(n, s)
    PROVE  SingleEngineInv'
<1> DEFINE k == [mem[n] EXCEPT !.engine = @ \cup {s}, !.attempt[s] = "launching"]
<1>1. mem[n] \in Memory /\ Coherent(mem[n], s) /\ \A t \in Session : status[t] # "deleted"
  BY DEF TypeOK, SingleEngineInv, Exists
<1>2. k \in Memory
  BY <1>1, ReconnectUpdates
<1>3. k.renewal = mem[n].renewal /\ \A t \in Session \ {s} : Same(mem[n], k, t)
  BY <1>1 DEF Memory, Same
<1>4. Coherent(k, s)
  BY <1>1 DEF ReconnectLaunches, Memory, Coherent, Engaged, Resting
<1>5. Engaged(k, s) \/ s \in k.releasing => Engaged(mem[n], s) \/ s \in mem[n].releasing
  BY <1>1 DEF ReconnectLaunches, Memory, Coherent, Engaged
<1>6. /\ Alive(n) /\ Update(n, k) /\ UNCHANGED <<nodeId, lapsed, proc>>
      /\ \A t \in Session : status'[t] # "deleted"
  BY <1>1 DEF ReconnectLaunches, claim, SetStatus, TypeOK, Status
<1> HIDE DEF k
<1> QED BY <1>1, <1>2, <1>3, <1>4, <1>5, <1>6, SessionMemoryStep

LEMMA ReconnectEndsUpheld ==
    ASSUME TypeOK, SingleEngineInv, NEW n \in Node, NEW s \in Session, ReconnectEnds(n, s)
    PROVE  SingleEngineInv'
<1> DEFINE k == [mem[n] EXCEPT !.attempt[s] = "idle"]
<1>1. mem[n] \in Memory /\ Coherent(mem[n], s) /\ \A t \in Session : status[t] # "deleted"
  BY DEF TypeOK, SingleEngineInv, Exists
<1>2. k \in Memory
  BY <1>1, ReconnectUpdates
<1>3. k.renewal = mem[n].renewal /\ \A t \in Session \ {s} : Same(mem[n], k, t)
  BY <1>1 DEF Memory, Same
<1>4. Coherent(k, s)
  BY <1>1 DEF ReconnectEnds, Memory, Coherent, Engaged, Resting
<1>5. Engaged(k, s) \/ s \in k.releasing => Engaged(mem[n], s) \/ s \in mem[n].releasing
  BY <1>1 DEF ReconnectEnds, Memory, Coherent, Engaged
<1>6. /\ Alive(n) /\ Update(n, k) /\ UNCHANGED <<nodeId, lapsed, proc>>
      /\ \A t \in Session : status'[t] # "deleted"
  BY <1>1 DEF ReconnectEnds, row, Retired, Exists, Coherent, Engaged
<1> HIDE DEF k
<1> QED BY <1>1, <1>2, <1>3, <1>4, <1>5, <1>6, SessionMemoryStep

LEMMA RefuseUpheld ==
    ASSUME TypeOK, SingleEngineInv, NEW n \in Node, NEW s \in Session, StartRefuse(n, s)
    PROVE  SingleEngineInv'
<1> DEFINE k == [mem[n] EXCEPT !.start[s] = "idle", !.owned = @ \ {s}, !.releasing = @ \cup {s}]
<1>1. mem[n] \in Memory /\ Coherent(mem[n], s) /\ \A t \in Session : status[t] # "deleted"
  BY DEF TypeOK, SingleEngineInv, Exists
<1>2. k \in Memory
  <2>1. [mem[n] EXCEPT !.start[s] = "idle"] \in Memory
    BY <1>1, StartUpdates DEF StartPC
  <2>2. ASSUME NEW h \in Memory PROVE [h EXCEPT !.owned = @ \ {s}, !.releasing = @ \cup {s}] \in Memory
    <3>1. h.owned \ {s} \in SUBSET Session /\ h.releasing \cup {s} \in SUBSET Session
      BY DEF Memory
    <3>2. \A A, B \in SUBSET Session : [h EXCEPT !.owned = A, !.releasing = B] \in Memory
      BY DEF Memory
    <3> QED BY <3>1, <3>2
  <2>3. [[mem[n] EXCEPT !.start[s] = "idle"]
            EXCEPT !.owned = @ \ {s}, !.releasing = @ \cup {s}] \in Memory
    BY <2>1, <2>2
  <2> QED BY <2>3
<1>3. k.renewal = mem[n].renewal /\ \A t \in Session \ {s} : Same(mem[n], k, t)
  BY <1>1 DEF Memory, Same
<1>4. Coherent(k, s)
  BY <1>1 DEF StartRefuse, Memory, Coherent, Engaged, Resting
<1>5. Engaged(k, s) \/ s \in k.releasing => Engaged(mem[n], s) \/ s \in mem[n].releasing
  BY <1>1 DEF StartRefuse, Memory, Coherent, Engaged
<1>6. /\ Alive(n) /\ Update(n, k) /\ UNCHANGED <<nodeId, lapsed, proc>>
      /\ \A t \in Session : status'[t] # "deleted"
  BY <1>1 DEF StartRefuse, row, LetGo, ActiveIn, Memory, Coherent, Engaged
<1> HIDE DEF k
<1> QED BY <1>1, <1>2, <1>3, <1>4, <1>5, <1>6, SessionMemoryStep

LEMMA DropsUpheld ==
    ASSUME TypeOK, SingleEngineInv, LeftAlone,
           NEW n \in Node, NEW s \in Session, EngineDrops(n, s)
    PROVE  SingleEngineInv'
<1>1. mem[n] \in Memory /\ Coherent(mem[n], s) /\ \A t \in Session : status[t] # "deleted"
  BY DEF TypeOK, SingleEngineInv, Exists
<1>2. PICK k \in {mem[n], [mem[n] EXCEPT !.reconnect[s] = "armed"]} : Update(n, k)
  BY DEF EngineDrops, Reschedule, LeftAlone
<1>3. k \in Memory
  BY <1>1, ReconnectUpdates
<1>4. k.renewal = mem[n].renewal /\ \A t \in Session \ {s} : Same(mem[n], k, t)
  BY <1>1 DEF Memory, Same
<1>5. Coherent(k, s)
  <2>1. s \in mem[n].engine /\ mem[n].start[s] # "saving"
    BY DEF EngineDrops, Launched
  <2>2. CASE k = mem[n]
    BY <1>1, <2>2
  <2>3. CASE k = [mem[n] EXCEPT !.reconnect[s] = "armed"]
    BY <1>1, <2>1, <2>3 DEF Memory, Coherent, Engaged, Resting
  <2> QED BY <1>2, <2>2, <2>3
<1>6. Engaged(k, s) \/ s \in k.releasing => Engaged(mem[n], s) \/ s \in mem[n].releasing
  BY <1>1 DEF EngineDrops, Launched, Memory, Coherent, Engaged
<1>7. /\ Alive(n) /\ UNCHANGED <<nodeId, lapsed, proc>>
      /\ \A t \in Session : status'[t] # "deleted"
  BY <1>1 DEF EngineDrops, Launched, Reschedule, LeftAlone, SetStatus, TypeOK, claim
<1> QED BY <1>1, <1>2, <1>3, <1>4, <1>5, <1>6, <1>7, SessionMemoryStep

LEMMA ReadyUpheld ==
    ASSUME TypeOK, SingleEngineInv, NEW n \in Node, NEW s \in Session, EngineReady(n, s)
    PROVE  SingleEngineInv'
<1>1. UNCHANGED <<nodeId, lapsed, proc, mem>> /\ \A t \in Session : Exists(t)'
  BY DEF EngineReady, SetStatus, SingleEngineInv, Exists, TypeOK, claim
<1> QED BY <1>1 DEF SingleEngineInv, Backed

\* A step that changes the row of s: no other process may have anything of s.
LEMMA RowStep ==
    ASSUME TypeOK, SingleEngineInv, NEW n \in Node, NEW s \in Session, NEW k \in Memory,
           Alive(n), Update(n, k), UNCHANGED <<status, proc>>,
           \A t \in Session \ {s} : /\ Same(mem[n], k, t)
                                    /\ nodeId'[t] = nodeId[t] /\ lapsed'[t] = lapsed[t],
           k.renewal = mem[n].renewal,
           ~lapsed'[s],
           \A j \in Node \ {n} : ~Engaged(mem[j], s) /\ s \notin mem[j].releasing,
           Coherent(k, s),
           Engaged(k, s) \/ s \in k.releasing => nodeId'[s] = n
    PROVE  SingleEngineInv'
<1>1. mem'[n] = k /\ \A j \in Node \ {n} : mem'[j] = mem[j]
  BY DEF Update, TypeOK
<1>2. proc[n] \in {"starting", "running"}
  BY DEF SingleEngineInv, Alive
<1>3. ASSUME NEW j \in Node PROVE proc[j] \in {"down", "booting"} => mem'[j] = FreshMemory
  BY <1>1, <1>2 DEF SingleEngineInv
<1>4. ASSUME NEW j \in Node, NEW t \in Session PROVE Coherent(mem'[j], t) /\ Backed(j, t)'
  <2>1. Coherent(mem[j], t) /\ Backed(j, t)
    BY DEF SingleEngineInv
  <2>2. CASE j = n /\ t = s
    BY <1>1, <2>2 DEF Backed
  <2>3. CASE j = n /\ t # s
    <3>1. Coherent(k, t) /\ (Engaged(k, t) <=> Engaged(mem[n], t))
      BY <2>1, <2>3, SameCoherent, SameEngaged
    <3> QED BY <1>1, <2>1, <2>3, <3>1 DEF Backed, Resting, Same
  <2>4. CASE j # n /\ t = s
    BY <1>1, <2>1, <2>4 DEF Backed
  <2>5. CASE j # n /\ t # s
    BY <1>1, <2>1, <2>5 DEF Backed
  <2> QED BY <2>2, <2>3, <2>4, <2>5
<1> QED BY <1>3, <1>4 DEF SingleEngineInv, Exists

\* What is claimable for n, or released by it, is not of another process.
LEMMA Others ==
    ASSUME SingleEngineInv, NEW n \in Node, NEW s \in Session,
           Claimable(n, s) \/ s \in mem[n].releasing, NEW j \in Node \ {n}
    PROVE  ~Engaged(mem[j], s) /\ s \notin mem[j].releasing
BY OwnershipAssumption DEF SingleEngineInv, Backed, Claimable

LEMMA QueuedUpheld ==
    ASSUME TypeOK, SingleEngineInv, NEW n \in Node, NEW s \in Session, QueuedStart(n, s)
    PROVE  SingleEngineInv'
<1> DEFINE m == [mem[n] EXCEPT !.queued[s] = "no"]
           k == [m EXCEPT !.start[s] = "claimed"]
<1>1. mem[n] \in Memory /\ Coherent(mem[n], s) /\ \A t \in Session : status[t] # "deleted"
  BY DEF TypeOK, SingleEngineInv, Exists
<1>2. m \in Memory /\ k \in Memory
  BY <1>1, QueueUpdates, StartUpdates DEF StartPC
<1>3. /\ m.renewal = mem[n].renewal /\ \A t \in Session \ {s} : Same(mem[n], m, t)
      /\ k.renewal = mem[n].renewal /\ \A t \in Session \ {s} : Same(mem[n], k, t)
  BY <1>1 DEF Memory, Same
<1>4. mem[n].queued[s] # "no" /\ Alive(n) /\ ClaimRow(n, s, m) /\ UNCHANGED <<proc, status>>
  BY DEF QueuedStart, ClaimRow, info
<1>5. ~Engaged(mem[n], s) /\ s \notin mem[n].releasing
  BY <1>1, <1>4 DEF Coherent
<1>6. CASE Claimable(n, s)
  <2>1. Coherent(k, s)
    BY <1>1, <1>4, <1>5 DEF Memory, Coherent, Engaged, Resting
  <2>2. /\ Update(n, k) /\ nodeId'[s] = n /\ ~lapsed'[s]
        /\ \A t \in Session \ {s} : nodeId'[t] = nodeId[t] /\ lapsed'[t] = lapsed[t]
    BY <1>1, <1>4, <1>6 DEF ClaimRow, Exists, TypeOK
  <2> HIDE DEF m, k
  <2> QED BY <1>2, <1>3, <1>4, <1>6, <2>1, <2>2, Others, RowStep
<1>7. CASE ~Claimable(n, s)
  <2>1. Coherent(m, s)
    BY <1>1, <1>4, <1>5 DEF Memory, Coherent, Engaged, Resting
  <2>2. ~Engaged(m, s) /\ s \notin m.releasing
    BY <1>1, <1>5 DEF Memory, Engaged
  <2>3. Update(n, m) /\ UNCHANGED <<nodeId, lapsed>>
    BY <1>4, <1>7 DEF ClaimRow, claim
  <2> HIDE DEF m, k
  <2> QED BY <1>1, <1>2, <1>3, <1>4, <2>1, <2>2, <2>3, SessionMemoryStep
<1> QED BY <1>6, <1>7

LEMMA ReleaseUpheld ==
    ASSUME TypeOK, SingleEngineInv, NEW n \in Node, NEW s \in Session, ReleaseRow(n, s)
    PROVE  SingleEngineInv'
<1> DEFINE k == [mem[n] EXCEPT !.releasing = @ \ {s}]
<1>1. mem[n] \in Memory /\ Coherent(mem[n], s) /\ \A t \in Session : status[t] # "deleted"
  BY DEF TypeOK, SingleEngineInv, Exists
<1>2. k \in Memory
  BY <1>1, StartUpdates
<1>3. k.renewal = mem[n].renewal /\ \A t \in Session \ {s} : Same(mem[n], k, t)
  BY <1>1 DEF Memory, Same
<1>4. s \in mem[n].releasing /\ nodeId[s] = n
  BY DEF ReleaseRow, SingleEngineInv, Backed
<1>5. Coherent(k, s) /\ ~Engaged(k, s) /\ s \notin k.releasing
  BY <1>1, <1>4 DEF Memory, Coherent, Engaged, Resting
<1>6. /\ Alive(n) /\ Update(n, k) /\ ~lapsed'[s] /\ UNCHANGED <<status, proc>>
      /\ \A t \in Session \ {s} : nodeId'[t] = nodeId[t] /\ lapsed'[t] = lapsed[t]
  BY <1>1, <1>4 DEF ReleaseRow, Exists, TypeOK, info
<1> HIDE DEF k
<1> QED BY <1>2, <1>3, <1>4, <1>5, <1>6, Others, RowStep

-----------------------------------------------------------------------------
\* The steps of a process that are not about one session.

LEMMA FreshCoherent ==
    ASSUME NEW s \in Session
    PROVE  Coherent(FreshMemory, s) /\ ~Engaged(FreshMemory, s)
           /\ s \notin FreshMemory.releasing /\ Resting(FreshMemory, s)
BY DEF FreshMemory, Coherent, Engaged, Resting, NoControl, NoRenewal

LEMMA BootUpheld ==
    ASSUME TypeOK, SingleEngineInv, NEW n \in Node, Boot(n) \/ Listen(n)
    PROVE  SingleEngineInv'
<1>1. /\ UNCHANGED <<nodeId, lapsed, mem>>
      /\ \A j \in Node : proc'[j] # proc[j] =>
            \/ proc[j] = "down" /\ proc'[j] = "booting"
            \/ proc[j] = "starting" /\ proc'[j] = "running"
      /\ \A s \in Session : Exists(s)'
  BY DEF Boot, Listen, claim, row, TypeOK, SingleEngineInv, Exists
<1>2. \A j \in Node : /\ proc'[j] \in {"down", "booting", "starting", "running"}
                      /\ proc'[j] \in {"down", "booting"} => mem'[j] = FreshMemory
  BY <1>1 DEF SingleEngineInv
<1> QED BY <1>1, <1>2 DEF SingleEngineInv, Backed

LEMMA BootstrapUpheld ==
    ASSUME TypeOK, SingleEngineInv, NEW n \in Node, Bootstrap(n)
    PROVE  SingleEngineInv'
<1> DEFINE S == {s \in Session : linked[s] /\ status[s] = "disconnected" /\ Claimable(n, s)}
           k == [FreshMemory EXCEPT !.queued = [s \in Session |-> IF s \in S THEN "boot" ELSE "no"]]
<1>1. mem[n] = FreshMemory /\ proc[n] = "booting" /\ \A s \in Session : status[s] # "deleted"
  BY DEF Bootstrap, SingleEngineInv, Exists
<1>2. k \in Memory
  <2>1. S \in SUBSET Session
    OBVIOUS
  <2> HIDE DEF S
  <2> QED BY <2>1, FreshType, QueueUpdates
<1>3. ASSUME NEW s \in Session
      PROVE  Coherent(k, s) /\ ~Engaged(k, s) /\ s \notin k.releasing /\ Resting(k, s)
  <2> HIDE DEF S
  <2> QED BY DEF FreshMemory, Coherent, Engaged, Resting, NoControl, NoRenewal
<1>4. /\ Update(n, k) /\ UNCHANGED <<nodeId, lapsed, status>>
      /\ proc' = [proc EXCEPT ![n] = "starting"]
  BY <1>1 DEF Bootstrap, row
<1> HIDE DEF k
<1>5. proc'[n] = "starting" /\ \A j \in Node \ {n} : proc'[j] = proc[j]
  BY <1>4 DEF TypeOK
<1> QED BY <1>1, <1>2, <1>3, <1>4, <1>5, MemoryStep

LEMMA SweepUpheld ==
    ASSUME TypeOK, SingleEngineInv, NEW n \in Node, Sweep(n)
    PROVE  SingleEngineInv'
<1> DEFINE S == {s \in Session : LapsedByOther(n, s) /\ linked[s] /\ status[s] \in TakeoverStatuses}
           k == [mem[n] EXCEPT !.queued = [s \in Session |-> IF s \in S THEN "sweep" ELSE "no"]]
<1>1. mem[n] \in Memory /\ proc[n] = "running" /\ \A s \in Session : status[s] # "deleted"
  BY DEF Sweep, TypeOK, SingleEngineInv, Exists
<1>2. k \in Memory
  <2>1. S \in SUBSET Session
    OBVIOUS
  <2> HIDE DEF S
  <2> QED BY <1>1, <2>1, QueueUpdates
<1>3. ASSUME NEW s \in Session
      PROVE  /\ Coherent(k, s)
             /\ Engaged(k, s) \/ s \in k.releasing => Engaged(mem[n], s) \/ s \in mem[n].releasing
             /\ ~Resting(k, s) => ~lapsed[s]
  <2>1. Coherent(mem[n], s) /\ Backed(n, s)
    BY DEF SingleEngineInv
  <2>2. s \in S => nodeId[s] # n /\ lapsed[s]
    BY DEF LapsedByOther
  <2> HIDE DEF S
  <2>3. k.queued[s] = "no" \/ s \in S
    BY <1>1 DEF Memory
  <2>4. Engaged(k, s) <=> Engaged(mem[n], s)
    BY <1>1 DEF Memory, Engaged
  <2>5. (Resting(k, s) <=> Resting(mem[n], s)) /\ k.releasing = mem[n].releasing
    BY <1>1 DEF Memory, Resting
  <2>6. Coherent(k, s)
    BY <1>1, <2>1, <2>2, <2>3, <2>4, <2>5 DEF Coherent, Backed, Memory
  <2> QED BY <2>1, <2>4, <2>5, <2>6 DEF Backed
<1>4. Update(n, k) /\ UNCHANGED <<nodeId, lapsed, status, proc>>
  BY DEF Sweep, row
<1> HIDE DEF k
<1> QED BY <1>1, <1>2, <1>3, <1>4, MemoryStep

\* A heartbeat lists what the process owns, which is what it has engaged ...
LEMMA RenewBeginUpheld ==
    ASSUME TypeOK, SingleEngineInv, NEW n \in Node, RenewBegin(n)
    PROVE  SingleEngineInv'
<1> DEFINE k == [mem[n] EXCEPT !.renewal =
                    [pc |-> "update", ids |-> mem[n].owned, live |-> LiveClaims(n)]]
<1>1. mem[n] \in Memory /\ Alive(n) /\ \A s \in Session : status[s] # "deleted"
  BY DEF RenewBegin, Up, Alive, TypeOK, SingleEngineInv, Exists
<1>2. k \in Memory
  <2>1. mem[n].owned \in SUBSET Session /\ LiveClaims(n) \in SUBSET Session
    BY <1>1 DEF Memory, LiveClaims
  <2> QED BY <1>1, <2>1, RenewUpdates
<1>3. ASSUME NEW s \in Session
      PROVE  /\ Coherent(k, s)
             /\ Engaged(k, s) \/ s \in k.releasing => Engaged(mem[n], s) \/ s \in mem[n].releasing
             /\ ~Resting(k, s) => ~lapsed[s]
  <2>1. Coherent(mem[n], s) /\ Backed(n, s)
    BY DEF SingleEngineInv
  <2>2. Engaged(k, s) <=> Engaged(mem[n], s)
    BY <1>1 DEF Memory, Engaged
  <2>3. Resting(k, s) <=> s \notin mem[n].owned
    BY <1>1 DEF Memory, Resting
  <2>4. Coherent(k, s)
    BY <1>1, <2>1, <2>2, <2>3 DEF Coherent, Memory
  <2>5. k.releasing = mem[n].releasing
    BY <1>1 DEF Memory
  <2> QED BY <2>1, <2>2, <2>3, <2>4, <2>5 DEF Backed, Coherent
<1>4. Update(n, k) /\ UNCHANGED <<nodeId, lapsed, status, proc>>
  BY DEF RenewBegin, row
<1>5. proc[n] \in {"starting", "running"}
  BY <1>1 DEF Alive, SingleEngineInv
<1> HIDE DEF k
<1> QED BY <1>1, <1>2, <1>3, <1>4, <1>5, MemoryStep

\* ... so that a claim the SELECT finds gone covers nothing, and no engine is torn down.
LEMMA RenewSelectUpheld ==
    ASSUME TypeOK, SingleEngineInv, NEW n \in Node, RenewSelect(n)
    PROVE  SingleEngineInv'
<1> DEFINE gone == {s \in mem[n].renewal.ids : ~(Exists(s) /\ nodeId[s] = n)}
           k == [mem[n] EXCEPT !.renewal.pc = "conclude", !.renewal.ids = gone]
<1>1. /\ mem[n] \in Memory /\ Alive(n) /\ mem[n].renewal.pc = "select"
      /\ \A s \in Session : status[s] # "deleted"
  BY DEF RenewSelect, TypeOK, SingleEngineInv, Exists
<1>2. k \in Memory
  <2>1. gone \in SUBSET Session
    BY <1>1 DEF Memory
  <2> HIDE DEF gone
  <2> QED BY <1>1, <2>1, RenewUpdates
<1>3. ASSUME NEW s \in Session
      PROVE  /\ Coherent(k, s)
             /\ Engaged(k, s) \/ s \in k.releasing => Engaged(mem[n], s) \/ s \in mem[n].releasing
             /\ ~Resting(k, s) => ~lapsed[s]
  <2>1. Coherent(mem[n], s) /\ Backed(n, s)
    BY DEF SingleEngineInv
  <2>2. s \in gone => s \in mem[n].renewal.ids /\ nodeId[s] # n
    BY <1>1 DEF Exists
  <2> HIDE DEF gone
  <2>3. Engaged(k, s) <=> Engaged(mem[n], s)
    BY <1>1 DEF Memory, Engaged
  <2>4. Resting(k, s) <=> s \notin gone
    BY <1>1 DEF Memory, Resting
  <2>5. s \in gone => ~Resting(mem[n], s) /\ ~Engaged(mem[n], s)
    BY <1>1, <2>1, <2>2 DEF Backed, Resting
  <2>6. Coherent(k, s)
    BY <1>1, <2>1, <2>3, <2>4, <2>5 DEF Coherent, Memory
  <2>7. k.releasing = mem[n].releasing
    BY <1>1 DEF Memory
  <2> QED BY <2>1, <2>3, <2>4, <2>5, <2>6, <2>7 DEF Backed
<1>4. Update(n, k) /\ UNCHANGED <<nodeId, lapsed, status, proc>>
  BY DEF RenewSelect, row
<1>5. proc[n] \in {"starting", "running"}
  BY <1>1 DEF Alive, SingleEngineInv
<1> HIDE DEF k
<1> QED BY <1>1, <1>2, <1>3, <1>4, <1>5, MemoryStep

LEMMA RenewConcludeUpheld ==
    ASSUME TypeOK, SingleEngineInv, NEW n \in Node, RenewConclude(n)
    PROVE  SingleEngineInv'
<1> DEFINE lost == mem[n].renewal.ids
           k == [mem[n] EXCEPT
                    !.renewal = NoRenewal,
                    !.owned = @ \ lost,
                    !.stopMark = @ \cup lost,
                    !.reconnect = [s \in Session |-> IF s \in lost THEN "none" ELSE @[s]],
                    !.closing = @ \cup (lost \cap mem[n].engine)]
<1>1. /\ mem[n] \in Memory /\ Alive(n) /\ mem[n].renewal.pc = "conclude"
      /\ \A s \in Session : status[s] # "deleted"
  BY DEF RenewConclude, TypeOK, SingleEngineInv, Exists
<1>2. lost \in SUBSET Session /\ k \in Memory
  <2>1. mem[n].renewal.ids \in SUBSET Session
    BY <1>1 DEF Memory
  <2> QED BY <1>1, <2>1, RenewUpdates
<1>3. ASSUME NEW s \in Session
      PROVE  /\ Coherent(k, s)
             /\ Engaged(k, s) \/ s \in k.releasing => Engaged(mem[n], s) \/ s \in mem[n].releasing
             /\ ~Resting(k, s) => ~lapsed[s]
  <2>1. Coherent(mem[n], s)
    BY DEF SingleEngineInv
  <2>2. s \in lost => ~Resting(mem[n], s) /\ ~Engaged(mem[n], s)
    BY <1>1, <2>1 DEF Coherent, Resting
  <2>3. Resting(k, s)
    BY <1>1 DEF Memory, Resting, NoRenewal
  <2>4. CASE s \in lost
    <3>1. ~Engaged(k, s)
      BY <1>1, <2>2, <2>4 DEF Memory, Engaged
    <3>2. Coherent(k, s) /\ k.releasing = mem[n].releasing
      BY <1>1, <2>1, <2>2, <2>3, <2>4, <3>1 DEF Coherent, Memory, Engaged
    <3> QED BY <2>3, <3>1, <3>2
  <2>5. CASE s \notin lost
    <3>1. Engaged(k, s) <=> Engaged(mem[n], s)
      BY <1>1, <2>5 DEF Memory, Engaged
    <3>2. Coherent(k, s) /\ k.releasing = mem[n].releasing
      BY <1>1, <2>1, <2>3, <2>5, <3>1 DEF Coherent, Memory
    <3> QED BY <2>3, <3>1, <3>2
  <2> QED BY <2>4, <2>5
<1>4. Update(n, k) /\ UNCHANGED <<nodeId, lapsed, status, proc>>
  BY DEF RenewConclude, row
<1>5. proc[n] \in {"starting", "running"}
  BY <1>1 DEF Alive, SingleEngineInv
<1> HIDE DEF k
<1> QED BY <1>1, <1>2, <1>3, <1>4, <1>5, MemoryStep

LEMMA RenewFailUpheld ==
    ASSUME TypeOK, SingleEngineInv, NEW n \in Node, RenewFail(n)
    PROVE  SingleEngineInv'
<1> DEFINE k == [mem[n] EXCEPT !.renewal = NoRenewal]
<1>1. mem[n] \in Memory /\ Alive(n) /\ \A s \in Session : status[s] # "deleted"
  BY DEF RenewFail, TypeOK, SingleEngineInv, Exists
<1>2. k \in Memory
  BY <1>1, RenewUpdates
<1>3. ASSUME NEW s \in Session
      PROVE  /\ Coherent(k, s) /\ Resting(k, s)
             /\ Engaged(k, s) \/ s \in k.releasing => Engaged(mem[n], s) \/ s \in mem[n].releasing
  <2>1. Coherent(mem[n], s)
    BY DEF SingleEngineInv
  <2>2. Engaged(k, s) <=> Engaged(mem[n], s)
    BY <1>1 DEF Memory, Engaged
  <2>3. Resting(k, s) /\ k.releasing = mem[n].releasing
    BY <1>1 DEF Memory, Resting, NoRenewal
  <2> QED BY <1>1, <2>1, <2>2, <2>3 DEF Coherent, Memory
<1>4. Update(n, k) /\ UNCHANGED <<nodeId, lapsed, status, proc>>
  BY DEF RenewFail, row
<1>5. proc[n] \in {"starting", "running"}
  BY <1>1 DEF Alive, SingleEngineInv
<1> HIDE DEF k
<1> QED BY <1>1, <1>2, <1>3, <1>4, <1>5, MemoryStep

LEMMA RenewUpdateUpheld ==
    ASSUME TypeOK, SingleEngineInv, NEW n \in Node, RenewUpdate(n)
    PROVE  SingleEngineInv'
<1> DEFINE k == [mem[n] EXCEPT !.renewal.pc = "select", !.renewal.live = {}]
<1>1. mem[n] \in Memory /\ Alive(n) /\ mem[n].renewal.pc = "update"
  BY DEF RenewUpdate, TypeOK
<1>2. /\ UNCHANGED <<nodeId, status, proc>>
      /\ mem'[n] = k /\ \A j \in Node \ {n} : mem'[j] = mem[j]
      /\ \A s \in Session : lapsed'[s] => lapsed[s]
  BY DEF RenewUpdate, Update, TypeOK, info
<1>3. proc[n] \in {"starting", "running"}
  BY <1>1 DEF Alive, SingleEngineInv
<1>4. ASSUME NEW j \in Node PROVE proc[j] \in {"down", "booting"} => mem'[j] = FreshMemory
  BY <1>2, <1>3 DEF SingleEngineInv
<1>5. ASSUME NEW j \in Node, NEW s \in Session PROVE Coherent(mem'[j], s) /\ Backed(j, s)'
  <2>1. Coherent(mem[j], s) /\ Backed(j, s)
    BY DEF SingleEngineInv
  <2>2. CASE j = n
    <3>1. Engaged(k, s) <=> Engaged(mem[n], s)
      BY <1>1 DEF Memory, Engaged
    <3>2. (Resting(k, s) <=> Resting(mem[n], s)) /\ k.renewal.pc = "select"
      BY <1>1 DEF Memory, Resting
    <3>3. Coherent(k, s) /\ k.releasing = mem[n].releasing
      BY <1>1, <2>1, <2>2, <3>1, <3>2 DEF Coherent, Memory
    <3> HIDE DEF k
    <3> QED BY <1>2, <2>1, <2>2, <3>1, <3>2, <3>3 DEF Backed
  <2>3. CASE j # n
    BY <1>2, <2>1, <2>3 DEF Backed
  <2> QED BY <2>2, <2>3
<1> QED BY <1>2, <1>4, <1>5 DEF SingleEngineInv, Exists

LEMMA CrashUpheld ==
    ASSUME TypeOK, SingleEngineInv, NEW n \in Node, Crash(n)
    PROVE  SingleEngineInv'
<1>1. /\ UNCHANGED <<nodeId, lapsed, status>>
      /\ mem'[n] = FreshMemory /\ proc'[n] = "down"
      /\ \A j \in Node \ {n} : mem'[j] = mem[j] /\ proc'[j] = proc[j]
  BY DEF Crash, Down, Update, TypeOK, row
<1>2. ASSUME NEW j \in Node, NEW s \in Session PROVE Coherent(mem'[j], s) /\ Backed(j, s)'
  BY <1>1, FreshCoherent DEF SingleEngineInv, Backed
<1>3. \A j \in Node : /\ proc'[j] \in {"down", "booting", "starting", "running"}
                      /\ proc'[j] \in {"down", "booting"} => mem'[j] = FreshMemory
  BY <1>1 DEF SingleEngineInv
<1> QED BY <1>1, <1>2, <1>3 DEF SingleEngineInv, Exists

\* A lease only runs out when no heartbeat, release or fresh claim is in flight, and
\* the holder has nothing engaged: what is engaged is owned and active.
LEMMA LapseUpheld ==
    ASSUME TypeOK, SingleEngineInv, NEW s \in Session, UnrenewedLapse(s)
    PROVE  SingleEngineInv'
<1>1. /\ UNCHANGED <<nodeId, status, proc, mem>>
      /\ \A t \in Session \ {s} : lapsed'[t] = lapsed[t]
  BY DEF UnrenewedLapse, Lapse, info, TypeOK
<1>2. ASSUME NEW n \in Node
      PROVE  ~Engaged(mem[n], s) /\ s \notin mem[n].releasing /\ Resting(mem[n], s)
  <2>1. Coherent(mem[n], s) /\ Backed(n, s) /\ mem[n] \in Memory
    BY DEF SingleEngineInv, TypeOK
  <2>2. Prompt(n, s) /\ (nodeId[s] = n => ~Renewed(n, s))
    BY DEF UnrenewedLapse
  <2>3. s \notin mem[n].releasing /\ Resting(mem[n], s)
    BY <2>2 DEF Prompt, Resting
  <2>4. ASSUME Engaged(mem[n], s) PROVE FALSE
    <3>1. nodeId[s] = n /\ s \in mem[n].owned
      BY <2>1, <2>2, <2>4 DEF Backed, Coherent, Prompt
    <3>2. ActiveIn(mem[n], s)
      BY <2>1, <2>2, <2>4 DEF Coherent, Engaged, ActiveIn, Prompt, Memory
    <3>3. Alive(n)
      <4>1. mem[n] # FreshMemory
        BY <2>4, FreshCoherent
      <4> QED BY <4>1 DEF SingleEngineInv, Alive
    <3> QED BY <2>2, <3>1, <3>2, <3>3 DEF Renewed, LiveClaims, Active
  <2> QED BY <2>3, <2>4
<1>3. ASSUME NEW n \in Node, NEW t \in Session PROVE Backed(n, t)'
  BY <1>1, <1>2 DEF SingleEngineInv, Backed
<1> QED BY <1>1, <1>3 DEF SingleEngineInv, Exists

-----------------------------------------------------------------------------
\* The rest of the handlers have nothing to do in a cluster left to itself: no
\* control, failed start, orphan teardown or drain is ever in flight.
LEMMA NothingElse ==
    ASSUME TypeOK, SingleEngineInv, LeftAlone, NEW n \in Node
    PROVE  /\ ~Shutdown(n) /\ ~ShutdownRelease(n) /\ ~Exit(n)
           /\ \A s \in Session :
                 /\ ~RequestStart(n, s) /\ \A kind \in Kind : ~RequestControl(n, s, kind)
                 /\ ~StartFails(n, s) /\ ~StartFailed(n, s)
                 /\ ~ControlStep(n, s) /\ ~OrphanDown(n, s)
                 /\ ~EngineErrs(n, s) /\ ~ReconnectFails(n, s)
                 /\ ~HealthyLapse(s)
<1>1. ~Shutdown(n) /\ ~ShutdownRelease(n) /\ ~Exit(n)
  BY DEF LeftAlone, Request, Shutdown, ShutdownRelease, Exit, SingleEngineInv
<1>2. ASSUME NEW s \in Session
      PROVE  /\ ~RequestStart(n, s) /\ \A kind \in Kind : ~RequestControl(n, s, kind)
             /\ ~StartFails(n, s) /\ ~EngineErrs(n, s) /\ ~ReconnectFails(n, s)
             /\ ~HealthyLapse(s)
  BY DEF LeftAlone, Request, Fault, RequestStart, RequestControl, StartFails, EngineErrs,
         ReconnectFails, HealthyLapse
<1>3. ASSUME NEW s \in Session
      PROVE  ~StartFailed(n, s) /\ ~ControlStep(n, s) /\ ~OrphanDown(n, s)
  <2>1. Coherent(mem[n], s)
    BY DEF SingleEngineInv
  <2>2. ~StartFailed(n, s) /\ ~OrphanDown(n, s)
    BY <2>1 DEF Coherent, StartFailed, OrphanDown
  <2>3. ~ControlStep(n, s)
    BY <2>1 DEF Coherent, ControlStep, ControlFence, ControlBody, ControlRefuse, ControlTornDown,
                ControlRecord, ControlUnlink, ControlSettle
  <2> QED BY <2>2, <2>3
<1> QED BY <1>1, <1>2, <1>3

LEMMA NodeUpheld ==
    ASSUME TypeOK, SingleEngineInv, LeftAlone, NEW n \in Node, NodeStep(n)
    PROVE  SingleEngineInv'
<1>1. CASE Boot(n) \/ Listen(n) \/ Bootstrap(n) \/ Sweep(n)
  BY <1>1, BootUpheld, BootstrapUpheld, SweepUpheld
<1>2. CASE RenewStep(n) \/ RenewFail(n)
  BY <1>2, RenewBeginUpheld, RenewUpdateUpheld, RenewSelectUpheld, RenewConcludeUpheld,
     RenewFailUpheld DEF RenewStep
<1>3. CASE Crash(n)
  BY <1>3, CrashUpheld
<1> QED BY <1>1, <1>2, <1>3, NothingElse DEF NodeStep

LEMMA SessionUpheld ==
    ASSUME TypeOK, SingleEngineInv, LeftAlone,
           NEW n \in Node, NEW s \in Session, SessionStep(n, s)
    PROVE  SingleEngineInv'
<1>1. CASE StartStep(n, s)
  BY <1>1, NothingElse, EnterUpheld, AcceptUpheld, RefuseUpheld, RegisterUpheld, SavedUpheld,
     GuardUpheld DEF StartStep
<1>2. CASE QueuedStart(n, s) \/ ReleaseRow(n, s)
  BY <1>2, QueuedUpheld, ReleaseUpheld
<1>3. CASE EngineReady(n, s) \/ EngineDrops(n, s)
  BY <1>3, ReadyUpheld, DropsUpheld
<1>4. CASE ReconnectStep(n, s)
  BY <1>4, ReconnectFiresUpheld, ReconnectLaunchesUpheld, ReconnectEndsUpheld DEF ReconnectStep
<1> QED BY <1>1, <1>2, <1>3, <1>4, NothingElse DEF SessionStep

\* At the start nobody is up and no memory holds anything.
LEMMA NobodyUp == Init => SingleEngineInv
<1> SUFFICES ASSUME Init PROVE SingleEngineInv
  OBVIOUS
<1>1. \A s \in Session : Exists(s)
  BY DEF Init, Exists
<1>2. \A n \in Node : proc[n] = "down" /\ mem[n] = FreshMemory
  BY DEF Init
<1>3. \A n \in Node, s \in Session : Coherent(mem[n], s) /\ Backed(n, s)
  BY <1>2, FreshCoherent DEF Backed
<1> QED BY <1>1, <1>2, <1>3 DEF SingleEngineInv

\* In a cluster left to itself, everything a process has of a session, an attempt that
\* has removed the dead engine and a release in flight included, rests on an unexpired
\* claim of its own, in every reachable state.
THEOREM EngineRestsOnClaim == ASSUME LeftAlone PROVE Spec => []SingleEngineInv
<1>1. TypeOK /\ SingleEngineInv /\ [Next]_vars => SingleEngineInv'
  <2> SUFFICES ASSUME TypeOK, SingleEngineInv, [Next]_vars PROVE SingleEngineInv'
    OBVIOUS
  <2>1. ASSUME UNCHANGED vars PROVE SingleEngineInv'
    BY <2>1 DEF vars, SingleEngineInv, Exists, Backed
  <2>2. ASSUME NEW n \in Node, NodeStep(n) PROVE SingleEngineInv'
    BY <2>2, NodeUpheld
  <2>3. ASSUME NEW n \in Node, NEW s \in Session, SessionStep(n, s) PROVE SingleEngineInv'
    BY <2>3, SessionUpheld
  <2>4. ASSUME NEW s \in Session, UnrenewedLapse(s) \/ HealthyLapse(s) PROVE SingleEngineInv'
    <3>1. ~HealthyLapse(s)
      BY DEF LeftAlone, Fault, HealthyLapse
    <3> QED BY <2>4, <3>1, LapseUpheld
  <2> QED BY <2>1, <2>2, <2>3, <2>4 DEF Next
<1> QED BY <1>1, NobodyUp, TypeCorrect, PTL DEF Spec

\* Two processes never both run an engine of one session, however often they crash,
\* reboot, drop connections, fail heartbeats and take over from each other: an engine
\* rests on a claim of its own process, and a row names one process.
THEOREM SingleEngineHolds == ASSUME LeftAlone PROVE Spec => []SingleEngine
<1>1. SingleEngineInv => SingleEngine
  BY DEF SingleEngineInv, SingleEngine, Backed, Engaged
<1> QED BY <1>1, EngineRestsOnClaim, PTL
=============================================================================
