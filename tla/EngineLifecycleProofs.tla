----------------------- MODULE EngineLifecycleProofs ------------------------
(***************************************************************************)
(* Proofs about EngineLifecycle, for any sessions, engines, flows and      *)
(* budgets.                                                                *)
(*                                                                         *)
(* All arguments share the types (Shaped): every engine a flow holds is    *)
(* one of its session, and no two flows launch the same one.  What is      *)
(* launched is then what was built and is still registered (NoRearm).  A   *)
(* stop sticks because whoever has an engine of a stopped session in the   *)
(* registry still has to look at the mark, or is there to take it out      *)
(* (Watched).  Two engines never run at once while flows of one kind only  *)
(* are about: starts alone (Alone), or one start and the attempts that     *)
(* follow it (Turns).  Credentials are then safe because whoever builds an *)
(* engine has waited for every removal that was pending (Fenced, Waited).  *)
(***************************************************************************)
EXTENDS EngineLifecycle, TLAPS

\* Where a flow is on the way to an engine that runs.
Launching == {"saving", "launching"}

\* Where a flow of kind k may be.
KindAt(k, pc) ==
    /\ k = "none" <=> pc = "idle"
    /\ pc \in {"hook"} => k \in {"start", "delete"}
    /\ pc \in Launching \cup {"reap", "failing", "guard", "retire", "residue"} => k \in {"start", "attempt"}
    /\ pc = "failed" => k = "start"
    /\ pc = "purge" => k \in {"start", "attempt", "delete"}
    /\ pc = "teardown" => k # "start"
    /\ pc = "enter" => k \in {"stop", "delete"}
    /\ pc = "fence2" => k = "delete"
    /\ pc \in {"initial", "record"} => k \in Control
    /\ pc = "fence" => k \in {"start", "attempt", "delete"}
KindFine(f) == /\ KindAt(flow[f].kind, flow[f].pc)
               /\ flow[f].kind # "none" => flow[f].session \in Session

\* What a flow holds.
FlowFine(f) ==
    LET e == flow[f].engine IN
    /\ KindFine(f)
    /\ e # NoEngine => engine[e].owner = flow[f].session
    /\ flow[f].pc \in Launching \cup {"initial", "retire"} => e # NoEngine
    /\ flow[f].pc = "saving" /\ IsLive(e) => engine[e].phase = "built"
    /\ \A g \in Flow \ {f} : flow[f].pc \in Launching /\ flow[g].pc \in Launching
                             => flow[g].engine # e

\* The types, and what every flow holds.
Shaped == TypeOK /\ \A f \in Flow : FlowFine(f)
-----------------------------------------------------------------------------
\* The types, and what flows hold.

\* The record of flow f may become what it now is in the next state.
Moved(f) ==
    /\ KindFine(f)'
    /\ flow'[f].kind = "none" <=> flow'[f] = NoFlow
    /\ flow'[f].engine # NoEngine => engine'[flow'[f].engine].owner = flow'[f].session
    /\ flow'[f].pc \in Launching \cup {"initial", "retire"} => flow'[f].engine # NoEngine
    /\ flow'[f].pc \in Launching => /\ flow[f].pc \in Launching
                                    /\ flow'[f].engine = flow[f].engine
                                    /\ flow'[f].pc = "saving" => flow[f].pc = "saving"

\* Engine e keeps its owner, and its phase goes on: torn once it is not
\* registered, launched from what was built and is registered.
Unsaved(e) == \A g \in Flow : ~(flow'[g].pc = "saving" /\ flow'[g].engine = e)
Steady(e) ==
    /\ engine'[e].owner = engine[e].owner
    /\ \/ engine'[e].phase = engine[e].phase
       \/ engine'[e].phase = "torn" /\ \A s \in Session : registry'[s] # e
       \/ engine'[e].phase \in {"up", "dead"} /\ Unsaved(e)
       \/ engine'[e].phase = "launching" /\ engine[e].phase = "built" /\ IsLive(e) /\ Unsaved(e)

\* The types but for what a registered engine and an idle flow are.
Types == /\ row \in [Session -> {"absent", "present", "deleted"}]
         /\ status \in [Session -> Status]
         /\ engine \in [Engine -> [owner : Session \cup {NoSession}, phase : Phase]]
         /\ registry \in [Session -> Engine \cup {NoEngine}]
         /\ stopMark \in SUBSET Session /\ stopped \in SUBSET stopMark
         /\ recovered \in SUBSET Session
         /\ reconnect \in [Session -> {"none", "dormant", "armed", "spent"}]
         /\ flow \in [Flow -> FlowState]
         /\ dropping \in SUBSET Engine /\ wiping \in SUBSET Engine /\ clearing \in SUBSET Engine
         /\ dir \in Engine \cup {NoEngine}
         /\ requests \in Nat /\ faults \in Nat

\* What NoRearm says of a step.
Arms == \A e \in Engine : (engine[e].phase # "launching" /\ engine'[e].phase = "launching")
            => engine[e].phase = "built" /\ registry[engine[e].owner] = e

LEMMA TypesOf == TypeOK => Types
  BY DEF TypeOK, Types

\* A step that builds no engine.
LEMMA Onward ==
    ASSUME Shaped, Types',
           \A e \in Engine : Steady(e),
           \A s \in Session : registry'[s] \in {registry[s], NoEngine},
           \A g \in Flow : flow'[g] = flow[g] \/ Moved(g)
    PROVE  Shaped' /\ Arms
<1>0. TypeOK /\ Types
  BY TypesOf DEF Shaped
<1>1. ASSUME NEW s \in Session, registry'[s] # NoEngine
      PROVE  engine'[registry'[s]].owner = s /\ engine'[registry'[s]].phase # "torn"
  <2>1. registry'[s] = registry[s] /\ registry[s] \in Engine /\ engine[registry[s]].owner = s
        /\ engine[registry[s]].phase # "torn"
    BY <1>0, <1>1 DEF TypeOK
  <2>2. Steady(registry[s])
    BY <2>1
  <2> QED
    BY <2>1, <2>2 DEF Steady
<1>2. ASSUME NEW g \in Flow PROVE flow'[g].kind = "none" <=> flow'[g] = NoFlow
  BY <1>0 DEF Moved, TypeOK
<1>3. TypeOK'
  BY <1>1, <1>2 DEF TypeOK, Types
<1>4. ASSUME NEW g \in Flow PROVE KindFine(g)'
  BY DEF Moved, KindFine, Shaped, FlowFine
<1>5. ASSUME NEW g \in Flow, flow'[g].engine # NoEngine
      PROVE  engine'[flow'[g].engine].owner = flow'[g].session
  <2>1. CASE flow'[g] = flow[g]
    <3>1. flow[g].engine \in Engine /\ engine[flow[g].engine].owner = flow[g].session
      BY <1>0, <1>5, <2>1 DEF Types, FlowState, Shaped, FlowFine
    <3> QED
      BY <2>1, <3>1 DEF Steady
  <2> QED
    BY <2>1, <1>5 DEF Moved
<1>6. ASSUME NEW g \in Flow, flow'[g].pc \in Launching \cup {"initial", "retire"}
      PROVE  flow'[g].engine # NoEngine
  BY <1>6 DEF Moved, Shaped, FlowFine
<1>7. ASSUME NEW g \in Flow, flow'[g].pc \in Launching
      PROVE  /\ flow[g].pc \in Launching /\ flow'[g].engine = flow[g].engine
             /\ flow'[g].pc = "saving" => flow[g].pc = "saving"
  BY <1>7 DEF Moved
<1>8. ASSUME NEW g \in Flow, flow'[g].pc = "saving", IsLive(flow[g].engine)'
      PROVE  engine'[flow'[g].engine].phase = "built"
  <2>0. flow[g].engine \in Engine
    BY <1>0, <1>7, <1>8, <1>6 DEF Types, FlowState, Launching
  <2>a. PICK e \in Engine : e = flow[g].engine
    BY <2>0
  <2>1. flow[g].pc = "saving" /\ flow'[g].engine = e
    BY <1>7, <1>8, <2>a DEF Launching
  <2>2. Steady(e) /\ ~Unsaved(e)
    BY <2>1, <1>8 DEF Unsaved
  <2>3. engine'[e].owner = engine[e].owner /\ engine[e].owner \in Session
        /\ registry'[engine[e].owner] = e
    BY <2>1, <2>2, <1>8, <1>0 DEF Steady, IsLive, Types
  <2>4. engine'[e].phase = engine[e].phase
    BY <2>2, <2>3 DEF Steady
  <2>5. IsLive(e)
    BY <2>3, <1>0, LifecycleAssumption DEF IsLive, Types
  <2> QED
    BY <2>a, <2>1, <2>4, <2>5 DEF Shaped, FlowFine
<1>9. ASSUME NEW g \in Flow, NEW h \in Flow \ {g},
             flow'[g].pc \in Launching, flow'[h].pc \in Launching
      PROVE  flow'[h].engine # flow'[g].engine
  BY <1>7, <1>9 DEF Shaped, FlowFine
<1>10. ASSUME NEW g \in Flow PROVE FlowFine(g)'
  BY <1>4, <1>5, <1>6, <1>8, <1>9 DEF FlowFine
<1>11. Arms
  BY DEF Arms, Steady, IsLive
<1> QED
  BY <1>3, <1>10, <1>11 DEF Shaped

\* A step that builds an engine, after it may have torn another one down.
LEMMA Build ==
    ASSUME Shaped, Types', NEW f \in Flow, NEW s \in Session, NEW k \in {"start", "attempt"},
           NEW reg \in [Session -> Engine \cup {NoEngine}],
           NEW eng \in [Engine -> [owner : Session \cup {NoSession}, phase : Phase]],
           \A t \in Session : reg[t] \in {registry[t], NoEngine},
           \A d \in Engine : /\ eng[d].owner = engine[d].owner
                             /\ \/ eng[d].phase = engine[d].phase
                                \/ eng[d].phase = "torn" /\ \A t \in Session : reg[t] # d,
           Register(f, s, k, reg, eng)
    PROVE  Shaped' /\ Arms
<1>0. TypeOK /\ Types
  BY TypesOf DEF Shaped
<1>1. PICK e \in Available :
        /\ engine' = [eng EXCEPT ![e] = [owner |-> s, phase |-> "built"]]
        /\ registry' = [reg EXCEPT ![s] = e]
        /\ flow' = [flow EXCEPT ![f] = [kind |-> k, session |-> s, pc |-> "saving",
                                        engine |-> e, waits |-> {}]]
  BY DEF Register, Enter
<1>2. /\ e \in Engine /\ e # NoEngine /\ engine[e].phase = "torn"
      /\ \A t \in Session : registry[t] # e
      /\ \A g \in Flow : flow[g].engine # e
  BY LifecycleAssumption DEF Available
<1>3. /\ engine'[e] = [owner |-> s, phase |-> "built"]
      /\ \A d \in Engine \ {e} : engine'[d] = eng[d]
      /\ registry'[s] = e
      /\ \A t \in Session \ {s} : registry'[t] = reg[t]
  BY <1>1, <1>2
<1>4. /\ flow'[f] = [kind |-> k, session |-> s, pc |-> "saving", engine |-> e, waits |-> {}]
      /\ \A g \in Flow \ {f} : flow'[g] = flow[g]
  BY <1>0, <1>1 DEF Types
<1>5. ASSUME NEW t \in Session, registry'[t] # NoEngine
      PROVE  engine'[registry'[t]].owner = t /\ engine'[registry'[t]].phase # "torn"
  <2>1. CASE t = s
    BY <2>1, <1>3
  <2>2. CASE t # s
    <3>1. registry'[t] = registry[t] /\ reg[t] = registry[t] /\ registry[t] \in Engine \ {e}
      BY <2>2, <1>0, <1>2, <1>3, <1>5 DEF Types
    <3>2. engine[registry[t]].owner = t /\ engine[registry[t]].phase # "torn"
      BY <3>1, <1>0, LifecycleAssumption DEF TypeOK
    <3>3. engine'[registry[t]] = eng[registry[t]] /\ eng[registry[t]].owner = t
          /\ eng[registry[t]].phase = engine[registry[t]].phase
      BY <3>1, <3>2, <1>3
    <3> QED
      BY <3>1, <3>2, <3>3
  <2> QED
    BY <2>1, <2>2
<1>6. ASSUME NEW g \in Flow PROVE flow'[g].kind = "none" <=> flow'[g] = NoFlow
  <2>1. CASE g = f
    BY <2>1, <1>4, <1>2 DEF NoFlow
  <2>2. CASE g # f
    BY <2>2, <1>0, <1>4 DEF TypeOK
  <2> QED
    BY <2>1, <2>2
<1>7. TypeOK'
  BY <1>5, <1>6 DEF TypeOK, Types
<1>8. ASSUME NEW g \in Flow \ {f} PROVE FlowFine(g)'
  <2>1. flow'[g] = flow[g] /\ flow[g].engine # e /\ flow[g].engine \in Engine \cup {NoEngine}
    BY <1>0, <1>2, <1>4 DEF Types, FlowState
  <2>2. FlowFine(g)
    BY DEF Shaped
  <2>3. KindFine(g)'
    BY <2>1, <2>2 DEF FlowFine, KindFine
  <2>4. flow[g].engine # NoEngine => engine'[flow[g].engine].owner = flow[g].session
    BY <2>1, <2>2, <1>3 DEF FlowFine
  <2>5. ASSUME flow[g].pc = "saving", IsLive(flow[g].engine)'
        PROVE  engine'[flow[g].engine].phase = "built"
    <3>1. flow[g].engine \in Engine \ {e}
      BY <2>1, <2>2, <2>5 DEF FlowFine, Launching
    <3>2. PICK d \in Engine \ {e} : d = flow[g].engine
      BY <3>1
    <3>3. engine'[d] = eng[d] /\ engine[d].owner \in Session \cup {NoSession}
      BY <1>0, <1>3 DEF Types
    <3>4. engine[d].owner \in Session /\ registry'[engine[d].owner] = d
      BY <3>2, <3>3, <2>1, <2>5 DEF IsLive
    <3>5. reg[engine[d].owner] = d
      BY <3>4, <1>3
    <3>6. registry[engine[d].owner] = d
      BY <3>4, <3>5, LifecycleAssumption
    <3>7. eng[d].phase = engine[d].phase
      BY <3>4, <3>5
    <3>8. engine[d].phase = "built"
      BY <2>2, <2>5, <3>2, <3>4, <3>6, LifecycleAssumption DEF FlowFine, IsLive
    <3> QED
      BY <3>2, <3>3, <3>7, <3>8
  <2>6. ASSUME NEW h \in Flow \ {g}, flow'[g].pc \in Launching, flow'[h].pc \in Launching
        PROVE  flow'[h].engine # flow'[g].engine
    <3>1. CASE h = f
      BY <3>1, <2>1, <1>4
    <3>2. CASE h # f
      BY <3>2, <2>1, <2>2, <2>6, <1>4 DEF FlowFine
    <3> QED
      BY <3>1, <3>2
  <2> QED
    BY <2>1, <2>2, <2>3, <2>4, <2>5, <2>6 DEF FlowFine
<1>9. FlowFine(f)'
  <2>1. KindFine(f)'
    BY <1>4 DEF KindFine, KindAt, Launching, Control
  <2>2. ASSUME NEW h \in Flow \ {f} PROVE flow'[h].engine # flow'[f].engine
    BY <1>2, <1>4
  <2> QED
    BY <2>1, <2>2, <1>2, <1>3, <1>4 DEF FlowFine
<1>10. Arms
  <2> SUFFICES ASSUME NEW d \in Engine, engine[d].phase # "launching", engine'[d].phase = "launching"
               PROVE  FALSE
    BY DEF Arms
  <2> QED
    BY <1>3
<1> QED
  BY <1>7, <1>8, <1>9, <1>10 DEF Shaped

-----------------------------------------------------------------------------
\* What the operators of the actions do.

LEMMA Entered ==
    ASSUME Types, NEW f \in Flow, NEW r \in FlowState, Enter(f, r)
    PROVE  /\ flow' \in [Flow -> FlowState] /\ flow'[f] = r
           /\ \A g \in Flow \ {f} : flow'[g] = flow[g]
  BY DEF Types, Enter

LEMMA NothingHeld == NoFlow \in FlowState /\ NoFlow.pc = "idle" /\ NoFlow.kind = "none"
                     /\ NoFlow.engine = NoEngine /\ NoFlow.session = NoSession
  BY DEF NoFlow, FlowState, Kind, PC

LEMMA Left ==
    ASSUME Types, NEW f \in Flow, Leave(f)
    PROVE  /\ flow' \in [Flow -> FlowState] /\ flow'[f] = NoFlow /\ Moved(f)
           /\ \A g \in Flow \ {f} : flow'[g] = flow[g]
<1>1. flow' \in [Flow -> FlowState] /\ flow'[f] = NoFlow /\ \A g \in Flow \ {f} : flow'[g] = flow[g]
  BY Entered, NothingHeld DEF Leave
<1>2. Moved(f)
  BY <1>1, NothingHeld DEF Moved, KindFine, KindAt, Launching, Control
<1> QED
  BY <1>1, <1>2

\* Going on at pc, a flow keeps what it has.
LEMMA Went ==
    ASSUME Shaped, NEW f \in Flow, NEW pc \in PC, Goto(f, pc), flow[f].kind # "none",
           KindAt(flow[f].kind, pc),
           pc \in Launching \cup {"initial", "retire"} => flow[f].engine # NoEngine,
           pc \in Launching => flow[f].pc = "saving" /\ pc = "launching",
           \A e \in Engine : engine'[e].owner = engine[e].owner
    PROVE  /\ flow' \in [Flow -> FlowState] /\ Moved(f)
           /\ flow'[f].kind = flow[f].kind /\ flow'[f].session = flow[f].session
           /\ flow'[f].engine = flow[f].engine /\ flow'[f].pc = pc
           /\ \A g \in Flow \ {f} : flow'[g] = flow[g]
<1>0. Types /\ flow[f] \in FlowState /\ FlowFine(f)
  BY TypesOf DEF Shaped, Types
<1> DEFINE r == [flow[f] EXCEPT !.pc = pc, !.waits = {}]
<1>1. /\ r \in FlowState /\ r.kind = flow[f].kind /\ r.session = flow[f].session
      /\ r.engine = flow[f].engine /\ r.pc = pc
  BY <1>0 DEF FlowState
<1>2. flow' \in [Flow -> FlowState] /\ flow'[f] = r /\ \A g \in Flow \ {f} : flow'[g] = flow[g]
  <2>1. Enter(f, r)
    BY DEF Goto
  <2> HIDE DEF r
  <2> QED
    BY <1>0, <1>1, <2>1, Entered
<1> HIDE DEF r
<1>3. KindFine(f)'
  BY <1>0, <1>1, <1>2 DEF FlowFine, KindFine
<1>4. flow[f].engine \in Engine \cup {NoEngine}
  BY <1>0 DEF FlowState
<1>5. Moved(f)
  BY <1>0, <1>1, <1>2, <1>3, <1>4, NothingHeld DEF Moved, FlowFine, Launching
<1> QED
  BY <1>1, <1>2, <1>5

EngineTable == [Engine -> [owner : Session \cup {NoSession}, phase : Phase]]

LEMMA TornIs ==
    ASSUME NEW eng \in EngineTable, NEW e \in Engine \cup {NoEngine}
    PROVE  /\ Torn(eng, e) \in EngineTable
           /\ \A d \in Engine : Torn(eng, e)[d].owner = eng[d].owner
           /\ \A d \in Engine \ {e} : Torn(eng, e)[d] = eng[d]
           /\ e # NoEngine => Torn(eng, e)[e].phase = "torn"
  BY LifecycleAssumption DEF Torn, EngineTable, Phase

LEMMA Rephased ==
    ASSUME Types, NEW e \in Engine, NEW p \in Phase, engine' = [engine EXCEPT ![e].phase = p]
    PROVE  /\ engine' \in EngineTable
           /\ \A d \in Engine : engine'[d].owner = engine[d].owner
           /\ \A d \in Engine \ {e} : engine'[d] = engine[d]
           /\ engine'[e].phase = p
  BY DEF Types, EngineTable

LEMMA Unregistered ==
    ASSUME Types, NEW e \in Engine \cup {NoEngine}
    PROVE  /\ DeleteIfLive(e) \in [Session -> Engine \cup {NoEngine}]
           /\ \A s \in Session : /\ DeleteIfLive(e)[s] \in {registry[s], NoEngine}
                                 /\ e # NoEngine => DeleteIfLive(e)[s] # e
                                 /\ registry[s] # e => DeleteIfLive(e)[s] = registry[s]
  BY DEF Types, DeleteIfLive

LEMMA Written ==
    ASSUME Types, NEW s \in Session, NEW v \in Status
    PROVE  WithStatus(s, v) \in [Session -> Status]
  BY DEF Types, WithStatus

LEMMA Charged ==
    ASSUME Types, (\E x : Request(x)) \/ (\E x : Fault(x)) \/ UNCHANGED ghost
    PROVE  requests' \in Nat /\ faults' \in Nat
  BY DEF Types, Request, Fault, ghost

\* A step that changes neither an engine nor the registry.
LEMMA Still ==
    ASSUME Shaped, Types', UNCHANGED <<engine, registry>>,
           \A g \in Flow : flow'[g] = flow[g] \/ Moved(g)
    PROVE  Shaped' /\ Arms
<1>1. \A e \in Engine : Steady(e)
  BY DEF Steady
<1>2. \A s \in Session : registry'[s] \in {registry[s], NoEngine}
  OBVIOUS
<1> QED
  BY <1>1, <1>2, Onward

-----------------------------------------------------------------------------
\* Requests.

LEMMA CreateKeeps ==
    ASSUME Shaped, NEW s \in Session, Create(s) PROVE Shaped' /\ Arms
<1>0. Types
  BY TypesOf DEF Shaped
<1>1. Types'
  BY <1>0, Charged DEF Types, Create, marks, disk
<1> QED
  BY <1>1, Still DEF Create

\* What a start that is accepted holds.
LEMMA Accepted ==
    ASSUME Shaped, NEW f \in Flow, NEW s \in Session, Accept(f, s)
    PROVE  /\ flow' \in [Flow -> FlowState] /\ Moved(f)
           /\ stopMark' \in SUBSET Session /\ stopped' \in SUBSET stopMark' /\ stopped' \subseteq stopped
           /\ reconnect' \in [Session -> {"none", "dormant", "armed", "spent"}]
           /\ flow'[f].kind = "start" /\ flow'[f].session = s /\ flow'[f].pc = "hook"
           /\ flow'[f].engine = NoEngine
           /\ \A g \in Flow \ {f} : flow'[g] = flow[g]
<1>0. Types
  BY TypesOf DEF Shaped
<1> DEFINE r == [NoFlow EXCEPT !.kind = "start", !.session = s, !.pc = "hook"]
<1>1. r \in FlowState /\ r.kind = "start" /\ r.session = s /\ r.pc = "hook" /\ r.engine = NoEngine
  BY DEF NoFlow, FlowState, Kind, PC
<1>2. Enter(f, r)
  BY DEF Accept
<1> HIDE DEF r
<1>3. flow' \in [Flow -> FlowState] /\ flow'[f] = r /\ \A g \in Flow \ {f} : flow'[g] = flow[g]
  BY <1>0, <1>1, <1>2, Entered
<1>4. Moved(f)
  BY <1>1, <1>3, NothingHeld DEF Moved, KindFine, KindAt, Launching, Control
<1>5. stopMark' \in SUBSET Session /\ stopped' \in SUBSET stopMark' /\ stopped' \subseteq stopped
      /\ reconnect' \in [Session -> {"none", "dormant", "armed", "spent"}]
  BY <1>0 DEF Accept, Unmark, Types
<1> QED
  BY <1>1, <1>3, <1>4, <1>5

\* What a flow that waits at a fence holds.
LEMMA Waits ==
    ASSUME Shaped, NEW f \in Flow, NEW s \in Session, NEW k \in Kind \ {"none"},
           NEW pc \in PC \ (Launching \cup {"idle", "initial", "retire"}),
           Wait(f, s, k, pc), KindAt(k, pc),
           flow[f].engine # NoEngine => flow[f].session = s,
           \A e \in Engine : engine'[e].owner = engine[e].owner
    PROVE  /\ flow' \in [Flow -> FlowState] /\ Moved(f)
           /\ flow'[f].kind = k /\ flow'[f].session = s /\ flow'[f].pc = pc
           /\ flow'[f].engine = flow[f].engine
           /\ \A g \in Flow \ {f} : flow'[g] = flow[g]
<1>0. Types /\ flow[f] \in FlowState /\ FlowFine(f)
  BY TypesOf DEF Shaped, Types
<1> DEFINE r == [kind |-> k, session |-> s, pc |-> pc, engine |-> flow[f].engine, waits |-> wiping]
<1>1. /\ r \in FlowState /\ r.kind = k /\ r.session = s /\ r.pc = pc /\ r.engine = flow[f].engine
  BY <1>0 DEF Types, FlowState
<1>2. Enter(f, r)
  BY DEF Wait
<1> HIDE DEF r
<1>3. flow' \in [Flow -> FlowState] /\ flow'[f] = r /\ \A g \in Flow \ {f} : flow'[g] = flow[g]
  BY <1>0, <1>1, <1>2, Entered
<1>4. KindFine(f)'
  BY <1>1, <1>3 DEF KindFine
<1>5. flow[f].engine \in Engine \cup {NoEngine}
  BY <1>0 DEF FlowState
<1>6. Moved(f)
  BY <1>0, <1>1, <1>3, <1>4, <1>5, NothingHeld DEF Moved, FlowFine
<1> QED
  BY <1>1, <1>3, <1>6

LEMMA StartKeeps ==
    ASSUME Shaped, NEW f \in Flow, NEW s \in Session, Start(f, s) PROVE Shaped' /\ Arms
<1>0. Types
  BY TypesOf DEF Shaped
<1>1. UNCHANGED <<row, status, engine, registry, recovered, dropping, wiping, clearing, dir>>
      /\ Request("start") /\ flow[f] = NoFlow
  BY DEF Start, table, disk
<1>2. CASE Accept(f, s)
  <2>1. Types'
    BY <1>0, <1>1, <1>2, Accepted, Charged DEF Types
  <2> QED
    BY <1>1, <1>2, <2>1, Accepted, Still
<1>3. CASE Wait(f, s, "start", "fence") /\ UNCHANGED <<stopMark, stopped, reconnect>>
  <2>1. flow' \in [Flow -> FlowState] /\ Moved(f) /\ \A g \in Flow \ {f} : flow'[g] = flow[g]
    BY <1>1, <1>3, Waits, NothingHeld DEF KindAt, Launching, Control, Kind, PC
  <2>2. Types'
    BY <1>0, <1>1, <1>3, <2>1, Charged DEF Types
  <2> QED
    BY <1>1, <2>1, <2>2, Still
<1> QED
  BY <1>2, <1>3 DEF Start

\* A control that enters.
LEMMA Begun ==
    ASSUME Shaped, NEW f \in Flow, NEW r \in FlowState, Enter(f, r),
           r.kind # "none", KindAt(r.kind, r.pc), r.session \in Session,
           r.pc \notin Launching, r.pc \in {"initial", "retire"} => r.engine # NoEngine,
           r.engine # NoEngine => engine'[r.engine].owner = r.session
    PROVE  /\ flow' \in [Flow -> FlowState] /\ flow'[f] = r /\ Moved(f)
           /\ \A g \in Flow \ {f} : flow'[g] = flow[g]
<1>0. Types
  BY TypesOf DEF Shaped
<1>1. flow' \in [Flow -> FlowState] /\ flow'[f] = r /\ \A g \in Flow \ {f} : flow'[g] = flow[g]
  BY <1>0, Entered
<1>2. KindFine(f)'
  BY <1>1 DEF KindFine
<1>3. Moved(f)
  BY <1>1, <1>2, NothingHeld DEF Moved
<1> QED
  BY <1>1, <1>3

LEMMA StopEnteredKeeps ==
    ASSUME Shaped, NEW f \in Flow, NEW s \in Session, NEW k \in Control, StopEntered(f, s, k)
    PROVE  Shaped' /\ Arms
<1>0. Types
  BY TypesOf DEF Shaped
<1> DEFINE r == [NoFlow EXCEPT !.kind = k, !.session = s, !.pc = "enter"]
<1>1. UNCHANGED <<row, status, engine, registry, reconnect, recovered, dropping, wiping, clearing, dir>>
      /\ Request(k) /\ k \in {"stop", "delete"} /\ stopMark' = stopMark \cup {s} /\ stopped' = stopped /\ Enter(f, r)
  BY DEF StopEntered, table, disk
<1>2. r \in FlowState /\ r.kind = k /\ r.session = s /\ r.pc = "enter" /\ r.engine = NoEngine
  BY DEF NoFlow, FlowState, Kind, PC
<1> HIDE DEF r
<1>3. KindAt(k, "enter")
  BY <1>1 DEF KindAt, Launching, Control
<1>4. flow' \in [Flow -> FlowState] /\ Moved(f) /\ \A g \in Flow \ {f} : flow'[g] = flow[g]
  BY <1>1, <1>2, <1>3, Begun DEF Control, Launching
<1>5. Types'
  BY <1>0, <1>1, <1>4, Charged DEF Types
<1> QED
  BY <1>1, <1>4, <1>5, Still

LEMMA RetireIs ==
    ASSUME Shaped, NEW f \in Flow, NEW s \in Session, NEW k \in Control, Retire(f, s, k),
           flow[f].engine # NoEngine => flow[f].session = s, UNCHANGED engine
    PROVE  /\ flow' \in [Flow -> FlowState] /\ Moved(f)
           /\ flow'[f].kind = k /\ flow'[f].session = s
           /\ flow'[f].pc \in {"initial", "teardown", "fence2", "hook", "record"}
           /\ flow'[f].pc = "fence2" => k = "delete"
           /\ registry[s] # NoEngine => /\ flow'[f].engine = registry[s]
                                        /\ flow'[f].pc = (IF Saving(registry[s]) THEN "initial" ELSE "teardown")
           /\ registry[s] = NoEngine => flow'[f].pc \in {"fence2", "hook", "record"}
           /\ \A g \in Flow \ {f} : flow'[g] = flow[g]
           /\ stopMark' = stopMark \cup {s} /\ stopped' = stopped \cup {s}
           /\ stopMark' \in SUBSET Session /\ stopped' \in SUBSET stopMark' /\ wiping' \in SUBSET Engine
           /\ reconnect' \in [Session -> {"none", "dormant", "armed", "spent"}]
<1>0. Types /\ TypeOK
  BY TypesOf DEF Shaped
<1> DEFINE e == registry[s]
           r(d, pc) == [kind |-> k, session |-> s, engine |-> d, waits |-> {}, pc |-> pc]
<1>1. e \in Engine \cup {NoEngine} /\ (e # NoEngine => engine[e].owner = s)
  BY <1>0 DEF TypeOK
<1>2. /\ stopMark' = stopMark \cup {s} /\ stopped' = stopped \cup {s} /\ stopMark' \in SUBSET Session /\ stopped' \in SUBSET stopMark'
      /\ reconnect' \in [Session -> {"none", "dormant", "armed", "spent"}]
  BY <1>0 DEF Retire, Types
<1>3. wiping' \in SUBSET Engine
  BY <1>0, <1>1 DEF Retire, Types, Linked, Wait
<1>4. CASE e # NoEngine
  <2> DEFINE pc == IF Saving(e) THEN "initial" ELSE "teardown"
  <2>1. r(e, pc) \in FlowState /\ r(e, pc).kind = k /\ r(e, pc).session = s /\ r(e, pc).pc = pc
        /\ r(e, pc).engine = e
    BY <1>1, <1>4 DEF FlowState, Kind, PC, Control
  <2>2. Enter(f, r(e, pc))
    BY <1>4 DEF Retire
  <2>3. KindAt(k, pc) /\ pc \notin Launching
    BY DEF KindAt, Control, Launching
  <2> HIDE DEF r
  <2>4. flow'[f] = r(e, pc) /\ Moved(f) /\ flow' \in [Flow -> FlowState]
        /\ \A g \in Flow \ {f} : flow'[g] = flow[g]
    BY <1>1, <1>4, <2>1, <2>2, <2>3, Begun DEF Control
  <2> QED
    BY <1>2, <1>3, <1>4, <2>1, <2>4
<1>5. CASE e = NoEngine /\ Wait(f, s, k, "fence2") /\ k = "delete"
  <2>1. KindAt(k, "fence2")
    BY <1>5 DEF KindAt, Control, Launching
  <2>2. /\ flow' \in [Flow -> FlowState] /\ Moved(f)
        /\ flow'[f].kind = k /\ flow'[f].session = s /\ flow'[f].pc = "fence2"
        /\ \A g \in Flow \ {f} : flow'[g] = flow[g]
    BY <1>5, <2>1, Waits DEF Control, Launching, Kind, PC
  <2> QED
    BY <1>2, <1>3, <1>5, <2>2
<1>6. CASE e = NoEngine /\ ~(k = "delete" /\ wiping # {})
  <2> DEFINE pc == IF k = "delete" THEN "hook" ELSE "record"
  <2>1. /\ r(NoEngine, pc) \in FlowState /\ r(NoEngine, pc).kind = k /\ r(NoEngine, pc).session = s
        /\ r(NoEngine, pc).pc = pc /\ r(NoEngine, pc).engine = NoEngine
    BY DEF FlowState, Kind, PC, Control
  <2>2. Enter(f, r(NoEngine, pc))
    BY <1>6 DEF Retire
  <2>3. KindAt(k, pc) /\ pc \notin Launching
    BY DEF KindAt, Control, Launching
  <2> HIDE DEF r
  <2>4. flow'[f] = r(NoEngine, pc) /\ Moved(f) /\ flow' \in [Flow -> FlowState]
        /\ \A g \in Flow \ {f} : flow'[g] = flow[g]
    BY <2>1, <2>2, <2>3, Begun DEF Control
  <2> QED
    BY <1>2, <1>3, <1>6, <2>1, <2>4
<1> QED
  BY <1>4, <1>5, <1>6 DEF Retire

LEMMA ControlWithEngineKeeps ==
    ASSUME Shaped, NEW f \in Flow, NEW s \in Session, NEW k \in Control, ControlWithEngine(f, s, k)
    PROVE  Shaped' /\ Arms
<1>0. Types
  BY TypesOf DEF Shaped
<1>1. UNCHANGED <<row, status, engine, registry, recovered, dropping, clearing, dir>>
      /\ Request(k) /\ Retire(f, s, k) /\ flow[f] = NoFlow
  BY DEF ControlWithEngine, table
<1>2. Types'
  BY <1>0, <1>1, RetireIs, Charged, NothingHeld DEF Types
<1> QED
  BY <1>1, <1>2, RetireIs, Still, NothingHeld

LEMMA ControlBeginKeeps ==
    ASSUME Shaped, NEW f \in Flow, ControlBegin(f) PROVE Shaped' /\ Arms
<1>0. Types /\ flow[f] \in FlowState /\ FlowFine(f)
  BY TypesOf DEF Shaped, Types
<1> DEFINE s == flow[f].session
           k == flow[f].kind
<1>1. UNCHANGED <<row, status, engine, registry, recovered, dropping, clearing, dir, requests, faults>>
      /\ flow[f].pc = "enter" /\ k \in {"stop", "delete"} /\ s \in Session
  BY <1>0 DEF ControlBegin, table, ghost, FlowFine, KindFine, KindAt
<1>2. CASE Leave(f) /\ UNCHANGED <<stopMark, stopped, reconnect, wiping>>
  <2>1. Types'
    BY <1>0, <1>1, <1>2, Left DEF Types
  <2> QED
    BY <1>0, <1>1, <1>2, <2>1, Left, Still
<1>3. CASE k = "delete" /\ Wait(f, s, k, "fence") /\ UNCHANGED <<stopMark, stopped, reconnect, wiping>>
  <2>0. KindAt(k, "fence")
    BY <1>3 DEF KindAt, Control, Launching
  <2>1. flow' \in [Flow -> FlowState] /\ Moved(f) /\ \A g \in Flow \ {f} : flow'[g] = flow[g]
    BY <1>1, <1>3, <2>0, Waits DEF Launching, Kind, PC, Control
  <2>2. Types'
    BY <1>0, <1>1, <1>3, <2>1 DEF Types
  <2> QED
    BY <1>1, <2>1, <2>2, Still
<1>4. CASE Retire(f, s, k)
  <2>1. Types'
    BY <1>0, <1>1, <1>4, RetireIs DEF Types, Control
  <2> QED
    BY <1>1, <1>4, <2>1, RetireIs, Still DEF Control
<1> QED
  BY <1>2, <1>3, <1>4 DEF ControlBegin

LEMMA DeleteFencedKeeps ==
    ASSUME Shaped, NEW f \in Flow, DeleteFenced(f) PROVE Shaped' /\ Arms
<1>0. Types /\ flow[f] \in FlowState /\ FlowFine(f)
  BY TypesOf DEF Shaped, Types
<1>1. UNCHANGED <<row, status, engine, registry, recovered, dropping, clearing, dir, requests, faults>>
      /\ flow[f].kind = "delete" /\ flow[f].session \in Session
      /\ Retire(f, flow[f].session, "delete")
  BY <1>0 DEF DeleteFenced, table, ghost, FlowFine, KindFine
<1>2. Types'
  BY <1>0, <1>1, RetireIs DEF Types, Control
<1> QED
  BY <1>1, <1>2, RetireIs, Still DEF Control

-----------------------------------------------------------------------------
\* Engines that are torn down.

LEMMA Emptied ==
    ASSUME Shaped, NEW s \in Session, NEW e \in Engine \cup {NoEngine},
           e # NoEngine => engine[e].owner = s,
           engine' = Torn(engine, e), registry' = [registry EXCEPT ![s] = NoEngine]
    PROVE  /\ engine' \in EngineTable /\ registry' \in [Session -> Engine \cup {NoEngine}]
           /\ \A d \in Engine : Steady(d) /\ engine'[d].owner = engine[d].owner
           /\ \A t \in Session : registry'[t] \in {registry[t], NoEngine}
<1>0. TypeOK /\ engine \in EngineTable /\ registry \in [Session -> Engine \cup {NoEngine}]
  BY DEF Shaped, TypeOK, EngineTable
<1>1. /\ engine' \in EngineTable
      /\ \A d \in Engine : engine'[d].owner = engine[d].owner
      /\ \A d \in Engine \ {e} : engine'[d] = engine[d]
      /\ e # NoEngine => engine'[e].phase = "torn"
  BY <1>0, TornIs
<1>2. ASSUME NEW t \in Session, e # NoEngine PROVE registry'[t] # e
  BY <1>0, <1>2 DEF TypeOK
<1>3. ASSUME NEW d \in Engine PROVE Steady(d)
  <2>1. CASE d = e
    BY <2>1, <1>1, <1>2, LifecycleAssumption DEF Steady
  <2>2. CASE d # e
    BY <2>2, <1>1 DEF Steady
  <2> QED
    BY <2>1, <2>2
<1> QED
  BY <1>0, <1>1, <1>3

LEMMA Downed ==
    ASSUME Shaped, NEW e \in Engine \cup {NoEngine},
           engine' = Torn(engine, e), registry' = DeleteIfLive(e)
    PROVE  /\ engine' \in EngineTable /\ registry' \in [Session -> Engine \cup {NoEngine}]
           /\ \A d \in Engine : Steady(d) /\ engine'[d].owner = engine[d].owner
           /\ \A t \in Session : registry'[t] \in {registry[t], NoEngine}
<1>0. Types /\ engine \in EngineTable
  BY TypesOf DEF Shaped, Types, EngineTable
<1>1. /\ engine' \in EngineTable
      /\ \A d \in Engine : engine'[d].owner = engine[d].owner
      /\ \A d \in Engine \ {e} : engine'[d] = engine[d]
      /\ e # NoEngine => engine'[e].phase = "torn"
  BY <1>0, TornIs
<1>2. /\ registry' \in [Session -> Engine \cup {NoEngine}]
      /\ \A t \in Session : /\ registry'[t] \in {registry[t], NoEngine}
                            /\ e # NoEngine => registry'[t] # e
  BY <1>0, Unregistered
<1>3. ASSUME NEW d \in Engine PROVE Steady(d)
  <2>1. CASE d = e
    BY <2>1, <1>1, <1>2, LifecycleAssumption DEF Steady
  <2>2. CASE d # e
    BY <2>2, <1>1 DEF Steady
  <2> QED
    BY <2>1, <2>2
<1> QED
  BY <1>1, <1>2, <1>3

ReconnectTable == [Session -> {"none", "dormant", "armed", "spent"}]

LEMMA FailsIs ==
    ASSUME Shaped, NEW f \in Flow, NEW sta \in [Session -> Status], Fails(f, engine, sta)
    PROVE  /\ engine' = Torn(engine, registry[flow[f].session])
           /\ registry' = [registry EXCEPT ![flow[f].session] = NoEngine]
           /\ flow[f].session \in Session /\ flow[f].kind \in {"start", "attempt"}
           /\ status' \in [Session -> Status] /\ reconnect' \in ReconnectTable
           /\ requests' \in Nat /\ faults' \in Nat
           /\ flow' \in [Flow -> FlowState] /\ Moved(f)
           /\ \/ flow'[f] = NoFlow
              \/ flow'[f].pc = "failed" /\ flow'[f].session = flow[f].session /\ flow'[f].kind = flow[f].kind
           /\ \A g \in Flow \ {f} : flow'[g] = flow[g]
           /\ engine' \in EngineTable /\ registry' \in [Session -> Engine \cup {NoEngine}]
           /\ \A d \in Engine : Steady(d)
           /\ \A t \in Session : registry'[t] \in {registry[t], NoEngine}
<1> DEFINE s == flow[f].session
           e == registry[s]
<1>0. TypeOK /\ Types /\ FlowFine(f)
  BY TypesOf DEF Shaped
<1>1. flow[f].kind \in {"start", "attempt"} /\ s \in Session
  BY <1>0 DEF Fails, FlowFine, KindFine
<1>2. e \in Engine \cup {NoEngine} /\ (e # NoEngine => engine[e].owner = s)
  BY <1>0, <1>1 DEF TypeOK
<1>3. engine' = Torn(engine, e) /\ registry' = [registry EXCEPT ![s] = NoEngine]
  <2>1. [registry EXCEPT ![s] = NoEngine][s] = NoEngine
    BY <1>0, <1>1 DEF Types
  <2>2. [[registry EXCEPT ![s] = NoEngine] EXCEPT ![s] = NoEngine] = [registry EXCEPT ![s] = NoEngine]
    BY <1>0, <1>1 DEF Types
  <2> QED
    BY <2>1, <2>2 DEF Fails, Reschedule, Torn
<1>4. requests' \in Nat /\ faults' \in Nat
  <2>1. UNCHANGED ghost \/ \E x : Fault(x)
    BY DEF Fails, Reschedule
  <2> QED
    BY <2>1, <1>0, Charged
<1>5. status' \in [Session -> Status] /\ reconnect' \in ReconnectTable
  BY <1>0, <1>1 DEF Fails, Reschedule, Types, ReconnectTable, Status
<1>6. /\ engine' \in EngineTable /\ registry' \in [Session -> Engine \cup {NoEngine}]
      /\ \A d \in Engine : Steady(d) /\ engine'[d].owner = engine[d].owner
      /\ \A t \in Session : registry'[t] \in {registry[t], NoEngine}
  BY <1>1, <1>2, <1>3, Emptied
<1>7. CASE Leave(f)
  BY <1>0, <1>1, <1>3, <1>4, <1>5, <1>6, <1>7, Left
<1>8. CASE flow[f].kind = "start" /\ Goto(f, "failed")
  <2>1. KindAt(flow[f].kind, "failed")
    BY <1>8 DEF KindAt, Launching, Control
  <2>2. /\ flow' \in [Flow -> FlowState] /\ Moved(f) /\ flow'[f].pc = "failed"
        /\ flow'[f].session = flow[f].session /\ flow'[f].kind = flow[f].kind
        /\ \A g \in Flow \ {f} : flow'[g] = flow[g]
    BY <1>6, <1>8, <2>1, Went DEF PC, Launching
  <2> QED
    BY <1>1, <1>3, <1>4, <1>5, <1>6, <2>2
<1> QED
  BY <1>7, <1>8 DEF Fails

\* A flow that fails, the row, the marks and the disk unchanged.
LEMMA FailsKeeps ==
    ASSUME Shaped, NEW f \in Flow, NEW sta \in [Session -> Status], Fails(f, engine, sta),
           UNCHANGED <<row, marks, dropping, disk>>
    PROVE  Shaped' /\ Arms
<1>0. Types
  BY TypesOf DEF Shaped
<1>1. Types'
  BY <1>0, FailsIs DEF Types, marks, disk, EngineTable, ReconnectTable
<1>2. \A g \in Flow : flow'[g] = flow[g] \/ Moved(g)
  BY FailsIs
<1> QED
  BY <1>1, <1>2, FailsIs, Onward

LEMMA RegisterTypes ==
    ASSUME Types, NEW f \in Flow, NEW s \in Session, NEW k \in {"start", "attempt"},
           NEW reg \in [Session -> Engine \cup {NoEngine}], NEW eng \in EngineTable,
           Register(f, s, k, reg, eng)
    PROVE  /\ engine' \in EngineTable /\ registry' \in [Session -> Engine \cup {NoEngine}]
           /\ flow' \in [Flow -> FlowState]
  BY DEF Types, Register, Enter, Available, EngineTable, Phase, FlowState, Kind, PC

-----------------------------------------------------------------------------
\* Starts and launches.

LEMMA StartFencedKeeps ==
    ASSUME Shaped, NEW f \in Flow, StartFenced(f) PROVE Shaped' /\ Arms
<1>0. Types /\ FlowFine(f)
  BY TypesOf DEF Shaped
<1>1. UNCHANGED <<row, status, engine, registry, recovered, dropping, wiping, clearing, dir, requests, faults>>
      /\ Accept(f, flow[f].session) /\ flow[f].session \in Session
  BY <1>0 DEF StartFenced, table, disk, ghost, FlowFine, KindFine
<1>2. Types'
  BY <1>0, <1>1, Accepted DEF Types
<1> QED
  BY <1>1, <1>2, Accepted, Still

LEMMA StartRegisterKeeps ==
    ASSUME Shaped, NEW f \in Flow, StartRegister(f) PROVE Shaped' /\ Arms
<1>0. Types /\ FlowFine(f) /\ engine \in EngineTable /\ registry \in [Session -> Engine \cup {NoEngine}]
  BY TypesOf DEF Shaped, Types, EngineTable
<1>1. UNCHANGED <<row, status, stopMark, stopped, dropping, wiping, clearing, dir, requests, faults>>
      /\ Register(f, flow[f].session, "start", registry, engine) /\ flow[f].session \in Session
      /\ reconnect' \in ReconnectTable /\ recovered' \in SUBSET Session
  BY <1>0 DEF StartRegister, table, disk, ghost, FlowFine, KindFine, ReconnectTable, Types
<1>2. Types'
  BY <1>0, <1>1, RegisterTypes DEF Types, EngineTable, ReconnectTable
<1> QED
  BY <1>0, <1>1, <1>2, Build DEF EngineTable

LEMMA StartFailedKeeps ==
    ASSUME Shaped, NEW f \in Flow, StartFailed(f) PROVE Shaped' /\ Arms
<1>0. Types /\ FlowFine(f)
  BY TypesOf DEF Shaped
<1>1. UNCHANGED <<row, engine, registry, stopMark, stopped, recovered, dropping, wiping, clearing, dir, requests, faults>>
      /\ Leave(f) /\ status' \in [Session -> Status] /\ reconnect' \in ReconnectTable
  <2>1. flow[f].session \in Session
    BY <1>0 DEF StartFailed, FlowFine, KindFine, KindAt
  <2> QED
    BY <1>0, <2>1, Written DEF StartFailed, marks, disk, ghost, Status, Types, ReconnectTable
<1>2. Types'
  BY <1>0, <1>1, Left DEF Types, ReconnectTable
<1> QED
  BY <1>0, <1>1, <1>2, Left, Still

\* What a flow holds once its launch has returned.
LEMMA Returned ==
    ASSUME Shaped, NEW f \in Flow, AfterInit(f), flow[f].pc \in Launching,
           \A e \in Engine : engine'[e].owner = engine[e].owner
    PROVE  /\ flow' \in [Flow -> FlowState] /\ Moved(f)
           /\ flow'[f].session = flow[f].session /\ flow'[f].kind = flow[f].kind
           /\ flow'[f].pc \in {"guard", "residue", "retire"}
           /\ \A g \in Flow \ {f} : flow'[g] = flow[g]
<1> DEFINE s == flow[f].session
           e == registry[s]
           pc == IF e = NoEngine THEN "residue" ELSE "retire"
           r == [flow[f] EXCEPT !.engine = e, !.pc = pc]
<1>0. TypeOK /\ Types /\ FlowFine(f) /\ flow[f] \in FlowState
  BY TypesOf DEF Shaped, Types
<1>1. flow[f].kind \in {"start", "attempt"} /\ s \in Session
  BY <1>0 DEF FlowFine, KindFine, KindAt
<1>2. CASE Goto(f, "guard")
  <2>1. KindAt(flow[f].kind, "guard")
    BY <1>1 DEF KindAt, Launching, Control
  <2> QED
    BY <1>1, <1>2, <2>1, Went DEF PC, Launching
<1>3. CASE Enter(f, r)
  <2>1. e \in Engine \cup {NoEngine} /\ (e # NoEngine => engine[e].owner = s)
    BY <1>0, <1>1 DEF TypeOK
  <2>2. /\ r \in FlowState /\ r.kind = flow[f].kind /\ r.session = s /\ r.pc = pc
        /\ r.engine = e
    BY <1>0, <2>1 DEF FlowState, PC
  <2>3. KindAt(flow[f].kind, pc) /\ pc \in {"residue", "retire"}
    BY <1>1 DEF KindAt, Launching, Control
  <2>4. pc = "retire" => e # NoEngine
    OBVIOUS
  <2> HIDE DEF r, pc
  <2>5. flow'[f] = r /\ Moved(f) /\ flow' \in [Flow -> FlowState]
        /\ \A g \in Flow \ {f} : flow'[g] = flow[g]
    BY <1>1, <1>3, <2>1, <2>2, <2>3, <2>4, Begun DEF Launching
  <2> QED
    BY <2>2, <2>3, <2>5
<1> QED
  BY <1>2, <1>3 DEF AfterInit

LEMMA SavedKeeps ==
    ASSUME Shaped, NEW f \in Flow, Saved(f) PROVE Shaped' /\ Arms
<1>0. Types /\ FlowFine(f) /\ flow[f] \in FlowState
  BY TypesOf DEF Shaped, Types
<1>1. UNCHANGED <<row, registry, stopMark, stopped, recovered, reconnect, dropping, wiping, clearing, requests, faults>>
      /\ flow[f].pc = "saving" /\ flow[f].session \in Session /\ flow[f].engine \in Engine
      /\ flow[f].kind \in {"start", "attempt"} /\ status' \in [Session -> Status]
  <2>1. flow[f].pc = "saving" /\ flow[f].session \in Session /\ flow[f].engine \in Engine
        /\ flow[f].kind \in {"start", "attempt"}
    BY <1>0 DEF Saved, FlowFine, KindFine, KindAt, Launching, FlowState
  <2> QED
    BY <1>0, <2>1, Written DEF Saved, marks, ghost, Status
<1>2. CASE AfterInit(f) /\ UNCHANGED <<engine, dir>>
  <2>1. Types'
    BY <1>0, <1>1, <1>2, Returned DEF Types, Launching
  <2> QED
    BY <1>1, <1>2, <2>1, Returned, Still DEF Launching
<1>3. CASE /\ IsLive(flow[f].engine)
           /\ engine' = [engine EXCEPT ![flow[f].engine].phase = "launching"]
           /\ dir' = flow[f].engine
           /\ Goto(f, "launching")
  <2>1. PICK e \in Engine : e = flow[f].engine
    BY <1>1
  <2>2. /\ engine' \in EngineTable
        /\ \A d \in Engine : engine'[d].owner = engine[d].owner
        /\ \A d \in Engine \ {e} : engine'[d] = engine[d]
        /\ engine'[e].phase = "launching"
    BY <1>0, <1>3, <2>1, Rephased DEF Phase
  <2>3. KindAt(flow[f].kind, "launching")
    BY <1>1 DEF KindAt, Launching, Control
  <2>4. /\ flow' \in [Flow -> FlowState] /\ Moved(f) /\ flow'[f].pc = "launching"
        /\ \A g \in Flow \ {f} : flow'[g] = flow[g]
    BY <1>1, <1>3, <2>1, <2>2, <2>3, Went, LifecycleAssumption DEF Launching, PC
  <2>5. Types'
    BY <1>0, <1>1, <1>3, <2>1, <2>2, <2>4 DEF Types, EngineTable
  <2>6. Unsaved(e)
    BY <1>0, <1>1, <2>1, <2>4 DEF Unsaved, FlowFine, Shaped, Launching
  <2>7. engine[e].phase = "built" /\ IsLive(e)
    BY <1>0, <1>1, <1>3, <2>1 DEF FlowFine
  <2>8. \A d \in Engine : Steady(d)
    BY <2>2, <2>6, <2>7 DEF Steady
  <2>9. \A g \in Flow : flow'[g] = flow[g] \/ Moved(g)
    BY <2>4
  <2> QED
    BY <1>1, <2>5, <2>8, <2>9, Onward
<1> QED
  BY <1>2, <1>3 DEF Saved

LEMMA LaunchedKeeps ==
    ASSUME Shaped, NEW f \in Flow, Launched(f) PROVE Shaped' /\ Arms
<1>0. Types /\ FlowFine(f) /\ flow[f] \in FlowState
  BY TypesOf DEF Shaped, Types
<1>1. UNCHANGED <<row, status, registry, stopMark, stopped, recovered, reconnect, dropping, wiping, clearing, dir, requests, faults>>
      /\ flow[f].pc = "launching" /\ flow[f].session \in Session /\ flow[f].engine \in Engine /\ AfterInit(f)
  BY <1>0 DEF Launched, table, marks, disk, ghost, FlowFine, KindFine, KindAt, Launching, FlowState
<1>2. PICK e \in Engine : e = flow[f].engine
  BY <1>1
<1>3. /\ engine' \in EngineTable
      /\ \A d \in Engine : engine'[d].owner = engine[d].owner
      /\ \A d \in Engine \ {e} : engine'[d] = engine[d]
      /\ engine'[e].phase \in {"up", engine[e].phase}
  <2>1. CASE engine' = [engine EXCEPT ![e].phase = "up"]
    BY <1>0, <2>1, Rephased DEF Phase
  <2>2. CASE engine' = engine
    BY <1>0, <2>2 DEF Types, EngineTable
  <2> QED
    BY <1>2, <2>1, <2>2 DEF Launched
<1>4. /\ flow' \in [Flow -> FlowState] /\ Moved(f) /\ flow'[f].pc \in {"guard", "residue", "retire"}
      /\ \A g \in Flow \ {f} : flow'[g] = flow[g]
  BY <1>1, <1>3, Returned DEF Launching
<1>5. Types'
  BY <1>0, <1>1, <1>3, <1>4 DEF Types, EngineTable
<1>6. Unsaved(e)
  BY <1>0, <1>1, <1>2, <1>4 DEF Unsaved, FlowFine, Shaped, Launching
<1>7. \A d \in Engine : Steady(d)
  BY <1>3, <1>6 DEF Steady
<1>8. \A g \in Flow : flow'[g] = flow[g] \/ Moved(g)
  BY <1>4
<1> QED
  BY <1>1, <1>5, <1>7, <1>8, Onward

LEMMA FailuresKeep ==
    ASSUME Shaped, NEW f \in Flow, LaunchAborted(f) \/ Rejected(f) \/ Reaped(f)
    PROVE  Shaped' /\ Arms
<1>0. Types /\ FlowFine(f)
  BY TypesOf DEF Shaped
<1>1. UNCHANGED <<row, marks, dropping, disk>>
  BY DEF LaunchAborted, Rejected, Reaped
<1>2. flow[f].session \in Session
  BY <1>0 DEF LaunchAborted, Rejected, Reaped, FlowFine, KindFine, KindAt
<1>3. status \in [Session -> Status]
      /\ WithStatus(flow[f].session, "disconnected") \in [Session -> Status]
  BY <1>0, <1>2, Written DEF Types, Status
<1> QED
  BY <1>1, <1>3, FailsKeeps DEF LaunchAborted, Rejected, Reaped

LEMMA LaunchRejectedKeeps ==
    ASSUME Shaped, NEW f \in Flow, LaunchRejected(f) PROVE Shaped' /\ Arms
<1>0. Types /\ FlowFine(f) /\ flow[f] \in FlowState
  BY TypesOf DEF Shaped, Types
<1>1. UNCHANGED <<row, status, registry, stopMark, stopped, recovered, reconnect, dropping, wiping, clearing, dir>>
      /\ Fault("reject") /\ Goto(f, "failing")
      /\ flow[f].pc = "launching" /\ flow[f].engine \in Engine /\ flow[f].kind \in {"start", "attempt"}
  BY <1>0 DEF LaunchRejected, table, marks, disk, FlowFine, KindFine, KindAt, Launching, FlowState
<1>2. PICK e \in Engine : e = flow[f].engine
  BY <1>1
<1>3. /\ engine' \in EngineTable
      /\ \A d \in Engine : engine'[d].owner = engine[d].owner
      /\ \A d \in Engine \ {e} : engine'[d] = engine[d]
      /\ engine'[e].phase = "dead"
  BY <1>0, <1>2, Rephased DEF Phase, LaunchRejected
<1>4. /\ flow' \in [Flow -> FlowState] /\ Moved(f) /\ flow'[f].pc = "failing"
      /\ \A g \in Flow \ {f} : flow'[g] = flow[g]
  <2>1. KindAt(flow[f].kind, "failing")
    BY <1>1 DEF KindAt, Launching, Control
  <2> QED
    BY <1>1, <1>3, <2>1, Went DEF PC, Launching
<1>5. Types'
  BY <1>0, <1>1, <1>3, <1>4, Charged DEF Types, EngineTable
<1>6. Unsaved(e)
  BY <1>0, <1>1, <1>2, <1>4 DEF Unsaved, FlowFine, Shaped, Launching
<1>7. \A d \in Engine : Steady(d)
  BY <1>3, <1>6 DEF Steady
<1>8. \A g \in Flow : flow'[g] = flow[g] \/ Moved(g)
  BY <1>4
<1> QED
  BY <1>1, <1>5, <1>7, <1>8, Onward

LEMMA LaunchHangsKeeps ==
    ASSUME Shaped, NEW f \in Flow, LaunchHangs(f) PROVE Shaped' /\ Arms
<1>0. Types /\ FlowFine(f) /\ flow[f] \in FlowState
  BY TypesOf DEF Shaped, Types
<1>1. UNCHANGED <<row, status, stopMark, stopped, recovered, reconnect, dropping, wiping, clearing, dir>>
      /\ Fault("hang") /\ Goto(f, "reap") /\ flow[f].session \in Session
      /\ flow[f].engine \in Engine /\ flow[f].kind \in {"start", "attempt"}
      /\ engine[flow[f].engine].owner = flow[f].session
      /\ engine' = Torn(engine, flow[f].engine)
      /\ registry' = [registry EXCEPT ![flow[f].session] = NoEngine]
  BY <1>0, LifecycleAssumption
     DEF LaunchHangs, table, marks, disk, FlowFine, KindFine, KindAt, Launching, FlowState
<1>2. /\ engine' \in EngineTable /\ registry' \in [Session -> Engine \cup {NoEngine}]
      /\ \A d \in Engine : Steady(d) /\ engine'[d].owner = engine[d].owner
      /\ \A t \in Session : registry'[t] \in {registry[t], NoEngine}
  BY <1>1, Emptied
<1>3. KindAt(flow[f].kind, "reap")
  BY <1>1 DEF KindAt, Launching, Control
<1>4. flow' \in [Flow -> FlowState] /\ Moved(f) /\ \A g \in Flow \ {f} : flow'[g] = flow[g]
  BY <1>1, <1>2, <1>3, Went DEF PC, Launching
<1>5. Types'
  BY <1>0, <1>1, <1>2, <1>4, Charged DEF Types, EngineTable
<1>6. \A g \in Flow : flow'[g] = flow[g] \/ Moved(g)
  BY <1>4
<1> QED
  BY <1>2, <1>5, <1>6, Onward

LEMMA SaveFailsKeeps ==
    ASSUME Shaped, NEW f \in Flow, SaveFails(f) PROVE Shaped' /\ Arms
<1>0. Types /\ FlowFine(f) /\ flow[f] \in FlowState
  BY TypesOf DEF Shaped, Types
<1> DEFINE r == [flow[f] EXCEPT !.pc = "failing"]
<1>1. UNCHANGED <<row, status, engine, registry, reconnect, recovered, dropping, wiping, clearing, dir>>
      /\ Fault("query") /\ stopMark' \in SUBSET Session /\ stopped' \in SUBSET stopMark' /\ flow[f].pc = "saving"
  BY <1>0 DEF SaveFails, Unmark, table, disk, Types
<1>2. /\ r \in FlowState /\ r.kind = flow[f].kind /\ r.session = flow[f].session
      /\ r.engine = flow[f].engine /\ r.pc = "failing"
  BY <1>0 DEF FlowState, PC
<1>3. flow' \in [Flow -> FlowState] /\ flow'[f] = r
      /\ \A g \in Flow \ {f} : flow'[g] \in {flow[g], NoFlow}
  <2> HIDE DEF r
  <2>1. flow' = [g \in Flow |-> IF g = f THEN r
                                 ELSE IF flow[g].pc = "initial" /\ flow[g].engine = flow[f].engine
                                      THEN NoFlow ELSE flow[g]]
    BY DEF SaveFails, r
  <2> QED
    BY <1>0, <1>2, <2>1, NothingHeld DEF Types
<1>4. flow[f].kind \in {"start", "attempt"} /\ flow[f].session \in Session
  BY <1>0, <1>1 DEF FlowFine, KindFine, KindAt, Launching
<1>5. Moved(f)
  <2>1. KindAt(flow[f].kind, "failing")
    BY <1>4 DEF KindAt, Launching, Control
  <2>2. KindFine(f)'
    BY <1>2, <1>3, <1>4, <2>1 DEF KindFine
  <2>3. flow[f].engine # NoEngine => engine[flow[f].engine].owner = flow[f].session
    BY <1>0 DEF FlowFine
  <2> HIDE DEF r
  <2> QED
    BY <1>1, <1>2, <1>3, <1>4, <2>2, <2>3, NothingHeld DEF Moved, Launching
<1>6. ASSUME NEW g \in Flow, flow'[g] = NoFlow PROVE Moved(g)
  BY <1>6, NothingHeld DEF Moved, KindFine, KindAt, Launching, Control
<1>7. \A g \in Flow : flow'[g] = flow[g] \/ Moved(g)
  BY <1>3, <1>5, <1>6
<1>8. Types'
  BY <1>0, <1>1, <1>3, Charged DEF Types
<1> QED
  BY <1>1, <1>7, <1>8, Still

LEMMA GuardedKeeps ==
    ASSUME Shaped, NEW f \in Flow, Guarded(f) PROVE Shaped' /\ Arms
<1> DEFINE s == flow[f].session
           e == registry[s]
           pc == IF e = NoEngine THEN "residue" ELSE "retire"
           r == [flow[f] EXCEPT !.engine = e, !.pc = pc]
<1>0. TypeOK /\ Types /\ FlowFine(f) /\ flow[f] \in FlowState
  BY TypesOf DEF Shaped, Types
<1>1. UNCHANGED <<row, status, engine, registry, stopMark, stopped, recovered, reconnect, dropping, wiping, clearing, dir, requests, faults>>
      /\ flow[f].kind \in {"start", "attempt"} /\ s \in Session
  BY <1>0 DEF Guarded, table, marks, disk, ghost, FlowFine, KindFine, KindAt
<1>2. CASE Leave(f)
  <2>1. Types'
    BY <1>0, <1>1, <1>2, Left DEF Types
  <2> QED
    BY <1>0, <1>1, <1>2, <2>1, Left, Still
<1>3. CASE Enter(f, r)
  <2>1. e \in Engine \cup {NoEngine} /\ (e # NoEngine => engine[e].owner = s)
    BY <1>0, <1>1 DEF TypeOK
  <2>2. /\ r \in FlowState /\ r.kind = flow[f].kind /\ r.session = s /\ r.pc = pc
        /\ r.engine = e
    BY <1>0, <2>1 DEF FlowState, PC
  <2>3. KindAt(flow[f].kind, pc) /\ pc \in {"residue", "retire"} /\ (pc = "retire" => e # NoEngine)
    BY <1>1 DEF KindAt, Launching, Control
  <2> HIDE DEF r, pc
  <2>4. Moved(f) /\ flow' \in [Flow -> FlowState] /\ \A g \in Flow \ {f} : flow'[g] = flow[g]
    BY <1>1, <1>3, <2>1, <2>2, <2>3, Begun DEF Launching
  <2>5. Types'
    BY <1>0, <1>1, <2>4 DEF Types
  <2> QED
    BY <1>1, <2>4, <2>5, Still
<1> QED
  BY <1>2, <1>3 DEF Guarded

LEMMA RetiredKeeps ==
    ASSUME Shaped, NEW f \in Flow, Retired(f) PROVE Shaped' /\ Arms
<1>0. Types /\ FlowFine(f) /\ flow[f] \in FlowState
  BY TypesOf DEF Shaped, Types
<1>1. UNCHANGED <<row, status, stopMark, stopped, recovered, reconnect, dropping, wiping, clearing, dir, requests, faults>>
      /\ flow[f].kind \in {"start", "attempt"} /\ flow[f].engine \in Engine \cup {NoEngine}
      /\ Goto(f, "residue")
      /\ engine' = Torn(engine, flow[f].engine) /\ registry' = DeleteIfLive(flow[f].engine)
  BY <1>0 DEF Retired, table, marks, disk, ghost, FlowFine, KindFine, KindAt, FlowState
<1>2. /\ engine' \in EngineTable /\ registry' \in [Session -> Engine \cup {NoEngine}]
      /\ \A d \in Engine : Steady(d) /\ engine'[d].owner = engine[d].owner
      /\ \A t \in Session : registry'[t] \in {registry[t], NoEngine}
  BY <1>1, Downed
<1>3. KindAt(flow[f].kind, "residue")
  BY <1>1 DEF KindAt, Launching, Control
<1>4. flow' \in [Flow -> FlowState] /\ Moved(f) /\ \A g \in Flow \ {f} : flow'[g] = flow[g]
  BY <1>1, <1>2, <1>3, Went DEF PC, Launching
<1>5. Types'
  BY <1>0, <1>1, <1>2, <1>4 DEF Types, EngineTable
<1>6. \A g \in Flow : flow'[g] = flow[g] \/ Moved(g)
  BY <1>4
<1> QED
  BY <1>2, <1>5, <1>6, Onward

LEMMA ResidueKeeps ==
    ASSUME Shaped, NEW f \in Flow, Residue(f) PROVE Shaped' /\ Arms
<1>0. Types /\ FlowFine(f) /\ flow[f] \in FlowState
  BY TypesOf DEF Shaped, Types
<1>1. UNCHANGED <<row, status, engine, registry, stopMark, stopped, recovered, reconnect, dropping, wiping, clearing, dir, requests, faults>>
      /\ flow[f].kind \in {"start", "attempt"}
  BY <1>0 DEF Residue, table, marks, disk, ghost, FlowFine, KindFine, KindAt
<1>2. flow' \in [Flow -> FlowState] /\ Moved(f) /\ \A g \in Flow \ {f} : flow'[g] = flow[g]
  <2>1. CASE Leave(f)
    BY <1>0, <2>1, Left
  <2>2. CASE Goto(f, "purge")
    <3>1. KindAt(flow[f].kind, "purge")
      BY <1>1 DEF KindAt, Launching, Control
    <3> QED
      BY <1>1, <2>2, <3>1, Went DEF PC, Launching
  <2> QED
    BY <2>1, <2>2 DEF Residue
<1>3. Types'
  BY <1>0, <1>1, <1>2 DEF Types
<1> QED
  BY <1>1, <1>2, <1>3, Still

LEMMA PurgedKeeps ==
    ASSUME Shaped, NEW f \in Flow, Purged(f) \/ DeletePurges(f) PROVE Shaped' /\ Arms
<1>0. Types
  BY TypesOf DEF Shaped
<1>1. UNCHANGED <<row, status, engine, registry, reconnect, dropping, wiping, clearing, requests, faults>>
      /\ Leave(f) /\ dir' = NoEngine /\ stopMark' \in SUBSET Session /\ stopped' \in SUBSET stopMark' /\ recovered' \in SUBSET Session
  BY <1>0 DEF Purged, DeletePurges, Unmark, table, marks, ghost, Types
<1>2. Types'
  BY <1>0, <1>1, Left DEF Types
<1> QED
  BY <1>0, <1>1, <1>2, Left, Still

-----------------------------------------------------------------------------
\* Reconnect attempts.

\* An attempt that goes on to build its engine, when e is down.
LEMMA Rebuilt ==
    ASSUME Shaped, NEW f \in Flow, NEW e \in Engine \cup {NoEngine}, flow[f].session \in Session,
           Register(f, flow[f].session, "attempt", DeleteIfLive(e), Torn(engine, e)),
           UNCHANGED <<table, marks, reconnect, dropping, disk, ghost>>
    PROVE  Shaped' /\ Arms
<1>0. Types /\ engine \in EngineTable
  BY TypesOf DEF Shaped, Types, EngineTable
<1>1. PICK eng \in EngineTable : eng = Torn(engine, e)
  BY <1>0, TornIs
<1>2. PICK reg \in [Session -> Engine \cup {NoEngine}] : reg = DeleteIfLive(e)
  BY <1>0, Unregistered
<1>3. Register(f, flow[f].session, "attempt", reg, eng)
  BY <1>1, <1>2
<1>4. Types'
  BY <1>0, <1>3, RegisterTypes DEF Types, table, marks, disk, ghost, EngineTable
<1>5. \A t \in Session : reg[t] \in {registry[t], NoEngine} /\ (e # NoEngine => reg[t] # e)
  BY <1>0, <1>2, Unregistered
<1>6. ASSUME NEW d \in Engine
      PROVE  /\ eng[d].owner = engine[d].owner
             /\ \/ eng[d].phase = engine[d].phase
                \/ eng[d].phase = "torn" /\ \A t \in Session : reg[t] # d
  <2>1. CASE d = e
    BY <2>1, <1>0, <1>1, <1>5, TornIs, LifecycleAssumption
  <2>2. CASE d # e
    BY <2>2, <1>0, <1>1, TornIs
  <2> QED
    BY <2>1, <2>2
<1> QED
  BY <1>3, <1>4, <1>5, <1>6, Build DEF EngineTable

LEMMA AttemptClearedKeeps ==
    ASSUME Shaped, NEW f \in Flow, AttemptCleared(f) PROVE Shaped' /\ Arms
<1> DEFINE e == flow[f].engine
           s == flow[f].session
<1>0. Types /\ FlowFine(f) /\ flow[f] \in FlowState
  BY TypesOf DEF Shaped, Types
<1>1. UNCHANGED <<table, marks, reconnect, dropping, disk, ghost>>
      /\ flow[f].kind = "attempt" /\ s \in Session /\ e \in Engine \cup {NoEngine}
  BY <1>0 DEF AttemptCleared, FlowFine, KindFine, FlowState
<1>2. CASE Register(f, s, "attempt", DeleteIfLive(e), Torn(engine, e))
  BY <1>1, <1>2, Rebuilt
<1>3. CASE Wait(f, s, "attempt", "fence") /\ engine' = Torn(engine, e) /\ registry' = DeleteIfLive(e)
  <2>1. /\ engine' \in EngineTable /\ registry' \in [Session -> Engine \cup {NoEngine}]
        /\ \A d \in Engine : Steady(d) /\ engine'[d].owner = engine[d].owner
        /\ \A t \in Session : registry'[t] \in {registry[t], NoEngine}
    BY <1>1, <1>3, Downed
  <2>2. KindAt("attempt", "fence")
    BY DEF KindAt, Launching, Control
  <2>3. flow' \in [Flow -> FlowState] /\ Moved(f) /\ \A g \in Flow \ {f} : flow'[g] = flow[g]
    BY <1>1, <1>3, <2>1, <2>2, Waits DEF Launching, Kind, PC
  <2>4. Types'
    BY <1>0, <1>1, <2>1, <2>3 DEF Types, EngineTable, table, marks, disk, ghost
  <2>5. \A g \in Flow : flow'[g] = flow[g] \/ Moved(g)
    BY <2>3
  <2> QED
    BY <2>1, <2>4, <2>5, Onward
<1> QED
  BY <1>2, <1>3 DEF AttemptCleared

LEMMA AttemptFencedKeeps ==
    ASSUME Shaped, NEW f \in Flow, AttemptFenced(f) PROVE Shaped' /\ Arms
<1>0. Types /\ FlowFine(f) /\ engine \in EngineTable /\ registry \in [Session -> Engine \cup {NoEngine}]
  BY TypesOf DEF Shaped, Types, EngineTable
<1>1. UNCHANGED <<table, marks, reconnect, dropping, disk, ghost>>
      /\ flow[f].session \in Session /\ Register(f, flow[f].session, "attempt", registry, engine)
  BY <1>0 DEF AttemptFenced, FlowFine, KindFine
<1>2. Types'
  BY <1>0, <1>1, RegisterTypes DEF Types, table, marks, disk, ghost, EngineTable
<1> QED
  BY <1>0, <1>1, <1>2, Build DEF EngineTable

LEMMA ReconnectFiresKeeps ==
    ASSUME Shaped, NEW f \in Flow, NEW s \in Session, ReconnectFires(f, s) PROVE Shaped' /\ Arms
<1> DEFINE e == registry[s]
           r == [kind |-> "attempt", session |-> s, pc |-> "teardown", engine |-> e, waits |-> {}]
<1>0. TypeOK /\ Types /\ engine \in EngineTable /\ registry \in [Session -> Engine \cup {NoEngine}]
  BY TypesOf DEF Shaped, Types, EngineTable
<1>1. UNCHANGED <<row, status, stopMark, stopped, recovered, dropping, wiping, clearing, dir, requests, faults>>
      /\ reconnect' \in ReconnectTable /\ flow[f] = NoFlow
  BY <1>0 DEF ReconnectFires, table, marks, disk, ghost, Types, ReconnectTable
<1>2. e \in Engine \cup {NoEngine} /\ (e # NoEngine => engine[e].owner = s)
  BY <1>0 DEF TypeOK
<1>3. CASE UNCHANGED <<engine, registry, flow>>
  <2>1. Types'
    BY <1>0, <1>1, <1>3 DEF Types, ReconnectTable
  <2> QED
    BY <1>3, <2>1, Still
<1>4. CASE Enter(f, r) /\ UNCHANGED <<engine, registry>>
  <2>1. r \in FlowState /\ r.kind = "attempt" /\ r.session = s /\ r.pc = "teardown" /\ r.engine = e
    BY <1>2 DEF FlowState, Kind, PC
  <2>2. KindAt("attempt", "teardown")
    BY DEF KindAt, Launching, Control
  <2> HIDE DEF r
  <2>3. flow' \in [Flow -> FlowState] /\ Moved(f) /\ \A g \in Flow \ {f} : flow'[g] = flow[g]
    BY <1>2, <1>4, <2>1, <2>2, Begun DEF Launching
  <2>4. Types'
    BY <1>0, <1>1, <1>4, <2>3 DEF Types, ReconnectTable
  <2> QED
    BY <1>4, <2>3, <2>4, Still
<1>5. CASE Register(f, s, "attempt", registry, engine)
  <2>1. Types'
    BY <1>0, <1>1, <1>5, RegisterTypes DEF Types, EngineTable, ReconnectTable
  <2> QED
    BY <1>0, <1>5, <2>1, Build DEF EngineTable
<1>6. CASE Wait(f, s, "attempt", "fence") /\ UNCHANGED <<engine, registry>>
  <2>1. KindAt("attempt", "fence")
    BY DEF KindAt, Launching, Control
  <2>2. flow' \in [Flow -> FlowState] /\ Moved(f) /\ \A g \in Flow \ {f} : flow'[g] = flow[g]
    BY <1>1, <1>6, <2>1, Waits, NothingHeld DEF Launching, Kind, PC
  <2>3. Types'
    BY <1>0, <1>1, <1>6, <2>2 DEF Types, ReconnectTable
  <2> QED
    BY <1>6, <2>2, <2>3, Still
<1> QED
  BY <1>3, <1>4, <1>5, <1>6 DEF ReconnectFires

LEMMA FenceRefusesKeeps ==
    ASSUME Shaped, NEW f \in Flow, FenceRefuses(f) PROVE Shaped' /\ Arms
<1>0. Types
  BY TypesOf DEF Shaped
<1>1. UNCHANGED <<row, marks, dropping, disk>>
  BY DEF FenceRefuses
<1>2. CASE Leave(f) /\ UNCHANGED <<status, engine, registry, reconnect, ghost>>
  <2>1. Types'
    BY <1>0, <1>1, <1>2, Left DEF Types, marks, disk, ghost
  <2> QED
    BY <1>0, <1>2, <2>1, Left, Still
<1>3. CASE Fails(f, engine, status)
  <2>1. status \in [Session -> Status]
    BY <1>0 DEF Types
  <2> QED
    BY <1>1, <1>3, <2>1, FailsKeeps
<1> QED
  BY <1>2, <1>3 DEF FenceRefuses

-----------------------------------------------------------------------------
\* Stop, logout, kill and delete.

LEMMA InitialAwaitedKeeps ==
    ASSUME Shaped, NEW f \in Flow, InitialAwaited(f) PROVE Shaped' /\ Arms
<1>0. Types /\ FlowFine(f) /\ flow[f] \in FlowState
  BY TypesOf DEF Shaped, Types
<1>1. UNCHANGED <<row, status, engine, registry, stopMark, stopped, recovered, reconnect, dropping, clearing, dir, requests, faults>>
      /\ Goto(f, "teardown") /\ flow[f].kind \in Control /\ flow[f].pc = "initial"
  BY <1>0 DEF InitialAwaited, table, marks, ghost, FlowFine, KindFine, KindAt
<1>2. wiping' \in SUBSET Engine
  <2>1. flow[f].engine \in Engine
    BY <1>0, <1>1 DEF FlowFine, FlowState
  <2> QED
    BY <1>0, <2>1 DEF InitialAwaited, Linked, Types
<1>3. KindAt(flow[f].kind, "teardown")
  BY <1>1 DEF KindAt, Launching, Control
<1>4. flow' \in [Flow -> FlowState] /\ Moved(f) /\ \A g \in Flow \ {f} : flow'[g] = flow[g]
  BY <1>1, <1>3, Went DEF PC, Launching, Control
<1>5. Types'
  BY <1>0, <1>1, <1>2, <1>4 DEF Types
<1> QED
  BY <1>1, <1>4, <1>5, Still

LEMMA TornDownKeeps ==
    ASSUME Shaped, NEW f \in Flow, TornDown(f) PROVE Shaped' /\ Arms
<1> DEFINE s == flow[f].session
           k == flow[f].kind
<1>0. Types /\ FlowFine(f) /\ flow[f] \in FlowState
  BY TypesOf DEF Shaped, Types
<1>1. UNCHANGED <<table, marks, reconnect, dropping, disk, ghost>>
      /\ k \in Control /\ k # "none" /\ s \in Session /\ flow[f].engine \in Engine \cup {NoEngine}
      /\ engine' = Torn(engine, flow[f].engine) /\ registry' = DeleteIfLive(flow[f].engine)
  BY <1>0 DEF TornDown, FlowFine, KindFine, FlowState, Control
<1>2. /\ engine' \in EngineTable /\ registry' \in [Session -> Engine \cup {NoEngine}]
      /\ \A d \in Engine : Steady(d) /\ engine'[d].owner = engine[d].owner
      /\ \A t \in Session : registry'[t] \in {registry[t], NoEngine}
  BY <1>1, Downed
<1>3. flow' \in [Flow -> FlowState] /\ Moved(f) /\ \A g \in Flow \ {f} : flow'[g] = flow[g]
  <2>1. CASE k = "delete" /\ Goto(f, "hook")
    <3>1. KindAt(k, "hook")
      BY <2>1 DEF KindAt, Launching, Control
    <3> QED
      BY <1>1, <1>2, <2>1, <3>1, Went DEF PC, Launching
  <2>2. CASE k = "delete" /\ Wait(f, s, k, "fence2")
    <3>1. KindAt(k, "fence2")
      BY <2>2 DEF KindAt, Launching, Control
    <3> QED
      BY <1>1, <1>2, <2>2, <3>1, Waits DEF Kind, PC, Launching, Control
  <2>3. CASE k # "delete" /\ Goto(f, "record")
    <3>1. KindAt(k, "record")
      BY <1>1, <2>3 DEF KindAt, Launching, Control
    <3> QED
      BY <1>1, <1>2, <2>3, <3>1, Went DEF PC, Launching
  <2> QED
    BY <2>1, <2>2, <2>3 DEF TornDown
<1>4. Types'
  BY <1>0, <1>1, <1>2, <1>3 DEF Types, EngineTable, table, marks, disk, ghost
<1>5. \A g \in Flow : flow'[g] = flow[g] \/ Moved(g)
  BY <1>3
<1> QED
  BY <1>2, <1>4, <1>5, Onward

\* The last write of a control, and what ends a flow where it is.
LEMMA EndsKeep ==
    ASSUME Shaped, NEW f \in Flow,
           Recorded(f) \/ DeleteRefused(f) \/ EnterRefused(f) \/ QueryFails(f)
    PROVE  Shaped' /\ Arms
<1>0. Types /\ FlowFine(f)
  BY TypesOf DEF Shaped
<1>1. UNCHANGED <<row, engine, registry, reconnect, recovered, dropping, disk>> /\ Leave(f)
      /\ stopMark' \in SUBSET Session /\ stopped' \in SUBSET stopMark'
      /\ (UNCHANGED ghost \/ Fault("query"))
  BY <1>0 DEF Recorded, DeleteRefused, EnterRefused, QueryFails, Unmark, table, marks, Types
<1>2. status' \in [Session -> Status]
  <2>1. Recorded(f) \/ DeleteRefused(f) => flow[f].session \in Session
    BY <1>0 DEF Recorded, DeleteRefused, FlowFine, KindFine, KindAt
  <2>2. status \in [Session -> Status]
    BY <1>0 DEF Types
  <2>3. CASE EnterRefused(f) \/ QueryFails(f)
    BY <2>2, <2>3 DEF EnterRefused, QueryFails, table
  <2>4. CASE Recorded(f) \/ DeleteRefused(f)
    BY <1>0, <2>1, <2>2, <2>4, Written DEF Recorded, DeleteRefused, Status
  <2> QED
    BY <2>3, <2>4
<1>3. Types'
  BY <1>0, <1>1, <1>2, Left, Charged DEF Types, disk
<1> QED
  BY <1>0, <1>1, <1>3, Left, Still

LEMMA DeleteStepsKeep ==
    ASSUME Shaped, NEW f \in Flow, DeleteFencedAgain(f) \/ DeleteCommits(f) PROVE Shaped' /\ Arms
<1>0. Types /\ FlowFine(f)
  BY TypesOf DEF Shaped
<1>1. UNCHANGED <<status, engine, registry, marks, reconnect, dropping, disk, ghost>>
      /\ row' \in [Session -> {"absent", "present", "deleted"}]
      /\ flow[f].kind = "delete"
  BY <1>0 DEF DeleteFencedAgain, DeleteCommits, table, Types, FlowFine, KindFine, KindAt
<1>2. flow' \in [Flow -> FlowState] /\ Moved(f) /\ \A g \in Flow \ {f} : flow'[g] = flow[g]
  <2>1. CASE flow[f].kind = "delete" /\ Goto(f, "hook")
    <3>1. KindAt(flow[f].kind, "hook")
      BY <2>1 DEF KindAt, Launching, Control
    <3> QED
      BY <1>1, <2>1, <3>1, Went DEF PC, Launching
  <2>2. CASE flow[f].kind = "delete" /\ Goto(f, "purge")
    <3>1. KindAt(flow[f].kind, "purge")
      BY <2>2 DEF KindAt, Launching, Control
    <3> QED
      BY <1>1, <2>2, <3>1, Went DEF PC, Launching
  <2> QED
    BY <1>1, <2>1, <2>2 DEF DeleteFencedAgain, DeleteCommits
<1>3. Types'
  BY <1>0, <1>1, <1>2 DEF Types, marks, disk, ghost
<1> QED
  BY <1>1, <1>2, <1>3, Still

-----------------------------------------------------------------------------
\* What an engine reports.

LEMMA WipedKeeps ==
    ASSUME Shaped, NEW e \in Engine, Wiped(e) \/ DropLost(e) PROVE Shaped' /\ Arms
<1>0. Types
  BY TypesOf DEF Shaped
<1>1. UNCHANGED <<row, status, engine, registry, stopMark, stopped, recovered, reconnect, flow, clearing>>
      /\ (UNCHANGED ghost \/ Fault("query"))
      /\ wiping' \in SUBSET Engine /\ dropping' \in SUBSET Engine /\ dir' \in Engine \cup {NoEngine}
  BY <1>0 DEF Wiped, DropLost, table, marks, disk, Types
<1>2. Types'
  BY <1>0, <1>1, Charged DEF Types
<1> QED
  BY <1>1, <1>2, Still

LEMMA DropHandledKeeps ==
    ASSUME Shaped, NEW e \in Engine, DropHandled(e) PROVE Shaped' /\ Arms
<1> DEFINE s == engine[e].owner
<1>0. TypeOK /\ Types /\ engine \in EngineTable
  BY TypesOf DEF Shaped, Types, EngineTable
<1>1. UNCHANGED <<row, marks, flow, disk>> /\ dropping' \in SUBSET Engine
  BY <1>0 DEF DropHandled, Types
<1>2. CASE UNCHANGED <<registry, engine, status, reconnect, ghost>>
  <2>1. Types'
    BY <1>0, <1>1, <1>2 DEF Types, marks, disk, ghost
  <2> QED
    BY <1>1, <1>2, <2>1, Still
<1>3. CASE Present(s) /\ IsLive(e) /\ Reschedule(s, registry, engine, WithStatus(s, "disconnected"))
  <2>1. s \in Session
    BY <1>0, <1>3 DEF IsLive, Types
  <2>2. status' \in [Session -> Status] /\ reconnect' \in ReconnectTable
    <3>1. WithStatus(s, "disconnected") \in [Session -> Status]
      BY <1>0, <2>1, Written DEF Status
    <3>2. reconnect' \in ReconnectTable
      BY <1>0, <1>3, <2>1 DEF Reschedule, Types, ReconnectTable
    <3>3. CASE status' = [WithStatus(s, "disconnected") EXCEPT ![s] = "failed"]
      BY <2>1, <3>1, <3>2, <3>3 DEF Status
    <3>4. CASE status' = WithStatus(s, "disconnected")
      BY <3>1, <3>2, <3>4
    <3> QED
      BY <1>3, <3>2, <3>3, <3>4 DEF Reschedule
  <2>3. requests' \in Nat /\ faults' \in Nat
    <3>1. UNCHANGED ghost \/ \E x : Fault(x)
      BY <1>3 DEF Reschedule
    <3> QED
      BY <3>1, <1>0, Charged
  <2>4. CASE UNCHANGED <<engine, registry>>
    <3>1. Types'
      BY <1>0, <1>1, <2>2, <2>3, <2>4 DEF Types, marks, disk, ReconnectTable
    <3> QED
      BY <1>1, <2>4, <3>1, Still
  <2>5. CASE engine' = Torn(engine, registry[s]) /\ registry' = [registry EXCEPT ![s] = NoEngine]
    <3>1. registry[s] \in Engine \cup {NoEngine} /\ (registry[s] # NoEngine => engine[registry[s]].owner = s)
      BY <1>0, <2>1 DEF TypeOK
    <3>2. /\ engine' \in EngineTable /\ registry' \in [Session -> Engine \cup {NoEngine}]
          /\ \A d \in Engine : Steady(d)
          /\ \A t \in Session : registry'[t] \in {registry[t], NoEngine}
      BY <2>1, <2>5, <3>1, Emptied
    <3>3. Types'
      BY <1>0, <1>1, <2>2, <2>3, <3>2 DEF Types, marks, disk, EngineTable, ReconnectTable
    <3> QED
      BY <1>1, <3>2, <3>3, Onward
  <2> QED
    BY <1>3, <2>4, <2>5 DEF Reschedule
<1> QED
  BY <1>2, <1>3 DEF DropHandled

\* Nobody saves an engine that has been launched and is registered.
LEMMA RunningIsSaved ==
    ASSUME Shaped, NEW e \in Engine, IsLive(e), engine[e].phase # "built", UNCHANGED flow
    PROVE  Unsaved(e)
  BY DEF Unsaved, Shaped, FlowFine

\* A registered engine dies.
LEMMA Dies ==
    ASSUME Shaped, NEW e \in Engine, IsLive(e), engine[e].phase # "built",
           engine' = [engine EXCEPT ![e].phase = "dead"], UNCHANGED <<flow, registry>>
    PROVE  engine' \in EngineTable /\ \A d \in Engine : Steady(d)
<1>0. Types
  BY TypesOf DEF Shaped
<1>1. /\ engine' \in EngineTable
      /\ \A d \in Engine : engine'[d].owner = engine[d].owner
      /\ \A d \in Engine \ {e} : engine'[d] = engine[d]
      /\ engine'[e].phase = "dead"
  BY <1>0, Rephased DEF Phase
<1> QED
  BY <1>1, RunningIsSaved DEF Steady

LEMMA DropsKeep ==
    ASSUME Shaped, NEW e \in Engine, Drops(e) \/ Unlinked(e) PROVE Shaped' /\ Arms
<1>0. Types
  BY TypesOf DEF Shaped
<1>1. UNCHANGED <<row, status, registry, stopMark, stopped, recovered, reconnect, flow, clearing, dir>>
      /\ IsLive(e) /\ engine[e].phase # "built" /\ engine' = [engine EXCEPT ![e].phase = "dead"]
      /\ dropping' \in SUBSET Engine /\ wiping' \in SUBSET Engine
      /\ requests' \in Nat /\ faults' \in Nat
  BY <1>0, Charged DEF Drops, Unlinked, table, marks, disk, Types
<1>2. engine' \in EngineTable /\ \A d \in Engine : Steady(d)
  BY <1>1, Dies
<1>3. Types'
  BY <1>0, <1>1, <1>2 DEF Types, EngineTable
<1> QED
  BY <1>1, <1>2, <1>3, Onward

LEMMA ClearedKeeps ==
    ASSUME Shaped, NEW e \in Engine, Cleared(e) PROVE Shaped' /\ Arms
<1>0. Types /\ engine \in EngineTable
  BY TypesOf DEF Shaped, Types, EngineTable
<1>1. UNCHANGED <<row, status, registry, stopMark, stopped, recovered, reconnect, flow, wiping, requests, faults>>
      /\ clearing' \in SUBSET Engine /\ dir' = NoEngine /\ dropping' \in SUBSET Engine
  BY <1>0 DEF Cleared, table, marks, ghost, Types
<1>2. engine' \in EngineTable /\ \A d \in Engine : Steady(d)
  <2>1. CASE IsLive(e) /\ engine[e].phase = "up" /\ engine' = [engine EXCEPT ![e].phase = "dead"]
    BY <1>1, <2>1, Dies
  <2>2. CASE UNCHANGED engine
    BY <1>0, <2>2 DEF Steady
  <2> QED
    BY <2>1, <2>2 DEF Cleared
<1>3. Types'
  BY <1>0, <1>1, <1>2 DEF Types, EngineTable
<1> QED
  BY <1>1, <1>2, <1>3, Onward

\* A registered engine fails for good.
LEMMA FailsForGood ==
    ASSUME Shaped, NEW e \in Engine, IsLive(e), NEW b, EngineFails(e, b)
    PROVE  /\ engine' \in EngineTable /\ registry' \in [Session -> Engine \cup {NoEngine}]
           /\ status' \in [Session -> Status] /\ reconnect' \in ReconnectTable
           /\ \A d \in Engine : Steady(d)
           /\ \A t \in Session : registry'[t] \in {registry[t], NoEngine}
<1>0. Types
  BY TypesOf DEF Shaped
<1>1. engine[e].owner \in Session
  BY <1>0 DEF IsLive, Types
<1>2. /\ engine' \in EngineTable /\ registry' \in [Session -> Engine \cup {NoEngine}]
      /\ \A d \in Engine : Steady(d)
      /\ \A t \in Session : registry'[t] \in {registry[t], NoEngine}
  BY <1>1, Emptied DEF EngineFails
<1>3. status' \in [Session -> Status] /\ reconnect' \in ReconnectTable
  BY <1>0, <1>1, Written DEF EngineFails, Types, ReconnectTable, Status
<1> QED
  BY <1>2, <1>3

LEMMA ErrsKeep ==
    ASSUME Shaped, NEW e \in Engine, Errs(e) \/ Stuck(e) PROVE Shaped' /\ Arms
<1>0. Types
  BY TypesOf DEF Shaped
<1>1. UNCHANGED <<row, stopMark, stopped, flow, dropping, wiping, dir>> /\ IsLive(e)
  BY DEF Errs, Stuck, marks, disk
<1>2. requests' \in Nat /\ faults' \in Nat
  <2>1. Fault("error") \/ Fault("stuck")
    BY DEF Errs, Stuck, EngineFails
  <2> QED
    BY <2>1, <1>0, Charged
<1>3. CASE (EngineFails(e, Fault("error")) \/ EngineFails(e, Fault("stuck"))) /\ UNCHANGED <<recovered, clearing>>
  <2>1. /\ engine' \in EngineTable /\ registry' \in [Session -> Engine \cup {NoEngine}]
        /\ status' \in [Session -> Status] /\ reconnect' \in ReconnectTable
        /\ \A d \in Engine : Steady(d)
        /\ \A t \in Session : registry'[t] \in {registry[t], NoEngine}
    BY <1>1, <1>3, FailsForGood
  <2>2. Types'
    BY <1>0, <1>1, <1>2, <1>3, <2>1 DEF Types, EngineTable, ReconnectTable
  <2> QED
    BY <1>1, <2>1, <2>2, Onward
<1>4. CASE Stuck(e) /\ UNCHANGED <<status, engine, registry, reconnect>>
  <2>1. recovered' \in SUBSET Session /\ clearing' \in SUBSET Engine
    BY <1>0, <1>1, <1>4 DEF Stuck, IsLive, Types
  <2>2. Types'
    BY <1>0, <1>1, <1>2, <1>4, <2>1 DEF Types
  <2> QED
    BY <1>1, <1>4, <2>2, Still
<1> QED
  BY <1>3, <1>4 DEF Errs, Stuck, marks, disk

-----------------------------------------------------------------------------
\* The types hold, and what is launched was built and is still registered.

LEMMA Booted == Init => Shaped
<1> SUFFICES ASSUME Init PROVE Shaped
  OBVIOUS
<1>1. TypeOK
  BY LifecycleAssumption, NothingHeld DEF Init, TypeOK, Status, Phase
<1>2. ASSUME NEW f \in Flow PROVE FlowFine(f)
  <2>1. \A g \in Flow : flow[g] = NoFlow
    BY DEF Init
  <2> QED
    BY <2>1, NothingHeld DEF FlowFine, KindFine, KindAt, Launching, Control
<1> QED
  BY <1>1, <1>2 DEF Shaped

\* One step of anyone keeps it.
LEMMA StepKeeps ==
    ASSUME Shaped, [Next]_vars PROVE Shaped' /\ Arms
<1>1. ASSUME NEW f \in Flow, Continue(f) PROVE Shaped' /\ Arms
  BY <1>1, StartFencedKeeps, StartRegisterKeeps, StartFailedKeeps, SavedKeeps, LaunchedKeeps,
     FailuresKeep, GuardedKeeps, RetiredKeeps, ResidueKeeps, PurgedKeeps, AttemptClearedKeeps,
     AttemptFencedKeeps, ControlBeginKeeps, DeleteFencedKeeps, InitialAwaitedKeeps, TornDownKeeps,
     EndsKeep, DeleteStepsKeep
     DEF Continue, StartStep, LaunchStep, AttemptStep, ControlStep
<1>2. ASSUME NEW f \in Flow, Disturb(f) PROVE Shaped' /\ Arms
  BY <1>2, SaveFailsKeeps, LaunchRejectedKeeps, LaunchHangsKeeps, FenceRefusesKeeps, EndsKeep DEF Disturb
<1>3. ASSUME NEW e \in Engine, Callback(e) \/ Mishap(e) PROVE Shaped' /\ Arms
  BY <1>3, WipedKeeps, DropHandledKeeps, DropsKeep, ClearedKeeps, ErrsKeep DEF Callback, Mishap
<1>4. ASSUME Ask PROVE Shaped' /\ Arms
  BY <1>4, CreateKeeps, StartKeeps, StopEnteredKeeps, ControlWithEngineKeeps DEF Ask
<1>5. CASE UNCHANGED vars
  <2>1. Types /\ Types'
    BY <1>5, TypesOf DEF Shaped, Types, vars
  <2> QED
    BY <1>5, <2>1, Still DEF vars
<1> QED
  BY <1>1, <1>2, <1>3, <1>4, <1>5, ReconnectFiresKeeps DEF Next

\* At any time the variables have their types, a registered engine is one of
\* its session and has not been torn down, and a flow that is over holds nothing.
THEOREM Typed == Spec => []TypeOK
<1>1. Shaped /\ [Next]_vars => Shaped'
  BY StepKeeps
<1>2. Shaped => TypeOK
  BY DEF Shaped
<1> QED
  BY Booted, <1>1, <1>2, PTL DEF Spec

THEOREM ShapeHolds == Spec => []Shaped
<1>1. Shaped /\ [Next]_vars => Shaped'
  BY StepKeeps
<1> QED
  BY Booted, <1>1, PTL DEF Spec

\* initialize() runs on an engine that was built, never launched before and is
\* still the one registered, whatever happened while the row was written.
THEOREM NeverRearmed == Spec => NoRearm
<1>1. Shaped /\ [Next]_vars => (\A e \in Engine :
        (engine[e].phase # "launching" /\ engine'[e].phase = "launching")
           => engine[e].phase = "built" /\ registry[engine[e].owner] = e)
  BY StepKeeps DEF Arms
<1> QED
  BY ShapeHolds, <1>1, PTL DEF Spec, NoRearm

-----------------------------------------------------------------------------
\* A stop sticks.

\* Flow f will still deal with the engine registered for s.
Watches(f, s) ==
    /\ flow[f].session = s
    /\ \/ flow[f].pc \in {"initial", "teardown", "retire"} /\ flow[f].engine = registry[s]
       \/ flow[f].pc \in {"saving", "launching", "failing"}

\* A stopped session, with an engine registered, has such a flow.
Watched == \A s \in stopped : registry[s] # NoEngine => \E f \in Flow : Watches(f, s)

LEMMA StillWatches ==
    ASSUME NEW g \in Flow, NEW s \in Session, Watches(g, s), flow'[g] = flow[g],
           registry'[s] = registry[s]
    PROVE  Watches(g, s)'
  BY DEF Watches

\* A step of flow f: what it stops watching is dealt with.
LEMMA Watchful ==
    ASSUME Shaped, Watched, NEW f \in Flow, \A g \in Flow \ {f} : flow'[g] = flow[g],
           stopped' \in SUBSET Session,
           \A s \in stopped' : registry'[s] # NoEngine =>
              \/ Watches(f, s)'
              \/ s \in stopped /\ registry'[s] = registry[s] /\ ~Watches(f, s)
    PROVE  Watched'
<1> SUFFICES ASSUME NEW s \in stopped', registry'[s] # NoEngine
             PROVE  \E g \in Flow : Watches(g, s)'
  BY DEF Watched
<1>1. CASE Watches(f, s)'
  BY <1>1
<1>2. CASE s \in stopped /\ registry'[s] = registry[s] /\ ~Watches(f, s)
  <2>1. PICK g \in Flow : Watches(g, s)
    BY <1>2 DEF Watched
  <2>2. flow'[g] = flow[g] /\ s \in Session
    BY <1>2, <2>1
  <2> QED
    BY <1>2, <2>1, <2>2, StillWatches
<1> QED
  BY <1>1, <1>2

\* A step of no flow.
LEMMA Unmoved ==
    ASSUME Shaped, Watched, UNCHANGED <<flow, stopped>>,
           \A s \in Session : registry'[s] \in {registry[s], NoEngine}
    PROVE  Watched'
<1> SUFFICES ASSUME NEW s \in stopped, registry'[s] # NoEngine
             PROVE  \E g \in Flow : Watches(g, s)'
  BY DEF Watched
<1>1. s \in Session /\ registry'[s] = registry[s] /\ registry[s] # NoEngine
  BY DEF Shaped, TypeOK
<1>2. PICK g \in Flow : Watches(g, s)
  BY <1>1 DEF Watched
<1> QED
  BY <1>1, <1>2, StillWatches

\* A step of f after which the marks are no more, and the registry holds no more.
LEMMA Lapses ==
    ASSUME Shaped, Watched, NEW f \in Flow, \A g \in Flow \ {f} : flow'[g] = flow[g],
           stopped' \subseteq stopped,
           \A s \in Session : registry'[s] \in {registry[s], NoEngine},
           \A s \in stopped' : registry'[s] # NoEngine => Watches(f, s)' \/ ~Watches(f, s)
    PROVE  Watched'
<1>1. stopped' \in SUBSET Session
  BY DEF Shaped, TypeOK
<1>2. \A s \in stopped' : registry'[s] # NoEngine =>
              \/ Watches(f, s)'
              \/ s \in stopped /\ registry'[s] = registry[s] /\ ~Watches(f, s)
  BY <1>1
<1> QED
  BY <1>1, <1>2, Watchful

\* Only its own session is watched by a flow.
LEMMA WatchesOwn ==
    ASSUME NEW f \in Flow, NEW s \in Session, Watches(f, s)
    PROVE  /\ s = flow[f].session
           /\ flow[f].pc \in {"initial", "teardown", "retire", "saving", "launching", "failing"}
           /\ flow[f].pc \in {"initial", "teardown", "retire"} => flow[f].engine = registry[s]
  BY DEF Watches

LEMMA AskWatched ==
    ASSUME Shaped, Watched, NEW f \in Flow, NEW s \in Session,
           \/ Create(s) \/ Start(f, s)
           \/ \E k \in Control : StopEntered(f, s, k) \/ ControlWithEngine(f, s, k)
    PROVE  Watched'
<1>0. Types /\ stopped \in SUBSET Session
  BY TypesOf DEF Shaped, Types
<1>1. CASE Create(s)
  <2>1. UNCHANGED <<flow, stopped, registry>>
    BY <1>1 DEF Create, marks
  <2> QED
    BY <2>1, Unmoved
<1>2. CASE Start(f, s)
  <2>1. flow[f] = NoFlow /\ UNCHANGED <<row, registry>>
    BY <1>2 DEF Start, table
  <2>2. stopped' \subseteq stopped /\ \A g \in Flow \ {f} : flow'[g] = flow[g]
    <3>1. CASE Accept(f, s)
      BY <3>1, Accepted
    <3>2. CASE Wait(f, s, "start", "fence") /\ UNCHANGED stopped
      BY <2>1, <3>2, <1>0, NothingHeld DEF Wait, Enter, Types
    <3> QED
      BY <1>2, <3>1, <3>2 DEF Start
  <2>3. \A t \in Session : ~Watches(f, t)
    BY <2>1, WatchesOwn, NothingHeld
  <2> QED
    BY <1>0, <2>1, <2>2, <2>3, Lapses
<1>3. ASSUME NEW k \in Control, StopEntered(f, s, k) PROVE Watched'
  <2> DEFINE r == [NoFlow EXCEPT !.kind = k, !.session = s, !.pc = "enter"]
  <2>1. flow[f] = NoFlow /\ UNCHANGED <<registry, stopped>> /\ Enter(f, r)
    BY <1>3 DEF StopEntered
  <2> HIDE DEF r
  <2>2. \A g \in Flow \ {f} : flow'[g] = flow[g]
    BY <1>0, <2>1 DEF Enter, Types
  <2>3. \A t \in Session : ~Watches(f, t)
    BY <2>1, WatchesOwn, NothingHeld
  <2> QED
    BY <1>0, <2>1, <2>2, <2>3, Lapses
<1>4. ASSUME NEW k \in Control, ControlWithEngine(f, s, k) PROVE Watched'
  <2>1. flow[f] = NoFlow /\ UNCHANGED <<row, registry, engine>> /\ Retire(f, s, k)
    BY <1>4 DEF ControlWithEngine, table
  <2>2. /\ \A g \in Flow \ {f} : flow'[g] = flow[g]
        /\ stopped' = stopped \cup {s}
        /\ flow'[f].session = s
        /\ registry[s] # NoEngine => flow'[f].engine = registry[s] /\ flow'[f].pc \in {"initial", "teardown"}
    BY <2>1, RetireIs, NothingHeld
  <2>3. registry'[s] # NoEngine => Watches(f, s)'
    BY <2>1, <2>2 DEF Watches
  <2>4. \A t \in Session : ~Watches(f, t)
    BY <2>1, WatchesOwn, NothingHeld
  <2> QED
    BY <1>0, <2>1, <2>2, <2>3, <2>4, Watchful
<1> QED
  BY <1>1, <1>2, <1>3, <1>4

\* A flow that builds an engine will look at the mark.
LEMMA BuildsWatched ==
    ASSUME Shaped, Watched, NEW f \in Flow, NEW s \in Session, NEW k \in {"start", "attempt"},
           NEW reg \in [Session -> Engine \cup {NoEngine}], NEW eng,
           \A t \in Session : reg[t] \in {registry[t], NoEngine},
           \A t \in Session \ {s} : ~Watches(f, t),
           Register(f, s, k, reg, eng), UNCHANGED <<row, stopped>>
    PROVE  Watched'
<1>0. Types /\ stopped \in SUBSET Session
  BY TypesOf DEF Shaped, Types
<1>1. PICK e \in Available :
        /\ registry' = [reg EXCEPT ![s] = e]
        /\ flow' = [flow EXCEPT ![f] = [kind |-> k, session |-> s, pc |-> "saving",
                                        engine |-> e, waits |-> {}]]
  BY DEF Register, Enter
<1>2. flow'[f].session = s /\ flow'[f].pc = "saving" /\ \A g \in Flow \ {f} : flow'[g] = flow[g]
  BY <1>0, <1>1 DEF Types
<1>3. Watches(f, s)'
  BY <1>2 DEF Watches
<1>4. \A t \in Session \ {s} : registry'[t] \in {registry[t], NoEngine}
  BY <1>1
<1> QED
  BY <1>0, <1>2, <1>3, <1>4, Watchful

LEMMA StartStepWatched ==
    ASSUME Shaped, Watched, NEW f \in Flow, StartStep(f) PROVE Watched'
<1>0. Types /\ FlowFine(f) /\ engine \in EngineTable /\ registry \in [Session -> Engine \cup {NoEngine}]
  BY TypesOf DEF Shaped, Types, EngineTable
<1>1. CASE StartFenced(f)
  <2>1. /\ UNCHANGED <<row, registry>> /\ stopped' \subseteq stopped
        /\ \A g \in Flow \ {f} : flow'[g] = flow[g]
        /\ flow[f].pc = "fence" /\ flow[f].kind = "start"
    <3>1. Accept(f, flow[f].session) /\ flow[f].session \in Session
      BY <1>0, <1>1 DEF StartFenced, FlowFine, KindFine
    <3> QED
      BY <3>1, <1>1, Accepted DEF StartFenced, table
  <2>2. \A s \in Session : ~Watches(f, s)
    BY <2>1, WatchesOwn
  <2> QED
    BY <1>0, <2>1, <2>2, Lapses DEF Types
<1>2. CASE StartRegister(f)
  <2>1. /\ UNCHANGED <<row, stopped>> /\ flow[f].session \in Session /\ flow[f].pc = "hook"
        /\ Register(f, flow[f].session, "start", registry, engine)
    BY <1>0, <1>2 DEF StartRegister, table, FlowFine, KindFine
  <2>2. \A s \in Session : ~Watches(f, s)
    BY <2>1, WatchesOwn
  <2> QED
    BY <1>0, <2>1, <2>2, BuildsWatched
<1>3. CASE StartFailed(f)
  <2>1. /\ UNCHANGED <<row, registry, stopped>> /\ \A g \in Flow \ {f} : flow'[g] = flow[g]
        /\ flow[f].pc = "failed"
    BY <1>0, <1>3, Left DEF StartFailed, marks
  <2>2. \A s \in Session : ~Watches(f, s)
    BY <2>1, WatchesOwn
  <2> QED
    BY <1>0, <2>1, <2>2, Lapses DEF Types
<1> QED
  BY <1>1, <1>2, <1>3 DEF StartStep

\* A launch that returns takes the registered engine of a marked session down.
LEMMA ReturnWatched ==
    ASSUME Shaped, Watched, NEW f \in Flow, AfterInit(f), flow[f].pc \in Launching,
           \A g \in Flow \ {f} : flow'[g] = flow[g], flow'[f].session = flow[f].session,
           UNCHANGED <<row, registry, stopped>>
    PROVE  Watched'
<1>0. Types /\ flow[f] \in FlowState
  BY TypesOf DEF Shaped, Types
<1>1. ASSUME NEW s \in stopped, registry[s] # NoEngine, Watches(f, s) PROVE Watches(f, s)'
  <2>1. s = flow[f].session /\ s \in stopMark
    BY <1>0, <1>1 DEF Watches, Types
  <2> DEFINE r == [flow[f] EXCEPT !.engine = registry[s],
                                  !.pc = IF registry[s] = NoEngine THEN "residue" ELSE "retire"]
  <2>2. Enter(f, r)
    BY <1>1, <2>1 DEF AfterInit
  <2>3. flow' = [flow EXCEPT ![f] = r] /\ r.engine = registry[s] /\ r.pc = "retire" /\ r.session = s
    BY <1>0, <1>1, <2>1, <2>2 DEF Enter, FlowState
  <2> HIDE DEF r
  <2>4. flow'[f] = r
    BY <1>0, <2>3 DEF Types
  <2> QED
    BY <2>3, <2>4 DEF Watches
<1> QED
  BY <1>0, <1>1, Lapses DEF Types

LEMMA SavedWatched ==
    ASSUME Shaped, Watched, NEW f \in Flow, Saved(f) \/ Launched(f) PROVE Watched'
<1>0. Types /\ FlowFine(f) /\ flow[f] \in FlowState
  BY TypesOf DEF Shaped, Types
<1>1. UNCHANGED <<row, registry, stopped>> /\ flow[f].pc \in Launching /\ flow[f].engine \in Engine
  BY <1>0 DEF Saved, Launched, table, marks, FlowFine, Launching, FlowState
<1>2. \A e \in Engine : engine'[e].owner = engine[e].owner
  <2>1. PICK e \in Engine : e = flow[f].engine
    BY <1>1
  <2>2. CASE engine' = [engine EXCEPT ![e].phase = "launching"]
    BY <1>0, <2>2, Rephased DEF Phase
  <2>3. CASE engine' = [engine EXCEPT ![e].phase = "up"]
    BY <1>0, <2>3, Rephased DEF Phase
  <2>4. CASE engine' = engine
    BY <2>4
  <2> QED
    BY <2>1, <2>2, <2>3, <2>4 DEF Saved, Launched
<1>3. CASE AfterInit(f)
  <2>1. flow'[f].session = flow[f].session /\ \A g \in Flow \ {f} : flow'[g] = flow[g]
    BY <1>1, <1>2, <1>3, Returned
  <2> QED
    BY <1>1, <1>3, <2>1, ReturnWatched
<1>4. CASE Goto(f, "launching") /\ flow[f].pc = "saving"
  <2>1. KindAt(flow[f].kind, "launching") /\ flow[f].kind # "none" /\ flow[f].engine # NoEngine
    BY <1>0, <1>4 DEF KindAt, Launching, Control, FlowFine, KindFine
  <2>2. /\ flow'[f].session = flow[f].session /\ flow'[f].pc = "launching"
        /\ \A g \in Flow \ {f} : flow'[g] = flow[g]
    BY <1>2, <1>4, <2>1, Went DEF Launching, PC
  <2>3. \A s \in Session : Watches(f, s) => Watches(f, s)'
    BY <2>2 DEF Watches
  <2> QED
    BY <1>0, <1>1, <2>2, <2>3, Lapses DEF Types
<1> QED
  BY <1>3, <1>4 DEF Saved, Launched

\* What fails leaves nothing registered for its session.
LEMMA FailsWatched ==
    ASSUME Shaped, Watched, NEW f \in Flow, NEW sta \in [Session -> Status], Fails(f, engine, sta),
           UNCHANGED <<row, stopped>>
    PROVE  Watched'
<1>0. Types /\ registry \in [Session -> Engine \cup {NoEngine}]
  BY TypesOf DEF Shaped, Types
<1>1. /\ \A s \in Session : registry'[s] \in {registry[s], NoEngine}
      /\ \A g \in Flow \ {f} : flow'[g] = flow[g]
      /\ flow[f].session \in Session
      /\ registry' = [registry EXCEPT ![flow[f].session] = NoEngine]
  BY FailsIs
<1>2. \A s \in stopped : registry'[s] # NoEngine => ~Watches(f, s)
  BY <1>0, <1>1 DEF Types, Watches
<1> QED
  BY <1>1, <1>2, Lapses

LEMMA FailuresWatched ==
    ASSUME Shaped, Watched, NEW f \in Flow,
           LaunchAborted(f) \/ Rejected(f) \/ Reaped(f) \/ (FenceRefuses(f) /\ flow[f].kind = "attempt")
    PROVE  Watched'
<1>0. Types /\ FlowFine(f)
  BY TypesOf DEF Shaped
<1>1. UNCHANGED <<row, stopped>>
  BY DEF LaunchAborted, Rejected, Reaped, FenceRefuses, marks
<1>2. flow[f].session \in Session
  BY <1>0 DEF LaunchAborted, Rejected, Reaped, FenceRefuses, FlowFine, KindFine, KindAt
<1>3. status \in [Session -> Status]
      /\ WithStatus(flow[f].session, "disconnected") \in [Session -> Status]
  BY <1>0, <1>2, Written DEF Types, Status
<1> QED
  BY <1>1, <1>3, FailsWatched DEF LaunchAborted, Rejected, Reaped, FenceRefuses

\* Flow f goes on, watching as before or watching nothing, or what it watched is gone.
LEMMA GoesOn ==
    ASSUME Shaped, Watched, NEW f \in Flow, NEW pc \in PC, Goto(f, pc),
           UNCHANGED row, stopped' \subseteq stopped,
           \A s \in Session : registry'[s] \in {registry[s], NoEngine},
           \A s \in Session : Watches(f, s) /\ registry'[s] # NoEngine =>
               \/ pc = "failing"
               \/ pc = "teardown" /\ flow[f].pc = "initial"
    PROVE  Watched'
<1>0. Types /\ flow[f] \in FlowState /\ stopped \in SUBSET Session
  BY TypesOf DEF Shaped, Types
<1> DEFINE r == [flow[f] EXCEPT !.pc = pc, !.waits = {}]
<1>1. r \in FlowState /\ r.session = flow[f].session /\ r.engine = flow[f].engine /\ r.pc = pc
  BY <1>0 DEF FlowState
<1>2. Enter(f, r)
  BY DEF Goto
<1> HIDE DEF r
<1>3. flow'[f] = r /\ \A g \in Flow \ {f} : flow'[g] = flow[g]
  BY <1>0, <1>1, <1>2, Entered
<1>4. ASSUME NEW s \in stopped, registry'[s] # NoEngine, Watches(f, s) PROVE Watches(f, s)'
  BY <1>0, <1>1, <1>3, <1>4 DEF Watches
<1> QED
  BY <1>0, <1>3, <1>4, Lapses

LEMMA LaunchEndsWatched ==
    ASSUME Shaped, Watched, NEW f \in Flow, LaunchRejected(f) \/ LaunchHangs(f) \/ Retired(f)
    PROVE  Watched'
<1>0. Types /\ FlowFine(f) /\ flow[f] \in FlowState /\ registry \in [Session -> Engine \cup {NoEngine}]
  BY TypesOf DEF Shaped, Types
<1>1. UNCHANGED <<row, stopped>>
  BY DEF LaunchRejected, LaunchHangs, Retired, table, marks
<1>2. CASE LaunchRejected(f)
  BY <1>1, <1>2, GoesOn DEF LaunchRejected, PC
<1>3. CASE LaunchHangs(f)
  <2>1. /\ Goto(f, "reap") /\ registry' = [registry EXCEPT ![flow[f].session] = NoEngine]
        /\ flow[f].session \in Session
    BY <1>0, <1>3 DEF LaunchHangs, FlowFine, KindFine, KindAt
  <2>2. \A s \in Session : Watches(f, s) => registry'[s] = NoEngine
    BY <1>0, <2>1, WatchesOwn
  <2>3. \A s \in Session : registry'[s] \in {registry[s], NoEngine}
    BY <1>0, <2>1
  <2> QED
    BY <1>1, <2>1, <2>2, <2>3, GoesOn DEF PC
<1>4. CASE Retired(f)
  <2>1. /\ Goto(f, "residue") /\ flow[f].pc = "retire" /\ registry' = DeleteIfLive(flow[f].engine)
        /\ flow[f].engine \in Engine
    BY <1>0, <1>4 DEF Retired, FlowState, FlowFine
  <2>2. \A s \in Session : registry'[s] \in {registry[s], NoEngine} /\ registry'[s] # flow[f].engine
    BY <1>0, <2>1, LifecycleAssumption, Unregistered
  <2>3. \A s \in Session : Watches(f, s) => registry'[s] = NoEngine
    BY <2>1, <2>2, WatchesOwn
  <2> QED
    BY <1>1, <2>1, <2>2, <2>3, GoesOn DEF PC
<1> QED
  BY <1>2, <1>3, <1>4

LEMMA SaveFailsWatched ==
    ASSUME Shaped, Watched, NEW f \in Flow, SaveFails(f) PROVE Watched'
<1>0. Types /\ FlowFine(f) /\ flow[f] \in FlowState /\ stopped \in SUBSET Session
  BY TypesOf DEF Shaped, Types
<1>1. UNCHANGED <<row, registry>> /\ stopped' \subseteq stopped /\ flow[f].pc = "saving"
      /\ flow[f].engine \in Engine
  BY <1>0 DEF SaveFails, Unmark, table, FlowFine, FlowState, Launching
<1> DEFINE r == [flow[f] EXCEPT !.pc = "failing"]
<1>2. flow' = [g \in Flow |-> IF g = f THEN r
                              ELSE IF flow[g].pc = "initial" /\ flow[g].engine = flow[f].engine
                                   THEN NoFlow ELSE flow[g]]
  BY DEF SaveFails
<1>3. r.session = flow[f].session /\ r.pc = "failing"
  BY <1>0 DEF FlowState
<1> HIDE DEF r
<1>4. /\ flow'[f].session = flow[f].session /\ flow'[f].pc = "failing"
      /\ \A g \in Flow \ {f} :
           (flow[g].pc = "initial" /\ flow[g].engine = flow[f].engine) \/ flow'[g] = flow[g]
  BY <1>2, <1>3
<1> SUFFICES ASSUME NEW s \in stopped', registry'[s] # NoEngine
             PROVE  \E g \in Flow : Watches(g, s)'
  BY DEF Watched
<1>5. PICK g \in Flow : Watches(g, s)
  BY <1>1 DEF Watched
<1>6. CASE flow[g].session = flow[f].session
  BY <1>4, <1>5, <1>6 DEF Watches
<1>7. CASE flow[g].session # flow[f].session
  <2>1. flow[g].engine = flow[f].engine => engine[flow[f].engine].owner = flow[g].session
    BY <1>1, LifecycleAssumption DEF Shaped, FlowFine
  <2>2. engine[flow[f].engine].owner = flow[f].session
    BY <1>0, <1>1, LifecycleAssumption DEF FlowFine
  <2>3. flow'[g] = flow[g]
    BY <1>4, <1>7, <2>1, <2>2
  <2> QED
    BY <1>0, <1>1, <1>5, <2>3, StillWatches
<1> QED
  BY <1>6, <1>7

\* A flow that ends, which watched nothing or takes its mark out.
LEMMA LeavesWatched ==
    ASSUME Shaped, Watched, NEW f \in Flow, Leave(f), UNCHANGED <<row, registry>>,
           stopped' \subseteq stopped,
           \A s \in stopped' : registry[s] # NoEngine => ~Watches(f, s)
    PROVE  Watched'
<1>0. Types
  BY TypesOf DEF Shaped
<1>1. \A g \in Flow \ {f} : flow'[g] = flow[g]
  BY <1>0, Left
<1> QED
  BY <1>0, <1>1, Lapses DEF Types

LEMMA EndsWatched ==
    ASSUME Shaped, Watched, NEW f \in Flow,
           \/ Purged(f) \/ DeletePurges(f) \/ Recorded(f) \/ DeleteRefused(f)
           \/ EnterRefused(f) \/ QueryFails(f)
    PROVE  Watched'
<1>0. Types
  BY TypesOf DEF Shaped
<1>1. UNCHANGED <<row, registry>> /\ Leave(f) /\ stopped' \subseteq stopped
  BY <1>0 DEF Purged, DeletePurges, Recorded, DeleteRefused, EnterRefused, QueryFails, Unmark, table, marks
<1>2. flow[f].pc \in {"purge", "record", "fence2", "enter", "guard", "residue", "hook"}
  BY DEF Purged, DeletePurges, Recorded, DeleteRefused, EnterRefused, QueryFails
<1>3. \A s \in Session : ~Watches(f, s)
  BY <1>2, WatchesOwn
<1> QED
  BY <1>0, <1>1, <1>3, LeavesWatched DEF Types

LEMMA GuardedWatched ==
    ASSUME Shaped, Watched, NEW f \in Flow, Guarded(f) \/ Residue(f) PROVE Watched'
<1>0. Types
  BY TypesOf DEF Shaped
<1>1. UNCHANGED <<row, registry, stopped>> /\ flow[f].pc \in {"guard", "residue"}
  BY DEF Guarded, Residue, table, marks
<1>2. \A g \in Flow \ {f} : flow'[g] = flow[g]
  <2>1. \E r : Enter(f, r)
    BY DEF Guarded, Residue, Leave, Goto
  <2> QED
    BY <2>1, <1>0 DEF Enter, Types
<1>3. \A s \in Session : ~Watches(f, s)
  BY <1>1, WatchesOwn
<1> QED
  BY <1>0, <1>1, <1>2, <1>3, Lapses DEF Types

LEMMA AttemptStepWatched ==
    ASSUME Shaped, Watched, NEW f \in Flow, AttemptStep(f) PROVE Watched'
<1>0. Types /\ FlowFine(f) /\ flow[f] \in FlowState /\ registry \in [Session -> Engine \cup {NoEngine}]
  BY TypesOf DEF Shaped, Types
<1>1. UNCHANGED <<row, stopped>> /\ flow[f].session \in Session /\ flow[f].kind = "attempt"
      /\ flow[f].engine \in Engine \cup {NoEngine}
  BY <1>0 DEF AttemptStep, AttemptCleared, AttemptFenced, table, marks, FlowFine, KindFine, FlowState
<1>2. \A s \in Session \ {flow[f].session} : ~Watches(f, s)
  BY WatchesOwn
<1>3. CASE Register(f, flow[f].session, "attempt", registry, engine)
  BY <1>0, <1>1, <1>2, <1>3, BuildsWatched
<1>4. CASE Register(f, flow[f].session, "attempt", DeleteIfLive(flow[f].engine), Torn(engine, flow[f].engine))
  <2>1. PICK reg \in [Session -> Engine \cup {NoEngine}] : reg = DeleteIfLive(flow[f].engine)
    BY <1>0, <1>1, Unregistered
  <2>2. \A t \in Session : reg[t] \in {registry[t], NoEngine}
    BY <1>0, <1>1, <2>1, Unregistered
  <2> QED
    BY <1>1, <1>2, <1>4, <2>1, <2>2, BuildsWatched
<1>5. CASE /\ Wait(f, flow[f].session, "attempt", "fence") /\ flow[f].pc = "teardown"
           /\ registry' = DeleteIfLive(flow[f].engine)
  <2>1. \A g \in Flow \ {f} : flow'[g] = flow[g]
    BY <1>0, <1>5 DEF Wait, Enter, Types
  <2>2. \A s \in Session : /\ registry'[s] \in {registry[s], NoEngine}
                           /\ registry'[s] # NoEngine => registry'[s] # flow[f].engine
    BY <1>0, <1>1, <1>5, Unregistered
  <2>3. \A s \in Session : registry'[s] # NoEngine => ~Watches(f, s)
    BY <1>5, <2>2, WatchesOwn
  <2> QED
    BY <1>0, <1>1, <2>1, <2>2, <2>3, Lapses DEF Types
<1> QED
  BY <1>3, <1>4, <1>5 DEF AttemptStep, AttemptCleared, AttemptFenced

LEMMA ReconnectFiresWatched ==
    ASSUME Shaped, Watched, NEW f \in Flow, NEW s \in Session, ReconnectFires(f, s) PROVE Watched'
<1>0. Types /\ registry \in [Session -> Engine \cup {NoEngine}]
  BY TypesOf DEF Shaped, Types
<1>1. UNCHANGED <<row, stopped>> /\ flow[f] = NoFlow
  BY DEF ReconnectFires, table, marks
<1>2. \A t \in Session : ~Watches(f, t)
  BY <1>1, WatchesOwn, NothingHeld
<1>3. CASE Register(f, s, "attempt", registry, engine)
  BY <1>0, <1>1, <1>2, <1>3, BuildsWatched
<1>4. CASE UNCHANGED registry /\ (UNCHANGED flow \/ \E r : Enter(f, r))
  <2>1. \A g \in Flow \ {f} : flow'[g] = flow[g]
    BY <1>0, <1>4 DEF Enter, Types
  <2> QED
    BY <1>0, <1>1, <1>2, <1>4, <2>1, Lapses DEF Types
<1>5. \/ Register(f, s, "attempt", registry, engine)
      \/ UNCHANGED registry /\ (UNCHANGED flow \/ \E r : Enter(f, r))
  BY DEF ReconnectFires, Wait
<1> QED
  BY <1>3, <1>4, <1>5

\* A control that retires its session watches what is registered for it.
LEMMA RetireWatched ==
    ASSUME Shaped, Watched, NEW f \in Flow, NEW k \in Control, Retire(f, flow[f].session, k),
           flow[f].session \in Session, UNCHANGED <<row, registry, engine>>
    PROVE  Watched'
<1> DEFINE s == flow[f].session
<1>0. Types /\ stopped \in SUBSET Session
  BY TypesOf DEF Shaped, Types
<1>1. /\ \A g \in Flow \ {f} : flow'[g] = flow[g]
      /\ stopped' = stopped \cup {s}
      /\ flow'[f].session = s
      /\ registry[s] # NoEngine => flow'[f].engine = registry[s] /\ flow'[f].pc \in {"initial", "teardown"}
  BY RetireIs
<1>2. registry'[s] # NoEngine => Watches(f, s)'
  BY <1>1 DEF Watches
<1>3. \A t \in Session \ {s} : ~Watches(f, t)
  BY WatchesOwn
<1> QED
  BY <1>0, <1>1, <1>2, <1>3, Watchful

LEMMA ControlBeginWatched ==
    ASSUME Shaped, Watched, NEW f \in Flow, ControlBegin(f) \/ DeleteFenced(f) PROVE Watched'
<1>0. Types /\ FlowFine(f)
  BY TypesOf DEF Shaped
<1>1. UNCHANGED <<row, engine, registry>> /\ flow[f].session \in Session
      /\ flow[f].kind \in {"stop", "delete"}
  BY <1>0 DEF ControlBegin, DeleteFenced, table, FlowFine, KindFine, KindAt
<1>2. CASE Retire(f, flow[f].session, flow[f].kind)
  BY <1>1, <1>2, RetireWatched DEF Control
<1>3. CASE /\ flow[f].pc = "enter" /\ UNCHANGED stopped
           /\ Leave(f) \/ Wait(f, flow[f].session, "delete", "fence")
  <2>1. \A s \in Session : ~Watches(f, s)
    BY <1>3, WatchesOwn
  <2>2. \E r : Enter(f, r)
    BY <1>3 DEF Leave, Wait
  <2>3. \A g \in Flow \ {f} : flow'[g] = flow[g]
    BY <1>0, <2>2 DEF Enter, Types
  <2> QED
    BY <1>0, <1>1, <1>3, <2>1, <2>3, Lapses DEF Types
<1> QED
  BY <1>2, <1>3 DEF ControlBegin, DeleteFenced

LEMMA ControlStepWatched ==
    ASSUME Shaped, Watched, NEW f \in Flow,
           InitialAwaited(f) \/ TornDown(f) \/ DeleteFencedAgain(f) \/ DeleteCommits(f)
    PROVE  Watched'
<1>0. Types /\ FlowFine(f) /\ flow[f] \in FlowState
  BY TypesOf DEF Shaped, Types
<1>1. UNCHANGED stopped
  BY DEF InitialAwaited, TornDown, DeleteFencedAgain, DeleteCommits, marks
<1>2. CASE InitialAwaited(f)
  BY <1>0, <1>1, <1>2, GoesOn DEF InitialAwaited, table, PC, Types
<1>3. CASE DeleteFencedAgain(f)
  <2>1. \A s \in Session : ~Watches(f, s)
    BY <1>3, WatchesOwn DEF DeleteFencedAgain
  <2> QED
    BY <1>0, <1>1, <1>3, <2>1, GoesOn DEF DeleteFencedAgain, table, PC, Types
<1>4. CASE TornDown(f)
  <2>1. UNCHANGED row /\ registry' = DeleteIfLive(flow[f].engine) /\ flow[f].pc = "teardown"
        /\ flow[f].engine \in Engine \cup {NoEngine}
    BY <1>0, <1>4 DEF TornDown, table, FlowState
  <2>2. \A s \in Session : /\ registry'[s] \in {registry[s], NoEngine}
                           /\ registry'[s] # NoEngine => registry'[s] # flow[f].engine
    BY <1>0, <2>1, Unregistered
  <2>3. \A s \in Session : registry'[s] # NoEngine => ~Watches(f, s)
    BY <2>1, <2>2, WatchesOwn
  <2>4. \E r : Enter(f, r)
    BY <1>4 DEF TornDown, Goto, Wait
  <2>5. \A g \in Flow \ {f} : flow'[g] = flow[g]
    BY <1>0, <2>4 DEF Enter, Types
  <2> QED
    BY <1>0, <1>1, <2>1, <2>2, <2>3, <2>5, Lapses DEF Types
<1>5. CASE DeleteCommits(f)
  <2>1. \A s \in Session : ~Watches(f, s)
    BY <1>5, WatchesOwn DEF DeleteCommits
  <2>2. UNCHANGED registry /\ \A g \in Flow \ {f} : flow'[g] = flow[g]
    BY <1>0, <1>5 DEF DeleteCommits, Goto, Enter, Types
  <2> QED
    BY <1>0, <1>1, <2>1, <2>2, Lapses DEF Types
<1> QED
  BY <1>2, <1>3, <1>4, <1>5

LEMMA ReportsWatched ==
    ASSUME Shaped, Watched, NEW e \in Engine, Callback(e) \/ Mishap(e) PROVE Watched'
<1>0. Types /\ registry \in [Session -> Engine \cup {NoEngine}]
  BY TypesOf DEF Shaped, Types
<1>1. UNCHANGED <<row, stopped, flow>>
  BY DEF Callback, Mishap, DropHandled, Cleared, Wiped, Drops, Unlinked, DropLost, Errs, Stuck, table, marks
<1>2. \/ UNCHANGED registry
      \/ registry' = [registry EXCEPT ![engine[e].owner] = NoEngine]
  BY DEF Callback, Mishap, DropHandled, Cleared, Wiped, Drops, Unlinked, DropLost, Errs, Stuck,
         Reschedule, EngineFails
<1>3. \A s \in Session : registry'[s] \in {registry[s], NoEngine}
  BY <1>0, <1>2
<1> QED
  BY <1>1, <1>3, Unmoved

-----------------------------------------------------------------------------
\* Who may be about: what operators ask for, and the attempts of armed timers.

\* Flow f goes on as what it was, or ends.
SameKind(f) == /\ flow'[f].kind \in {flow[f].kind, "none"}
               /\ flow'[f].kind # "none" => flow'[f].session = flow[f].session

LEMMA KindsGoOn ==
    ASSUME Types, NEW f \in Flow,
           \/ Leave(f)
           \/ \E pc \in PC : Goto(f, pc)
           \/ \E pc \in PC : Wait(f, flow[f].session, flow[f].kind, pc)
           \/ \E reg, eng : Register(f, flow[f].session, flow[f].kind, reg, eng)
           \/ \E e \in Engine \cup {NoEngine}, pc \in PC : Enter(f, [flow[f] EXCEPT !.engine = e, !.pc = pc])
           \/ flow[f].session \in Session /\ Retire(f, flow[f].session, flow[f].kind)
    PROVE  SameKind(f) /\ \A g \in Flow \ {f} : flow'[g] = flow[g]
<1> DEFINE s == flow[f].session
           k == flow[f].kind
<1>0. flow[f] \in FlowState
  BY DEF Types
<1>1. ASSUME NEW r, Enter(f, r), r.kind \in {k, "none"}, r.kind # "none" => r.session = s
      PROVE  SameKind(f) /\ \A g \in Flow \ {f} : flow'[g] = flow[g]
  BY <1>1 DEF Types, Enter, SameKind
<1>2. CASE Leave(f)
  BY <1>2, <1>1, NothingHeld DEF Leave
<1>3. ASSUME NEW pc \in PC, Goto(f, pc)
      PROVE  SameKind(f) /\ \A g \in Flow \ {f} : flow'[g] = flow[g]
  <2> DEFINE r == [flow[f] EXCEPT !.pc = pc, !.waits = {}]
  <2>1. r.kind = k /\ r.session = s
    BY <1>0 DEF FlowState
  <2>2. Enter(f, r)
    BY <1>3 DEF Goto
  <2> HIDE DEF r
  <2> QED
    BY <1>1, <2>1, <2>2
<1>4. ASSUME NEW pc \in PC, NEW e, NEW w,
             Enter(f, [kind |-> k, session |-> s, pc |-> pc, engine |-> e, waits |-> w])
      PROVE  SameKind(f) /\ \A g \in Flow \ {f} : flow'[g] = flow[g]
  <2> DEFINE r == [kind |-> k, session |-> s, pc |-> pc, engine |-> e, waits |-> w]
  <2>1. r.kind = k /\ r.session = s
    OBVIOUS
  <2>2. Enter(f, r)
    BY <1>4
  <2> HIDE DEF r
  <2> QED
    BY <1>1, <2>1, <2>2
<1>5. ASSUME NEW pc \in PC, NEW e \in Engine \cup {NoEngine},
             Enter(f, [flow[f] EXCEPT !.engine = e, !.pc = pc])
      PROVE  SameKind(f) /\ \A g \in Flow \ {f} : flow'[g] = flow[g]
  <2> DEFINE r == [flow[f] EXCEPT !.engine = e, !.pc = pc]
  <2>1. r.kind = k /\ r.session = s
    BY <1>0 DEF FlowState
  <2>2. Enter(f, r)
    BY <1>5
  <2> HIDE DEF r
  <2> QED
    BY <1>1, <2>1, <2>2
<1>6. CASE \E pc \in PC : Wait(f, s, k, pc)
  BY <1>4, <1>6 DEF Wait
<1>7. CASE \E reg, eng : Register(f, s, k, reg, eng)
  <2>1. \E e \in Available : Enter(f, [kind |-> k, session |-> s, pc |-> "saving",
                                       engine |-> e, waits |-> {}])
    BY <1>7 DEF Register
  <2> QED
    BY <1>4, <2>1 DEF PC
<1>8. CASE Retire(f, s, k)
  <2>1. CASE registry[s] # NoEngine
    <3> DEFINE pc == IF Saving(registry[s]) THEN "initial" ELSE "teardown"
    <3>1. Enter(f, [kind |-> k, session |-> s, pc |-> pc, engine |-> registry[s], waits |-> {}])
      BY <1>8, <2>1 DEF Retire
    <3>2. pc \in PC
      BY DEF PC
    <3> QED
      BY <1>4, <3>1, <3>2
  <2>2. CASE registry[s] = NoEngine
    <3> DEFINE pc == IF k = "delete" THEN "hook" ELSE "record"
    <3>1. \/ Wait(f, s, k, "fence2")
          \/ Enter(f, [kind |-> k, session |-> s, pc |-> pc, engine |-> NoEngine, waits |-> {}])
      BY <1>8, <2>2 DEF Retire
    <3>2. pc \in PC /\ "fence2" \in PC
      BY DEF PC
    <3> QED
      BY <1>4, <3>1, <3>2 DEF Wait
  <2> QED
    BY <2>1, <2>2
<1> QED
  BY <1>2, <1>3, <1>5, <1>6, <1>7, <1>8

LEMMA KindsContinue ==
    ASSUME Shaped, NEW f \in Flow, Continue(f) \/ Disturb(f)
    PROVE  \A g \in Flow : SameKind(g)
<1> DEFINE s == flow[f].session
           k == flow[f].kind
<1>0. TypeOK /\ Types /\ FlowFine(f) /\ flow[f] \in FlowState
  BY TypesOf DEF Shaped, Types
<1>1. ASSUME NEW g \in Flow, flow'[g] = flow[g] PROVE SameKind(g)
  BY <1>1 DEF SameKind
<1>2. CASE StartFenced(f)
  <2>1. Accept(f, s) /\ k = "start" /\ s \in Session
    BY <1>0, <1>2 DEF StartFenced, FlowFine, KindFine
  <2>2. flow'[f].kind = "start" /\ flow'[f].session = s /\ \A g \in Flow \ {f} : flow'[g] = flow[g]
    BY <2>1, Accepted
  <2> QED
    BY <1>1, <2>1, <2>2 DEF SameKind
<1>3. CASE StartRegister(f) \/ StartFailed(f) \/ AttemptCleared(f) \/ AttemptFenced(f)
  <2>1. \/ Leave(f)
        \/ Wait(f, s, k, "fence")
        \/ \E reg, eng : Register(f, s, k, reg, eng)
    BY <1>3 DEF StartRegister, StartFailed, AttemptCleared, AttemptFenced
  <2>2. "fence" \in PC
    BY DEF PC
  <2> QED
    BY <1>0, <1>1, <2>1, <2>2, KindsGoOn
<1>4. CASE Saved(f) \/ Launched(f) \/ Guarded(f)
  <2>1. s \in Session
    BY <1>0, <1>4 DEF Saved, Launched, Guarded, FlowFine, KindFine, KindAt
  <2>2. registry[s] \in Engine \cup {NoEngine}
    BY <1>0, <2>1 DEF Types
  <2>3. \/ Leave(f)
        \/ \E pc \in {"launching", "guard"} : Goto(f, pc)
        \/ Enter(f, [flow[f] EXCEPT !.engine = registry[s], !.pc = IF registry[s] = NoEngine THEN "residue" ELSE "retire"])
    BY <1>4 DEF Saved, Launched, Guarded, AfterInit
  <2>4. {"launching", "guard", "residue", "retire"} \subseteq PC
    BY DEF PC
  <2>5. \/ Leave(f)
        \/ \E pc \in PC : Goto(f, pc)
        \/ \E e \in Engine \cup {NoEngine}, pc \in PC : Enter(f, [flow[f] EXCEPT !.engine = e, !.pc = pc])
    BY <2>2, <2>3, <2>4
  <2> QED
    BY <1>0, <1>1, <2>5, KindsGoOn
<1>5. ASSUME NEW sta \in [Session -> Status], Fails(f, engine, sta) PROVE \A g \in Flow : SameKind(g)
  BY <1>1, <1>5, FailsIs, NothingHeld DEF SameKind
<1>6. CASE LaunchAborted(f) \/ Rejected(f) \/ Reaped(f) \/ FenceRefuses(f)
  <2>1. s \in Session
    BY <1>0, <1>6 DEF LaunchAborted, Rejected, Reaped, FenceRefuses, FlowFine, KindFine, KindAt
  <2>2. status \in [Session -> Status] /\ WithStatus(s, "disconnected") \in [Session -> Status]
    BY <1>0, <2>1, Written DEF Types, Status
  <2>3. Leave(f) \/ \E sta \in [Session -> Status] : Fails(f, engine, sta)
    BY <1>6, <2>2 DEF LaunchAborted, Rejected, Reaped, FenceRefuses
  <2> QED
    BY <1>0, <1>1, <1>5, <2>3, KindsGoOn
<1>7. CASE Retired(f) \/ Residue(f) \/ Purged(f) \/ LaunchRejected(f) \/ LaunchHangs(f)
  BY <1>0, <1>1, <1>7, KindsGoOn DEF Retired, Residue, Purged, LaunchRejected, LaunchHangs, PC
<1>8. CASE ControlBegin(f)
  <2>1. s \in Session
    BY <1>0, <1>8 DEF ControlBegin, FlowFine, KindFine, KindAt
  <2> QED
    BY <1>0, <1>1, <1>8, <2>1, KindsGoOn DEF ControlBegin, PC
<1>9. CASE DeleteFenced(f)
  <2>1. s \in Session /\ k = "delete"
    BY <1>0, <1>9 DEF DeleteFenced, FlowFine, KindFine
  <2> QED
    BY <1>0, <1>1, <1>9, <2>1, KindsGoOn DEF DeleteFenced
<1>10. CASE \/ InitialAwaited(f) \/ TornDown(f) \/ Recorded(f) \/ DeleteFencedAgain(f)
            \/ DeleteCommits(f) \/ DeletePurges(f) \/ DeleteRefused(f) \/ EnterRefused(f) \/ QueryFails(f)
  BY <1>0, <1>1, <1>10, KindsGoOn
     DEF InitialAwaited, TornDown, Recorded, DeleteFencedAgain, DeleteCommits, DeletePurges,
         DeleteRefused, EnterRefused, QueryFails, PC
<1>11. CASE SaveFails(f)
  <2> DEFINE r == [flow[f] EXCEPT !.pc = "failing"]
  <2>1. r.kind = k /\ r.session = s
    BY <1>0 DEF FlowState
  <2>2. flow' = [g \in Flow |-> IF g = f THEN r
                                ELSE IF flow[g].pc = "initial" /\ flow[g].engine = flow[f].engine
                                     THEN NoFlow ELSE flow[g]]
    BY <1>11 DEF SaveFails
  <2> HIDE DEF r
  <2>3. flow'[f] = r /\ \A g \in Flow \ {f} : flow'[g] \in {flow[g], NoFlow}
    BY <2>2
  <2> QED
    BY <2>1, <2>3, NothingHeld DEF SameKind
<1> QED
  BY <1>2, <1>3, <1>4, <1>6, <1>7, <1>8, <1>9, <1>10, <1>11
     DEF Continue, Disturb, StartStep, LaunchStep, AttemptStep, ControlStep

LEMMA KindsAsked ==
    ASSUME Shaped, NEW f \in Flow, NEW s \in Session,
           \/ Start(f, s)
           \/ \E k \in Control : StopEntered(f, s, k) \/ ControlWithEngine(f, s, k)
    PROVE  /\ \A g \in Flow \ {f} : flow'[g] = flow[g]
           /\ flow[f] = NoFlow
           /\ flow'[f].kind \in Requests /\ flow'[f].session = s
           /\ Present(s)
<1>0. Types
  BY TypesOf DEF Shaped
<1>1. CASE Start(f, s) /\ Accept(f, s)
  BY <1>1, Accepted DEF Start, Request
<1>2. CASE Start(f, s) /\ Wait(f, s, "start", "fence")
  <2>1. flow[f] = NoFlow /\ UNCHANGED engine /\ "start" \in Requests /\ Present(s)
    BY <1>2 DEF Start, Request
  <2>2. KindAt("start", "fence")
    BY DEF KindAt, Launching, Control
  <2> QED
    BY <1>2, <2>1, <2>2, Waits, NothingHeld DEF Launching, Kind, PC
<1>3. ASSUME NEW k \in Control, StopEntered(f, s, k)
      PROVE  /\ \A g \in Flow \ {f} : flow'[g] = flow[g]
             /\ flow[f] = NoFlow
             /\ flow'[f].kind \in Requests /\ flow'[f].session = s
             /\ Present(s)
  <2> DEFINE r == [NoFlow EXCEPT !.kind = k, !.session = s, !.pc = "enter"]
  <2>1. flow[f] = NoFlow /\ Enter(f, r) /\ k \in Requests /\ Present(s)
    BY <1>3 DEF StopEntered, Request
  <2>2. r \in FlowState /\ r.session = s /\ r.kind = k
    BY DEF NoFlow, FlowState, Kind, PC
  <2> HIDE DEF r
  <2> QED
    BY <1>0, <2>1, <2>2, Entered
<1>4. ASSUME NEW k \in Control, ControlWithEngine(f, s, k)
      PROVE  /\ \A g \in Flow \ {f} : flow'[g] = flow[g]
             /\ flow[f] = NoFlow
             /\ flow'[f].kind \in Requests /\ flow'[f].session = s
             /\ Present(s)
  <2>1. flow[f] = NoFlow /\ Retire(f, s, k) /\ k \in Requests /\ UNCHANGED engine /\ Present(s)
    BY <1>4 DEF ControlWithEngine, Request
  <2> QED
    BY <2>1, RetireIs, NothingHeld
<1> QED
  BY <1>1, <1>2, <1>3, <1>4 DEF Start

LEMMA KindsFire ==
    ASSUME Shaped, NEW f \in Flow, NEW s \in Session, ReconnectFires(f, s)
    PROVE  /\ \A g \in Flow \ {f} : flow'[g] = flow[g]
           /\ flow[f] = NoFlow
           /\ flow'[f] # NoFlow => flow'[f].kind = "attempt" /\ flow'[f].session = s
<1>0. Types
  BY TypesOf DEF Shaped
<1>1. \/ UNCHANGED flow
      \/ \E pc, e, w : Enter(f, [kind |-> "attempt", session |-> s, pc |-> pc, engine |-> e, waits |-> w])
  BY DEF ReconnectFires, Wait, Register
<1>2. \/ UNCHANGED flow
      \/ \E pc, e, w : flow' = [flow EXCEPT ![f] = [kind |-> "attempt", session |-> s, pc |-> pc, engine |-> e, waits |-> w]]
  BY <1>1 DEF Enter
<1>3. flow[f] = NoFlow
  BY DEF ReconnectFires
<1> QED
  BY <1>0, <1>2, <1>3 DEF Types

LEMMA StepWatched ==
    ASSUME Shaped, Watched, [Next]_vars PROVE Watched'
<1>1. ASSUME NEW f \in Flow, Continue(f) PROVE Watched'
  BY <1>1, StartStepWatched, SavedWatched, FailuresWatched, GuardedWatched, LaunchEndsWatched,
     EndsWatched, AttemptStepWatched, ControlBeginWatched, ControlStepWatched
     DEF Continue, LaunchStep, ControlStep
<1>2. ASSUME NEW f \in Flow, FenceRefuses(f), flow[f].kind # "attempt" PROVE Watched'
  <2>1. Leave(f) /\ UNCHANGED <<row, registry, stopped>> /\ flow[f].pc = "fence"
    BY <1>2 DEF FenceRefuses, marks
  <2>2. \A s \in Session : ~Watches(f, s)
    BY <2>1, WatchesOwn
  <2> QED
    BY <2>1, <2>2, LeavesWatched, TypesOf DEF Types, Shaped
<1>3. ASSUME NEW f \in Flow, Disturb(f) PROVE Watched'
  BY <1>2, <1>3, SaveFailsWatched, LaunchEndsWatched, FailuresWatched, EndsWatched DEF Disturb
<1>4. CASE Ask
  <2>1. ASSUME NEW s \in Session, Create(s) PROVE Watched'
    <3>1. UNCHANGED <<flow, stopped, registry>>
      BY <2>1 DEF Create, marks
    <3> QED
      BY <3>1, Unmoved
  <2> QED
    BY <1>4, <2>1, AskWatched DEF Ask
<1>5. CASE UNCHANGED vars
  <2>1. UNCHANGED <<flow, stopped>> /\ UNCHANGED registry
    BY <1>5 DEF vars
  <2> QED
    BY <2>1, Unmoved
<1> QED
  BY <1>1, <1>3, <1>4, <1>5, ReconnectFiresWatched, ReportsWatched DEF Next

\* A stop sticks: once the flows of a session that a control has taken down are
\* over no engine is registered for it, until a start or the end of a deletion
\* takes the mark back, whatever was in flight when the control came.
THEOREM StopsStick == Spec => []StopSticks
<1> DEFINE Inv == Shaped /\ Watched
<1>1. Init => Inv
  BY Booted DEF Init, Watched
<1>2. Inv /\ [Next]_vars => Inv'
  BY StepKeeps, StepWatched
<1>3. Inv => StopSticks
  BY DEF Watched, Watches, StopSticks, Quiet
<1> QED
  BY <1>1, <1>2, <1>3, PTL DEF Spec

-----------------------------------------------------------------------------
\* One engine at a time, while nothing reconnects.

\* No connection drops, so no timer is ever armed.
NoReconnects == Faults \cap {"drop", "early", "unlink", "stuck"} = {}

\* The phases of an engine that has been launched and not torn down.
Spawned == {"launching", "up", "dead"}

\* Only operators act, one start of a session at a time, and it alone builds.
Alone ==
    /\ dropping = {} /\ clearing = {}
    /\ \A s \in Session : reconnect[s] \in {"none", "dormant"}
    /\ \A f \in Flow : flow[f].kind # "attempt"
    /\ \A e \in Engine : engine[e].phase \in Spawned => IsLive(e)
    /\ \A f, g \in Flow : flow[f].kind = "start" /\ flow[g].kind = "start"
                          /\ flow[f].session = flow[g].session => f = g
    /\ \A f \in Flow : flow[f].kind = "start" =>
          /\ flow[f].pc \in {"fence", "hook"} => registry[flow[f].session] = NoEngine
          /\ flow[f].pc \in Launching => registry[flow[f].session] \in {NoEngine, flow[f].engine}

\* Flow f is a start only as it was one.
Follows(f) ==
    /\ flow'[f].kind # "attempt"
    /\ flow'[f].kind = "start" =>
          /\ flow[f].kind = "start" /\ flow'[f].session = flow[f].session
          /\ flow'[f].pc \in {"fence", "hook"} => flow[f].pc \in {"fence", "hook"}
          /\ flow'[f].pc \in Launching => flow[f].pc \in Launching /\ flow'[f].engine = flow[f].engine

\* A step that builds nothing.
LEMMA AloneShrinks ==
    ASSUME Shaped, Alone, \A g \in Flow : Follows(g),
           \A e \in Engine : engine'[e].owner = engine[e].owner,
           \A e \in Engine : engine'[e].phase \in Spawned => IsLive(e) /\ registry'[engine[e].owner] = e,
           \A s \in Session : registry'[s] \in {registry[s], NoEngine},
           \A s \in Session : reconnect'[s] \in {"none", "dormant"},
           dropping' = {}, clearing' = {}
    PROVE  Alone'
<1>1. \A e \in Engine : engine'[e].phase \in Spawned => IsLive(e)'
  BY DEF IsLive
<1>2. \A f, g \in Flow : flow'[f].kind = "start" /\ flow'[g].kind = "start"
                         /\ flow'[f].session = flow'[g].session => f = g
  BY DEF Follows, Alone
<1>3. ASSUME NEW f \in Flow, flow'[f].kind = "start"
      PROVE  /\ flow'[f].pc \in {"fence", "hook"} => registry'[flow'[f].session] = NoEngine
             /\ flow'[f].pc \in Launching => registry'[flow'[f].session] \in {NoEngine, flow'[f].engine}
  <2>1. flow[f].kind = "start" /\ flow[f].session \in Session /\ flow'[f].session = flow[f].session
    BY <1>3 DEF Follows, Shaped, FlowFine, KindFine
  <2>2. registry'[flow[f].session] \in {registry[flow[f].session], NoEngine}
    BY <2>1
  <2> QED
    BY <1>3, <2>1, <2>2 DEF Follows, Alone
<1> QED
  BY <1>1, <1>2, <1>3 DEF Alone, Follows

\* A step that changes no engine.
LEMMA AloneStill ==
    ASSUME Shaped, Alone, UNCHANGED <<engine, registry, dropping, clearing>>, \A g \in Flow : Follows(g),
           \A s \in Session : reconnect'[s] \in {"none", "dormant"}
    PROVE  Alone'
  BY AloneShrinks DEF Alone, IsLive

LEMMA FollowsSame ==
    ASSUME Alone, NEW g \in Flow, flow'[g] = flow[g] PROVE Follows(g)
  BY DEF Follows, Alone

\* A flow that is no start, or ends, or goes on to where nothing is built.
LEMMA FollowsOn ==
    ASSUME Alone, NEW f \in Flow, SameKind(f),
           \/ flow[f].kind # "start"
           \/ flow'[f].pc \notin {"fence", "hook"} \cup Launching
    PROVE  Follows(f)
  BY DEF Follows, SameKind, Alone

LEMMA AloneStart ==
    ASSUME Shaped, Alone, NEW f \in Flow, NEW s \in Session, Start(f, s) PROVE Alone'
<1>0. Types
  BY TypesOf DEF Shaped
<1>1. /\ UNCHANGED <<engine, registry, dropping, clearing>> /\ flow[f] = NoFlow /\ registry[s] = NoEngine
      /\ \A g \in Flow : ~(flow[g].kind = "start" /\ flow[g].session = s)
      /\ \A t \in Session : reconnect'[t] \in {"none", "dormant"}
  BY <1>0 DEF Start, disk, Accept, Types, Alone
<1>2. /\ \A g \in Flow \ {f} : flow'[g] = flow[g]
      /\ flow'[f].kind = "start" /\ flow'[f].session = s /\ flow'[f].pc \in {"fence", "hook"}
  <2>1. CASE Accept(f, s)
    BY <2>1, Accepted
  <2>2. CASE Wait(f, s, "start", "fence")
    <3>1. KindAt("start", "fence")
      BY DEF KindAt, Launching, Control
    <3> QED
      BY <1>1, <2>2, <3>1, Waits, NothingHeld DEF Launching, Kind, PC
  <2> QED
    BY <2>1, <2>2 DEF Start
<1>3. \A g, h \in Flow : flow'[g].kind = "start" /\ flow'[h].kind = "start"
                         /\ flow'[g].session = flow'[h].session => g = h
  BY <1>1, <1>2 DEF Alone
<1>4. \A g \in Flow : flow'[g].kind = "start" =>
          /\ flow'[g].pc \in {"fence", "hook"} => registry'[flow'[g].session] = NoEngine
          /\ flow'[g].pc \in Launching => registry'[flow'[g].session] \in {NoEngine, flow'[g].engine}
  BY <1>1, <1>2 DEF Alone, Launching
<1> QED
  BY <1>1, <1>2, <1>3, <1>4 DEF Alone, IsLive

LEMMA AloneRegister ==
    ASSUME Shaped, Alone, NEW f \in Flow, StartRegister(f) PROVE Alone'
<1>0. Types /\ FlowFine(f)
  BY TypesOf DEF Shaped
<1> DEFINE s == flow[f].session
<1>1. /\ UNCHANGED <<dropping, clearing>> /\ s \in Session /\ registry[s] = NoEngine
      /\ Register(f, s, "start", registry, engine) /\ flow[f].kind = "start"
      /\ \A t \in Session : reconnect'[t] \in {"none", "dormant"}
  BY <1>0 DEF StartRegister, disk, FlowFine, KindFine, Types, Alone
<1>2. PICK e \in Available :
        /\ engine' = [engine EXCEPT ![e] = [owner |-> s, phase |-> "built"]]
        /\ registry' = [registry EXCEPT ![s] = e]
        /\ flow' = [flow EXCEPT ![f] = [kind |-> "start", session |-> s, pc |-> "saving",
                                        engine |-> e, waits |-> {}]]
  BY <1>1 DEF Register, Enter
<1>3. /\ flow'[f] = [kind |-> "start", session |-> s, pc |-> "saving", engine |-> e, waits |-> {}]
      /\ \A g \in Flow \ {f} : flow'[g] = flow[g]
  BY <1>0, <1>2 DEF Types
<1>4. /\ registry'[s] = e /\ \A t \in Session \ {s} : registry'[t] = registry[t]
      /\ engine'[e].phase = "built" /\ \A d \in Engine \ {e} : engine'[d] = engine[d]
  BY <1>0, <1>1, <1>2 DEF Types, Available
<1>5. ASSUME NEW d \in Engine, engine'[d].phase \in Spawned PROVE IsLive(d)'
  <2>1. d # e
    BY <1>4, <1>5 DEF Spawned
  <2>2. IsLive(d) /\ engine'[d] = engine[d]
    BY <2>1, <1>4, <1>5 DEF Alone
  <2>3. engine[d].owner # s
    BY <2>2, <1>1, LifecycleAssumption DEF IsLive
  <2>4. engine[d].owner \in Session
    BY <1>0, <2>2 DEF IsLive, Types
  <2> QED
    BY <2>2, <2>3, <2>4, <1>4 DEF IsLive
<1>6. \A g, h \in Flow : flow'[g].kind = "start" /\ flow'[h].kind = "start"
                         /\ flow'[g].session = flow'[h].session => g = h
  BY <1>1, <1>3 DEF Alone
<1>7. ASSUME NEW g \in Flow, flow'[g].kind = "start"
      PROVE  /\ flow'[g].pc \in {"fence", "hook"} => registry'[flow'[g].session] = NoEngine
             /\ flow'[g].pc \in Launching => registry'[flow'[g].session] \in {NoEngine, flow'[g].engine}
  <2>1. CASE g = f
    BY <2>1, <1>3, <1>4
  <2>2. CASE g # f
    <3>1. flow'[g] = flow[g] /\ flow[g].session \in Session \ {s}
      BY <2>2, <1>1, <1>3, <1>7 DEF Alone, Shaped, FlowFine, KindFine
    <3> QED
      BY <3>1, <1>4, <1>7 DEF Alone
  <2> QED
    BY <2>1, <2>2
<1> QED
  BY <1>1, <1>3, <1>5, <1>6, <1>7 DEF Alone

\* Tearing down what is registered for s, and no more, leaves no engine alone.
LEMMA LiveOnes ==
    ASSUME Shaped, \A d \in Engine : engine[d].phase \in Spawned => IsLive(d),
           NEW s \in Session, NEW e \in Engine \cup {NoEngine}, e # NoEngine => engine[e].owner = s,
           registry[s] \in {NoEngine, e},
           engine' = Torn(engine, e), registry' = [registry EXCEPT ![s] = NoEngine]
    PROVE  /\ \A d \in Engine : engine'[d].owner = engine[d].owner
           /\ \A d \in Engine : engine'[d].phase \in Spawned =>
                  IsLive(d) /\ registry'[engine[d].owner] = d /\ engine'[d].phase = engine[d].phase
           /\ \A t \in Session : registry'[t] \in {registry[t], NoEngine}
<1>0. engine \in EngineTable /\ registry \in [Session -> Engine \cup {NoEngine}]
  BY DEF Shaped, TypeOK, EngineTable
<1>1. /\ \A d \in Engine : engine'[d].owner = engine[d].owner
      /\ \A d \in Engine \ {e} : engine'[d] = engine[d]
      /\ e # NoEngine => engine'[e].phase = "torn"
  BY <1>0, TornIs
<1>2. ASSUME NEW d \in Engine, engine'[d].phase \in Spawned
      PROVE  IsLive(d) /\ registry'[engine[d].owner] = d /\ engine'[d].phase = engine[d].phase
  <2>1. d # e
    BY <1>1, <1>2, LifecycleAssumption DEF Spawned
  <2>2. IsLive(d) /\ engine'[d].phase = engine[d].phase
    BY <1>1, <1>2, <2>1
  <2>3. engine[d].owner \in Session \ {s}
    BY <1>0, <2>1, <2>2, LifecycleAssumption DEF IsLive, EngineTable
  <2> QED
    BY <1>0, <2>2, <2>3 DEF IsLive
<1> QED
  BY <1>0, <1>1, <1>2

LEMMA LiveOnesDowned ==
    ASSUME Shaped, \A d \in Engine : engine[d].phase \in Spawned => IsLive(d),
           NEW e \in Engine \cup {NoEngine},
           engine' = Torn(engine, e), registry' = DeleteIfLive(e)
    PROVE  /\ \A d \in Engine : engine'[d].owner = engine[d].owner
           /\ \A d \in Engine : engine'[d].phase \in Spawned =>
                  IsLive(d) /\ registry'[engine[d].owner] = d /\ engine'[d].phase = engine[d].phase
           /\ \A t \in Session : registry'[t] \in {registry[t], NoEngine}
<1>0. Types /\ engine \in EngineTable
  BY TypesOf DEF Shaped, Types, EngineTable
<1>1. /\ \A d \in Engine : engine'[d].owner = engine[d].owner
      /\ \A d \in Engine \ {e} : engine'[d] = engine[d]
      /\ e # NoEngine => engine'[e].phase = "torn"
  BY <1>0, TornIs
<1>2. \A t \in Session : /\ registry'[t] \in {registry[t], NoEngine}
                         /\ registry[t] # e => registry'[t] = registry[t]
  BY <1>0, Unregistered
<1>3. ASSUME NEW d \in Engine, engine'[d].phase \in Spawned
      PROVE  IsLive(d) /\ registry'[engine[d].owner] = d /\ engine'[d].phase = engine[d].phase
  <2>1. d # e
    BY <1>1, <1>3, LifecycleAssumption DEF Spawned
  <2>2. IsLive(d) /\ engine'[d].phase = engine[d].phase
    BY <1>1, <1>3, <2>1
  <2>3. engine[d].owner \in Session
    BY <1>0, <2>2 DEF IsLive, EngineTable
  <2> QED
    BY <1>2, <2>1, <2>2, <2>3 DEF IsLive
<1> QED
  BY <1>1, <1>2, <1>3

LEMMA AloneFails ==
    ASSUME Shaped, Alone, NEW f \in Flow, NEW sta \in [Session -> Status], Fails(f, engine, sta),
           Continue(f) \/ Disturb(f), UNCHANGED <<dropping, clearing>>
    PROVE  Alone'
<1> DEFINE s == flow[f].session
<1>0. TypeOK /\ Types
  BY TypesOf DEF Shaped
<1>1. /\ engine' = Torn(engine, registry[s]) /\ registry' = [registry EXCEPT ![s] = NoEngine]
      /\ s \in Session /\ flow[f].kind = "start"
      /\ flow'[f] = NoFlow \/ flow'[f].pc = "failed"
      /\ \A g \in Flow \ {f} : flow'[g] = flow[g]
  BY FailsIs DEF Alone
<1>2. registry[s] \in Engine \cup {NoEngine} /\ (registry[s] # NoEngine => engine[registry[s]].owner = s)
  BY <1>0, <1>1 DEF TypeOK
<1>3. /\ \A d \in Engine : engine'[d].owner = engine[d].owner
      /\ \A d \in Engine : engine'[d].phase \in Spawned => IsLive(d) /\ registry'[engine[d].owner] = d
      /\ \A t \in Session : registry'[t] \in {registry[t], NoEngine}
  BY <1>1, <1>2, LiveOnes DEF Alone
<1>4. \A t \in Session : reconnect'[t] \in {"none", "dormant"}
  BY <1>0, <1>1 DEF Fails, Alone, Types
<1>5. \A g \in Flow : Follows(g)
  <2>1. SameKind(f) /\ flow'[f].pc \notin {"fence", "hook"} \cup Launching
    BY <1>1, KindsContinue, NothingHeld DEF Launching
  <2> QED
    BY <1>1, <2>1, FollowsOn, FollowsSame
<1> QED
  BY <1>3, <1>4, <1>5, AloneShrinks DEF Alone

LEMMA AloneStarts ==
    ASSUME Shaped, Alone, NEW f \in Flow, StartFenced(f) \/ StartFailed(f) PROVE Alone'
<1>0. Types /\ FlowFine(f)
  BY TypesOf DEF Shaped
<1>1. UNCHANGED <<engine, registry, dropping, clearing>>
      /\ \A s \in Session : reconnect'[s] \in {"none", "dormant"}
  BY <1>0 DEF StartFenced, StartFailed, Accept, disk, Alone, Types
<1>2. CASE StartFenced(f)
  <2>1. flow[f].pc = "fence" /\ flow[f].kind = "start" /\ flow[f].session \in Session
        /\ Accept(f, flow[f].session)
    BY <1>0, <1>2 DEF StartFenced, FlowFine, KindFine
  <2>2. flow'[f].kind = "start" /\ flow'[f].session = flow[f].session /\ flow'[f].pc = "hook"
        /\ \A g \in Flow \ {f} : flow'[g] = flow[g]
    BY <2>1, Accepted
  <2>3. Follows(f)
    BY <2>1, <2>2 DEF Follows, Launching
  <2> QED
    BY <1>1, <2>2, <2>3, FollowsSame, AloneStill
<1>3. CASE StartFailed(f)
  <2>1. flow'[f] = NoFlow /\ \A g \in Flow \ {f} : flow'[g] = flow[g]
    BY <1>0, <1>3, Left DEF StartFailed
  <2>2. Follows(f)
    BY <2>1, NothingHeld DEF Follows
  <2> QED
    BY <1>1, <2>1, <2>2, FollowsSame, AloneStill
<1> QED
  BY <1>2, <1>3

LEMMA AloneSaved ==
    ASSUME Shaped, Alone, NEW f \in Flow, Saved(f) \/ Launched(f) PROVE Alone'
<1>0. Types /\ FlowFine(f) /\ flow[f] \in FlowState
  BY TypesOf DEF Shaped, Types
<1>1. UNCHANGED <<registry, dropping, clearing, reconnect>>
      /\ flow[f].pc \in Launching /\ flow[f].engine \in Engine
      /\ \A g \in Flow : SameKind(g)
  BY <1>0, KindsContinue DEF Saved, Launched, disk, Launching, FlowFine, FlowState, Continue, LaunchStep
<1>2. PICK e \in Engine : e = flow[f].engine
  BY <1>1
<1>3. /\ \A d \in Engine : engine'[d].owner = engine[d].owner
      /\ \A d \in Engine : engine'[d].phase \in Spawned => IsLive(d)
  <2>1. CASE IsLive(e) /\ engine' = [engine EXCEPT ![e].phase = "launching"]
    BY <1>0, <2>1, Rephased DEF Phase, Alone
  <2>2. CASE engine[e].phase = "launching" /\ engine' = [engine EXCEPT ![e].phase = "up"]
    BY <1>0, <2>2, Rephased DEF Phase, Alone, Spawned
  <2>3. CASE engine' = engine
    BY <2>3 DEF Alone
  <2> QED
    BY <1>2, <2>1, <2>2, <2>3 DEF Saved, Launched
<1>4. \A d \in Engine : engine'[d].phase \in Spawned => IsLive(d) /\ registry'[engine[d].owner] = d
  BY <1>1, <1>3 DEF IsLive
<1>5. \A g \in Flow : Follows(g)
  <2>1. CASE AfterInit(f)
    <3>1. flow'[f].pc \in {"guard", "residue", "retire"} /\ \A g \in Flow \ {f} : flow'[g] = flow[g]
      BY <1>1, <1>3, <2>1, Returned
    <3> QED
      BY <1>1, <3>1, FollowsOn, FollowsSame DEF Launching
  <2>2. CASE Goto(f, "launching") /\ flow[f].pc = "saving"
    <3>1. KindAt(flow[f].kind, "launching") /\ flow[f].kind # "none" /\ flow[f].engine # NoEngine
      BY <1>0, <1>1, <2>2 DEF KindAt, Launching, Control, FlowFine, KindFine
    <3>2. /\ flow'[f].pc = "launching" /\ flow'[f].engine = flow[f].engine
          /\ \A g \in Flow \ {f} : flow'[g] = flow[g]
      BY <1>3, <2>2, <3>1, Went DEF Launching, PC
    <3>3. Follows(f)
      BY <1>1, <2>2, <3>2 DEF Follows, SameKind, Launching, Alone
    <3> QED
      BY <3>2, <3>3, FollowsSame
  <2> QED
    BY <2>1, <2>2 DEF Saved, Launched
<1> QED
  BY <1>1, <1>3, <1>4, <1>5, AloneShrinks DEF Alone

LEMMA GoesTo ==
    ASSUME Types, NEW f \in Flow, NEW pc \in PC, Goto(f, pc)
    PROVE  /\ flow'[f].kind = flow[f].kind /\ flow'[f].session = flow[f].session
           /\ flow'[f].engine = flow[f].engine /\ flow'[f].pc = pc
           /\ \A g \in Flow \ {f} : flow'[g] = flow[g]
<1> DEFINE r == [flow[f] EXCEPT !.pc = pc, !.waits = {}]
<1>1. /\ r \in FlowState /\ r.kind = flow[f].kind /\ r.session = flow[f].session
      /\ r.engine = flow[f].engine /\ r.pc = pc
  BY DEF FlowState, Types
<1>2. Enter(f, r)
  BY DEF Goto
<1> HIDE DEF r
<1> QED
  BY <1>1, <1>2, Entered

LEMMA AloneLaunchEnds ==
    ASSUME Shaped, Alone, NEW f \in Flow, LaunchRejected(f) \/ LaunchHangs(f) \/ Retired(f)
    PROVE  Alone'
<1>0. Types /\ FlowFine(f) /\ flow[f] \in FlowState
  BY TypesOf DEF Shaped, Types
<1>1. UNCHANGED <<dropping, clearing, reconnect>> /\ \A g \in Flow : SameKind(g)
  BY KindsContinue DEF LaunchRejected, LaunchHangs, Retired, disk, Disturb, Continue, LaunchStep
<1>2. \A g \in Flow : Follows(g)
  <2>1. \E pc \in {"failing", "reap", "residue"} : Goto(f, pc)
    BY DEF LaunchRejected, LaunchHangs, Retired
  <2>2. flow'[f].pc \in {"failing", "reap", "residue"} /\ \A g \in Flow \ {f} : flow'[g] = flow[g]
    BY <1>0, <2>1, GoesTo DEF PC
  <2> QED
    BY <1>1, <2>2, FollowsOn, FollowsSame DEF Launching
<1>3. flow[f].engine \in Engine \cup {NoEngine} /\ (flow[f].engine # NoEngine => engine[flow[f].engine].owner = flow[f].session)
  BY <1>0 DEF FlowState, FlowFine
<1>4. CASE LaunchRejected(f)
  <2>1. PICK e \in Engine : e = flow[f].engine
    BY <1>0, <1>4 DEF LaunchRejected, FlowFine, FlowState, Launching
  <2>2. /\ \A d \in Engine : engine'[d].owner = engine[d].owner
        /\ \A d \in Engine \ {e} : engine'[d] = engine[d]
        /\ engine[e].phase = "launching" /\ UNCHANGED registry
    BY <1>0, <1>4, <2>1, Rephased DEF LaunchRejected, Phase
  <2>3. \A d \in Engine : engine'[d].phase \in Spawned => IsLive(d) /\ registry'[engine[d].owner] = d
    BY <2>2 DEF Alone, Spawned, IsLive
  <2> QED
    BY <1>0, <1>1, <1>2, <2>2, <2>3, AloneShrinks DEF Alone, Types
<1>5. CASE LaunchHangs(f)
  <2>1. /\ flow[f].session \in Session /\ flow[f].kind = "start" /\ flow[f].pc \in Launching
        /\ engine' = Torn(engine, flow[f].engine)
        /\ registry' = [registry EXCEPT ![flow[f].session] = NoEngine]
    BY <1>0, <1>5 DEF LaunchHangs, Launching, FlowFine, KindFine, KindAt, Alone
  <2>2. registry[flow[f].session] \in {NoEngine, flow[f].engine}
    BY <2>1 DEF Alone
  <2>3. /\ \A d \in Engine : engine'[d].owner = engine[d].owner
        /\ \A d \in Engine : engine'[d].phase \in Spawned => IsLive(d) /\ registry'[engine[d].owner] = d
        /\ \A t \in Session : registry'[t] \in {registry[t], NoEngine}
    BY <1>3, <2>1, <2>2, LiveOnes DEF Alone
  <2> QED
    BY <1>1, <1>2, <2>3, AloneShrinks DEF Alone
<1>6. CASE Retired(f)
  <2>1. engine' = Torn(engine, flow[f].engine) /\ registry' = DeleteIfLive(flow[f].engine)
    BY <1>6 DEF Retired
  <2>2. /\ \A d \in Engine : engine'[d].owner = engine[d].owner
        /\ \A d \in Engine : engine'[d].phase \in Spawned => IsLive(d) /\ registry'[engine[d].owner] = d
        /\ \A t \in Session : registry'[t] \in {registry[t], NoEngine}
    BY <1>3, <2>1, LiveOnesDowned DEF Alone
  <2> QED
    BY <1>1, <1>2, <2>2, AloneShrinks DEF Alone
<1> QED
  BY <1>4, <1>5, <1>6

LEMMA AloneTornDown ==
    ASSUME Shaped, Alone, NEW f \in Flow, TornDown(f) PROVE Alone'
<1>0. Types /\ flow[f] \in FlowState
  BY TypesOf DEF Shaped, Types
<1>1. /\ UNCHANGED <<dropping, clearing, reconnect>> /\ flow[f].kind # "start"
      /\ engine' = Torn(engine, flow[f].engine) /\ registry' = DeleteIfLive(flow[f].engine)
      /\ flow[f].engine \in Engine \cup {NoEngine} /\ \A g \in Flow : SameKind(g)
  BY <1>0, KindsContinue DEF TornDown, disk, FlowState, Control, Continue, ControlStep
<1>2. \E r : Enter(f, r)
  BY DEF TornDown, Goto, Wait
<1>3. \A g \in Flow \ {f} : flow'[g] = flow[g]
  BY <1>0, <1>2 DEF Enter, Types
<1>4. \A g \in Flow : Follows(g)
  BY <1>1, <1>3, FollowsOn, FollowsSame
<1>5. /\ \A d \in Engine : engine'[d].owner = engine[d].owner
      /\ \A d \in Engine : engine'[d].phase \in Spawned => IsLive(d) /\ registry'[engine[d].owner] = d
      /\ \A t \in Session : registry'[t] \in {registry[t], NoEngine}
  BY <1>1, LiveOnesDowned DEF Alone
<1> QED
  BY <1>1, <1>4, <1>5, AloneShrinks DEF Alone

\* The other steps of a control, and what ends a flow.
LEMMA AloneMoves ==
    ASSUME Shaped, Alone, NEW f \in Flow,
           \/ Guarded(f) \/ Residue(f) \/ Purged(f) \/ ControlBegin(f) \/ DeleteFenced(f)
           \/ InitialAwaited(f) \/ Recorded(f) \/ DeleteFencedAgain(f) \/ DeleteCommits(f)
           \/ DeletePurges(f) \/ SaveFails(f) \/ DeleteRefused(f) \/ EnterRefused(f) \/ QueryFails(f)
           \/ FenceRefuses(f) /\ Leave(f) /\ UNCHANGED <<engine, registry, reconnect>>
    PROVE  Alone'
<1>0. Types /\ FlowFine(f) /\ flow[f] \in FlowState
  BY TypesOf DEF Shaped, Types
<1>1. UNCHANGED <<engine, registry, dropping, clearing>>
  BY DEF Guarded, Residue, Purged, ControlBegin, DeleteFenced, InitialAwaited, Recorded,
         DeleteFencedAgain, DeleteCommits, DeletePurges, SaveFails, DeleteRefused, EnterRefused, QueryFails,
         FenceRefuses, disk
<1>2. \A s \in Session : reconnect'[s] \in {"none", "dormant"}
  <2>1. \A t : \A s \in Session : [reconnect EXCEPT ![t] = "none"][s] \in {"none", "dormant"}
    BY <1>0 DEF Alone, Types
  <2>2. \/ UNCHANGED reconnect
        \/ \E t : reconnect' = [reconnect EXCEPT ![t] = "none"]
    BY DEF Guarded, Residue, Purged, ControlBegin, DeleteFenced, InitialAwaited, Recorded, Retire,
           DeleteFencedAgain, DeleteCommits, DeletePurges, SaveFails, DeleteRefused, EnterRefused, QueryFails
  <2> QED
    BY <2>1, <2>2 DEF Alone
<1>3. \A g \in Flow : SameKind(g)
  BY KindsContinue DEF Continue, Disturb, LaunchStep, ControlStep
<1>4. CASE \A g \in Flow \ {f} : flow'[g] = flow[g]
  <2>1. flow[f].kind # "start" \/ flow'[f].pc \notin {"fence", "hook"} \cup Launching
    <3>1. CASE Leave(f)
      BY <1>0, <3>1, Left, NothingHeld DEF Launching
    <3>2. CASE \E pc \in {"purge", "failing"} : Goto(f, pc)
      <4>1. flow'[f].pc \in {"purge", "failing"}
        BY <1>0, <3>2, GoesTo DEF PC
      <4> QED
        BY <4>1 DEF Launching
    <3>3. CASE Guarded(f) /\ ~Present(flow[f].session)
      <4> DEFINE e == registry[flow[f].session]
                 pc == IF e = NoEngine THEN "residue" ELSE "retire"
                 r == [flow[f] EXCEPT !.engine = e, !.pc = pc]
      <4>1. r.pc \in {"residue", "retire"}
        BY <1>0 DEF FlowState
      <4>2. flow'[f] = r
        BY <1>0, <3>3 DEF Guarded, Enter, Types
      <4> HIDE DEF r
      <4> QED
        BY <4>1, <4>2 DEF Launching
    <3>4. CASE SaveFails(f)
      <4>1. [flow[f] EXCEPT !.pc = "failing"].pc = "failing"
        BY <1>0 DEF FlowState
      <4>2. flow'[f] = [flow[f] EXCEPT !.pc = "failing"]
        BY <3>4 DEF SaveFails
      <4> QED
        BY <4>1, <4>2 DEF Launching
    <3>5. CASE flow[f].kind # "start"
      BY <3>5
    <3>6. \/ Guarded(f) \/ Residue(f) \/ Purged(f) \/ SaveFails(f) \/ flow[f].kind # "start" \/ Leave(f)
      BY <1>0 DEF ControlBegin, DeleteFenced, InitialAwaited, Recorded, DeleteFencedAgain,
                  DeleteCommits, DeletePurges, DeleteRefused, EnterRefused, QueryFails, FlowFine, KindFine, KindAt, Control
    <3>7. Guarded(f) /\ Present(flow[f].session) => Leave(f)
      BY DEF Guarded
    <3>8. Residue(f) \/ Purged(f) => Leave(f) \/ \E pc \in {"purge", "failing"} : Goto(f, pc)
      BY DEF Residue, Purged
    <3> QED
      BY <3>1, <3>2, <3>3, <3>4, <3>5, <3>6, <3>7, <3>8
  <2> QED
    BY <1>1, <1>2, <1>3, <1>4, <2>1, FollowsOn, FollowsSame, AloneStill
<1>5. CASE SaveFails(f)
  <2> DEFINE r == [flow[f] EXCEPT !.pc = "failing"]
  <2>1. r.pc = "failing"
    BY <1>0 DEF FlowState
  <2>2. flow' = [g \in Flow |-> IF g = f THEN r
                                ELSE IF flow[g].pc = "initial" /\ flow[g].engine = flow[f].engine
                                     THEN NoFlow ELSE flow[g]]
    BY <1>5 DEF SaveFails
  <2> HIDE DEF r
  <2>3. flow'[f].pc = "failing" /\ \A g \in Flow \ {f} : flow'[g] \in {flow[g], NoFlow}
    BY <2>1, <2>2
  <2>4. \A g \in Flow : Follows(g)
    BY <1>3, <2>3, FollowsOn, FollowsSame, NothingHeld DEF Launching
  <2> QED
    BY <1>1, <1>2, <2>4, AloneStill
<1>6. SaveFails(f) \/ \E r : Enter(f, r)
  BY DEF Guarded, Residue, Purged, ControlBegin, DeleteFenced, InitialAwaited, Recorded, Retire, Leave, Goto, Wait,
         DeleteFencedAgain, DeleteCommits, DeletePurges, DeleteRefused, EnterRefused, QueryFails
<1>7. SaveFails(f) \/ \A g \in Flow \ {f} : flow'[g] = flow[g]
  BY <1>0, <1>6 DEF Enter, Types
<1> QED
  BY <1>4, <1>5, <1>7

LEMMA AloneControls ==
    ASSUME Shaped, Alone, NEW f \in Flow, NEW s \in Session, NEW k \in Control,
           StopEntered(f, s, k) \/ ControlWithEngine(f, s, k)
    PROVE  Alone'
<1>0. Types
  BY TypesOf DEF Shaped
<1>1. /\ UNCHANGED <<engine, registry, dropping, clearing>> /\ flow[f] = NoFlow
      /\ \A t \in Session : reconnect'[t] \in {"none", "dormant"}
  BY <1>0 DEF StopEntered, ControlWithEngine, Retire, disk, Types, Alone
<1>2. flow'[f].kind = k /\ \A g \in Flow \ {f} : flow'[g] = flow[g]
  <2>1. CASE StopEntered(f, s, k)
    <3> DEFINE r == [NoFlow EXCEPT !.kind = k, !.session = s, !.pc = "enter"]
    <3>1. r \in FlowState /\ r.kind = k
      BY DEF NoFlow, FlowState, Kind, PC
    <3>2. Enter(f, r)
      BY <2>1 DEF StopEntered
    <3> HIDE DEF r
    <3> QED
      BY <1>0, <3>1, <3>2, Entered
  <2>2. CASE ControlWithEngine(f, s, k)
    <3>1. Retire(f, s, k)
      BY <2>2 DEF ControlWithEngine
    <3> QED
      BY <1>1, <3>1, RetireIs, NothingHeld
  <2> QED
    BY <2>1, <2>2
<1>3. \A g \in Flow : Follows(g)
  BY <1>2, FollowsSame DEF Follows, Control
<1> QED
  BY <1>1, <1>3, AloneStill

LEMMA AloneFailures ==
    ASSUME Shaped, Alone, NEW f \in Flow,
           LaunchAborted(f) \/ Rejected(f) \/ Reaped(f) \/ FenceRefuses(f)
    PROVE  Alone'
<1>0. Types /\ FlowFine(f)
  BY TypesOf DEF Shaped
<1>1. flow[f].session \in Session /\ flow[f].kind # "attempt" /\ UNCHANGED <<dropping, clearing>>
  BY <1>0 DEF LaunchAborted, Rejected, Reaped, FenceRefuses, FlowFine, KindFine, KindAt, disk, Alone
<1>2. status \in [Session -> Status] /\ WithStatus(flow[f].session, "disconnected") \in [Session -> Status]
  BY <1>0, <1>1, Written DEF Types, Status
<1>3. CASE LaunchAborted(f) \/ Rejected(f) \/ Reaped(f)
  <2>1. \E sta \in [Session -> Status] : Fails(f, engine, sta)
    BY <1>2, <1>3 DEF LaunchAborted, Rejected, Reaped
  <2> QED
    BY <1>1, <1>3, <2>1, AloneFails DEF Continue, LaunchStep
<1>4. CASE FenceRefuses(f)
  <2>1. Leave(f) /\ UNCHANGED <<engine, registry, reconnect>>
    BY <1>1, <1>4 DEF FenceRefuses
  <2> QED
    BY <1>4, <2>1, AloneMoves
<1> QED
  BY <1>3, <1>4

LEMMA AloneReports ==
    ASSUME Shaped, Alone, NoReconnects, NEW e \in Engine, Callback(e) \/ Mishap(e)
    PROVE  Alone'
<1>0. Types
  BY TypesOf DEF Shaped
<1>1. Wiped(e) \/ Errs(e)
  BY DEF Callback, Mishap, DropHandled, Cleared, DropLost, Drops, Unlinked, Stuck, EngineFails,
         Fault, NoReconnects, Alone
<1>2. UNCHANGED <<flow, dropping, clearing>>
  BY <1>1 DEF Wiped, Errs, disk
<1>3. \A g \in Flow : Follows(g)
  BY <1>2, FollowsSame
<1>4. CASE Wiped(e)
  <2>1. UNCHANGED <<engine, registry, reconnect>>
    BY <1>4 DEF Wiped
  <2> QED
    BY <1>2, <1>3, <2>1, AloneStill DEF Alone
<1>5. CASE Errs(e)
  <2>1. /\ IsLive(e) /\ engine' = Torn(engine, e)
        /\ registry' = [registry EXCEPT ![engine[e].owner] = NoEngine]
        /\ reconnect' = [reconnect EXCEPT ![engine[e].owner] = "none"]
    BY <1>5 DEF Errs, EngineFails
  <2>2. engine[e].owner \in Session /\ registry[engine[e].owner] = e
    BY <1>0, <2>1 DEF IsLive, Types
  <2>3. /\ \A d \in Engine : engine'[d].owner = engine[d].owner
        /\ \A d \in Engine : engine'[d].phase \in Spawned => IsLive(d) /\ registry'[engine[d].owner] = d
        /\ \A t \in Session : registry'[t] \in {registry[t], NoEngine}
    BY <2>1, <2>2, LiveOnes DEF Alone
  <2>4. \A t \in Session : reconnect'[t] \in {"none", "dormant"}
    BY <1>0, <2>1, <2>2 DEF Alone, Types
  <2> QED
    BY <1>2, <1>3, <2>3, <2>4, AloneShrinks DEF Alone
<1> QED
  BY <1>1, <1>4, <1>5

LEMMA StepAlone ==
    ASSUME Shaped, Alone, NoReconnects, [Next]_vars PROVE Alone'
<1>1. ASSUME NEW f \in Flow, Continue(f) PROVE Alone'
  <2>1. ~AttemptStep(f)
    BY DEF AttemptStep, AttemptCleared, AttemptFenced, Alone
  <2> QED
    BY <1>1, <2>1, AloneRegister, AloneStarts, AloneSaved, AloneFailures, AloneLaunchEnds, AloneTornDown,
       AloneMoves DEF Continue, StartStep, LaunchStep, ControlStep
<1>2. ASSUME NEW f \in Flow, Disturb(f) PROVE Alone'
  BY <1>2, AloneFailures, AloneLaunchEnds, AloneMoves DEF Disturb
<1>3. CASE Ask
  <2>1. ASSUME NEW s \in Session, Create(s) PROVE Alone'
    <3>1. UNCHANGED <<engine, registry, flow, dropping, clearing, reconnect>>
      BY <2>1 DEF Create, disk
    <3> QED
      BY <3>1, AloneStill, FollowsSame DEF Alone
  <2> QED
    BY <1>3, <2>1, AloneStart, AloneControls DEF Ask
<1>4. ~ \E f \in Flow, s \in Session : ReconnectFires(f, s)
  BY DEF ReconnectFires, Alone
<1>5. CASE UNCHANGED vars
  <2>1. UNCHANGED <<engine, registry, flow, dropping, clearing, reconnect>>
    BY <1>5 DEF vars
  <2> QED
    BY <2>1, AloneStill, FollowsSame DEF Alone
<1> QED
  BY <1>1, <1>2, <1>3, <1>4, <1>5, AloneReports DEF Next

\* While no connection drops and none is stuck: the engines of a session are
\* never two at once, and never one that no stop would find, however many
\* starts and controls interleave, with whatever fails under them.
THEOREM OneWhileStarting ==
    ASSUME NoReconnects
    PROVE  Spec => []SoleEngine
<1> DEFINE Inv == Shaped /\ Alone
<1>1. Init => Inv
  <2> SUFFICES ASSUME Init PROVE Inv
    OBVIOUS
  <2>1. /\ \A f \in Flow : flow[f] = NoFlow
        /\ \A e \in Engine : engine[e].phase = "torn"
        /\ dropping = {} /\ clearing = {} /\ \A s \in Session : reconnect[s] = "none"
    BY DEF Init
  <2> QED
    BY <2>1, Booted, NothingHeld DEF Alone, Spawned
<1>2. Inv /\ [Next]_vars => Inv'
  BY StepKeeps, StepAlone
<1>3. Inv => SoleEngine
  BY DEF Alone, SoleEngine, Tracked, OneEngine, IsLive, Spawned, Live
<1> QED
  BY <1>1, <1>2, <1>3, PTL DEF Spec

-----------------------------------------------------------------------------
\* Credentials, while nothing reconnects.

\* Whoever builds an engine waits for the removals its session has pending.
Fenced ==
    /\ \A s, t \in Session : Present(s) /\ Present(t) => s = t
    /\ \A e \in wiping : engine[e].owner \in Session /\ registry[engine[e].owner] \in {NoEngine, e}
    /\ \A f \in Flow : \A e \in wiping : flow[f].kind = "start" /\ flow[f].session = engine[e].owner =>
          flow[f].pc # "hook" /\ (flow[f].pc = "fence" => e \in flow[f].waits)

\* What CredentialsSpared says of a step.
Spares == dir # NoEngine /\ dir' = NoEngine /\ engine[dir].phase \in Live
            => \/ dir \in (wiping \ wiping') \cup (clearing \ clearing')
               \/ \E f \in Flow : flow[f].pc = "purge" /\ flow'[f].pc # "purge"
               \/ \E e \in Engine : Orphan(e)

\* Flow g is a start at the fence or at its hook only as it was one.
Lingers(g) == flow'[g].kind = "start" /\ flow'[g].pc \in {"fence", "hook"} => flow'[g] = flow[g]

\* A step that builds nothing, and tracks the removal of a registered engine if any.
LEMMA FencedShrinks ==
    ASSUME Shaped, Alone, Fenced, \A g \in Flow : Lingers(g),
           \A e \in Engine : engine'[e].owner = engine[e].owner,
           \A s \in Session : registry'[s] \in {registry[s], NoEngine},
           \A e \in wiping' : e \in wiping \/ (e \in Engine /\ IsLive(e)),
           \A s, t \in Session : Present(s)' /\ Present(t)' => s = t
    PROVE  Fenced'
<1>0. Types
  BY TypesOf DEF Shaped
<1>1. ASSUME NEW e \in wiping'
      PROVE  /\ e \in Engine /\ engine'[e].owner = engine[e].owner /\ engine[e].owner \in Session
             /\ registry[engine[e].owner] \in {NoEngine, e}
             /\ e \in wiping \/ registry[engine[e].owner] = e
  BY <1>0, <1>1 DEF Fenced, IsLive, Types
<1>2. ASSUME NEW e \in wiping' PROVE registry'[engine[e].owner] \in {NoEngine, e}
  BY <1>1, <1>2
<1>3. ASSUME NEW f \in Flow, NEW e \in wiping', flow'[f].kind = "start",
             flow'[f].session = engine[e].owner, flow'[f].pc \in {"fence", "hook"}
      PROVE  flow'[f].pc # "hook" /\ e \in flow'[f].waits
  <2>1. flow'[f] = flow[f]
    BY <1>3 DEF Lingers
  <2>2. registry[engine[e].owner] = NoEngine
    BY <2>1, <1>3 DEF Alone
  <2>3. e \in wiping
    BY <2>2, <1>1, <1>3, LifecycleAssumption
  <2> QED
    BY <2>1, <2>3, <1>3 DEF Fenced
<1> QED
  BY <1>1, <1>2, <1>3 DEF Fenced

\* The engines a step leaves theirs, and the registry it does not add to.
LEMMA OwnersKept ==
    ASSUME Types, engine' = engine \/ \E x, p : engine' = [engine EXCEPT ![x].phase = p]
    PROVE  \A e \in Engine : engine'[e].owner = engine[e].owner
<1>1. ASSUME NEW x, NEW p, engine' = [engine EXCEPT ![x].phase = p], NEW e \in Engine
      PROVE  engine'[e].owner = engine[e].owner
  <2>1. engine[e].owner = [engine[e] EXCEPT !.phase = p].owner
    BY DEF Types
  <2> QED
    BY <1>1, <2>1 DEF Types
<1> QED
  BY <1>1

LEMMA RegistryShrinks ==
    ASSUME Types, \/ registry' = registry
                  \/ \E x : registry' = DeleteIfLive(x)
                  \/ \E x : registry' = [registry EXCEPT ![x] = NoEngine]
    PROVE  \A s \in Session : registry'[s] \in {registry[s], NoEngine}
  BY DEF Types, DeleteIfLive

LEMMA FailsReduces ==
    ASSUME NEW f \in Flow, flow[f].kind # "attempt", NEW sta, Fails(f, engine, sta)
    PROVE  /\ engine' = Torn(engine, registry[flow[f].session])
           /\ registry' = [registry EXCEPT ![flow[f].session] = NoEngine]
           /\ Leave(f) \/ Goto(f, "failed")
  BY DEF Fails

\* What a flow does but build an engine.
LEMMA FlowReduces ==
    ASSUME Shaped, NEW f \in Flow, Continue(f) \/ Disturb(f), flow[f].kind # "attempt", ~StartRegister(f)
    PROVE  /\ \A e \in Engine : engine'[e].owner = engine[e].owner
           /\ \A s \in Session : registry'[s] \in {registry[s], NoEngine}
           /\ \E r : Enter(f, r) \/ SaveFails(f)
<1>0. Types
  BY TypesOf DEF Shaped
<1>1. CASE LaunchAborted(f) \/ Rejected(f) \/ Reaped(f) \/ FenceRefuses(f)
  <2>1. \/ Leave(f) /\ UNCHANGED <<engine, registry>>
        \/ \E sta : Fails(f, engine, sta)
    BY <1>1 DEF LaunchAborted, Rejected, Reaped, FenceRefuses
  <2>2. /\ engine' = engine \/ engine' = Torn(engine, registry[flow[f].session])
        /\ registry' = registry \/ registry' = [registry EXCEPT ![flow[f].session] = NoEngine]
        /\ \E r : Enter(f, r)
    BY <2>1, FailsReduces DEF Leave, Goto
  <2>3. engine' = engine \/ \E x, p : engine' = [engine EXCEPT ![x].phase = p]
    BY <2>2 DEF Torn
  <2> QED
    BY <1>0, <2>2, <2>3, OwnersKept, RegistryShrinks
<1>2. CASE Saved(f) \/ Launched(f) \/ LaunchRejected(f) \/ LaunchHangs(f) \/ Retired(f) \/ TornDown(f)
  <2>1. engine' = engine \/ \E x, p : engine' = [engine EXCEPT ![x].phase = p]
    BY <1>2 DEF Saved, Launched, LaunchRejected, LaunchHangs, Retired, TornDown, Torn
  <2>2. \/ registry' = registry
        \/ \E x : registry' = DeleteIfLive(x)
        \/ \E x : registry' = [registry EXCEPT ![x] = NoEngine]
    BY <1>2 DEF Saved, Launched, LaunchRejected, LaunchHangs, Retired, TornDown
  <2>3. \E r : Enter(f, r)
    BY <1>2 DEF Saved, Launched, LaunchRejected, LaunchHangs, Retired, TornDown, AfterInit, Goto, Wait
  <2> QED
    BY <1>0, <2>1, <2>2, <2>3, OwnersKept, RegistryShrinks
<1>3. CASE ~(LaunchAborted(f) \/ Rejected(f) \/ Reaped(f) \/ FenceRefuses(f)
              \/ Saved(f) \/ Launched(f) \/ LaunchRejected(f) \/ LaunchHangs(f) \/ Retired(f) \/ TornDown(f))
  <2>1. \/ StartFenced(f) \/ StartFailed(f) \/ Guarded(f) \/ Residue(f) \/ Purged(f) \/ ControlBegin(f)
        \/ DeleteFenced(f) \/ InitialAwaited(f) \/ Recorded(f) \/ DeleteFencedAgain(f) \/ DeleteCommits(f)
        \/ DeletePurges(f) \/ SaveFails(f) \/ DeleteRefused(f) \/ EnterRefused(f) \/ QueryFails(f)
    BY <1>3 DEF Continue, Disturb, StartStep, LaunchStep, AttemptStep, AttemptCleared, AttemptFenced, ControlStep
  <2>2. UNCHANGED <<engine, registry>>
    BY <2>1 DEF StartFenced, StartFailed, Guarded, Residue, Purged, ControlBegin, DeleteFenced,
                InitialAwaited, Recorded, DeleteFencedAgain, DeleteCommits, DeletePurges, SaveFails,
                DeleteRefused, EnterRefused, QueryFails
  <2>3. \E r : Enter(f, r) \/ SaveFails(f)
    BY <2>1 DEF StartFenced, StartFailed, Guarded, Residue, Purged, ControlBegin, DeleteFenced, Accept,
                InitialAwaited, Recorded, DeleteFencedAgain, DeleteCommits, DeletePurges, Retire, Leave,
                DeleteRefused, EnterRefused, QueryFails, Goto, Wait
  <2> QED
    BY <1>0, <2>2, <2>3, OwnersKept, RegistryShrinks
<1> QED
  BY <1>1, <1>2, <1>3

LEMMA FlowLingers ==
    ASSUME Shaped, NEW f \in Flow, Continue(f) \/ Disturb(f), flow[f].kind # "attempt",
           ~StartRegister(f), ~StartFenced(f)
    PROVE  \A g \in Flow : Lingers(g)
<1>0. Types /\ FlowFine(f) /\ flow[f] \in FlowState
  BY TypesOf DEF Shaped, Types
<1>1. ASSUME NEW g \in Flow \ {f} PROVE Lingers(g)
  <2>1. flow'[g] = flow[g] \/ flow'[g] = NoFlow
    <3>1. CASE \E r : Enter(f, r)
      BY <1>0, <3>1 DEF Enter, Types
    <3>2. CASE SaveFails(f)
      BY <3>2 DEF SaveFails
    <3> QED
      BY <3>1, <3>2, FlowReduces
  <2> QED
    BY <2>1, NothingHeld DEF Lingers
<1>2. CASE flow[f].kind # "start"
  <2>1. SameKind(f)
    BY KindsContinue
  <2> QED
    BY <1>0, <1>1, <1>2, <2>1 DEF Lingers, SameKind
<1>3. CASE flow[f].kind = "start"
  <2>1. \/ StartFailed(f) \/ Saved(f) \/ Launched(f) \/ LaunchAborted(f) \/ Rejected(f) \/ Reaped(f)
        \/ Guarded(f) \/ Retired(f) \/ Residue(f) \/ Purged(f) \/ SaveFails(f) \/ LaunchRejected(f)
        \/ LaunchHangs(f) \/ FenceRefuses(f) \/ EnterRefused(f) \/ QueryFails(f)
    BY <1>0, <1>3 DEF Continue, Disturb, StartStep, LaunchStep, AttemptStep, AttemptCleared, AttemptFenced,
       ControlStep, ControlBegin, DeleteFenced, InitialAwaited, TornDown, Recorded, DeleteFencedAgain,
       DeleteCommits, DeletePurges, DeleteRefused, FlowFine, KindFine, KindAt, Control
  <2>2. CASE Leave(f)
    BY <1>0, <1>1, <2>2, Left, NothingHeld DEF Lingers
  <2>3. ASSUME NEW pc \in PC \ {"fence", "hook"}, Goto(f, pc) PROVE \A g \in Flow : Lingers(g)
    BY <1>0, <1>1, <2>3, GoesTo DEF Lingers
  <2>4. ASSUME NEW e, NEW pc \in {"residue", "retire"}, Enter(f, [flow[f] EXCEPT !.engine = e, !.pc = pc])
        PROVE  \A g \in Flow : Lingers(g)
    <3> DEFINE r == [flow[f] EXCEPT !.engine = e, !.pc = pc]
    <3>1. r.pc = pc
      BY <1>0 DEF FlowState
    <3>2. flow'[f] = r
      BY <1>0, <2>4 DEF Enter, Types
    <3> HIDE DEF r
    <3> QED
      BY <1>1, <2>4, <3>1, <3>2 DEF Lingers
  <2>5. CASE SaveFails(f)
    <3> DEFINE r == [flow[f] EXCEPT !.pc = "failing"]
    <3>1. r.pc = "failing"
      BY <1>0 DEF FlowState
    <3>2. flow'[f] = r
      BY <2>5 DEF SaveFails
    <3> HIDE DEF r
    <3> QED
      BY <1>1, <3>1, <3>2 DEF Lingers
  <2>6. ASSUME NEW e, e = registry[flow[f].session],
               Enter(f, [flow[f] EXCEPT !.engine = e, !.pc = IF e = NoEngine THEN "residue" ELSE "retire"])
        PROVE  \A g \in Flow : Lingers(g)
    BY <2>4, <2>6
  <2>7. CASE Saved(f) \/ Launched(f) \/ Guarded(f)
    <3>1. \/ Leave(f)
          \/ \E pc \in {"launching", "guard"} : Goto(f, pc)
          \/ Enter(f, [flow[f] EXCEPT !.engine = registry[flow[f].session],
                                      !.pc = IF registry[flow[f].session] = NoEngine THEN "residue" ELSE "retire"])
      BY <2>7 DEF Saved, Launched, Guarded, AfterInit
    <3> QED
      BY <2>2, <2>3, <2>6, <3>1 DEF PC
  <2>8. CASE LaunchAborted(f) \/ Rejected(f) \/ Reaped(f) \/ FenceRefuses(f)
    <3>1. Leave(f) \/ Goto(f, "failed")
      BY <2>8, FailsReduces DEF LaunchAborted, Rejected, Reaped, FenceRefuses
    <3> QED
      BY <2>2, <2>3, <3>1 DEF PC
  <2>9. CASE \/ StartFailed(f) \/ Retired(f) \/ Residue(f) \/ Purged(f)
             \/ LaunchRejected(f) \/ LaunchHangs(f) \/ EnterRefused(f) \/ QueryFails(f)
    <3>1. Leave(f) \/ \E pc \in {"residue", "purge", "failing", "reap"} : Goto(f, pc)
      BY <2>9 DEF StartFailed, Retired, Residue, Purged, LaunchRejected, LaunchHangs, EnterRefused, QueryFails
    <3> QED
      BY <2>2, <2>3, <3>1 DEF PC
  <2> QED
    BY <2>1, <2>5, <2>7, <2>8, <2>9
<1> QED
  BY <1>2, <1>3

LEMMA FlowFenced ==
    ASSUME Shaped, Alone, Fenced, NEW f \in Flow, Continue(f) \/ Disturb(f), ~StartRegister(f), ~StartFenced(f)
    PROVE  Fenced'
<1>0. Types /\ FlowFine(f) /\ flow[f] \in FlowState /\ flow[f].kind # "attempt"
  BY TypesOf DEF Shaped, Types, Alone
<1>1. \A s, t \in Session : Present(s)' /\ Present(t)' => s = t
  <2>1. \/ row' = row
        \/ row' = [row EXCEPT ![flow[f].session] = "deleted"]
    BY DEF Continue, Disturb, StartStep, LaunchStep, AttemptStep, ControlStep, StartFailed, StartFenced,
       StartRegister, Saved, Launched, LaunchAborted, Rejected, Reaped, Guarded, Retired, Residue, Purged,
       AttemptCleared, AttemptFenced, ControlBegin, DeleteFenced, InitialAwaited, TornDown, Recorded,
       DeleteFencedAgain, DeleteCommits, DeletePurges, SaveFails, LaunchRejected, LaunchHangs,
       FenceRefuses, DeleteRefused, EnterRefused, QueryFails, table
  <2> QED
    BY <1>0, <2>1 DEF Types, Present, Fenced
<1>2. \A e \in wiping' : e \in wiping \/ (e \in Engine /\ IsLive(e))
  <2>1. CASE InitialAwaited(f)
    <3>1. \A e \in wiping' : e \in wiping \/ e \in Linked(flow[f].engine)
      BY <2>1 DEF InitialAwaited
    <3>2. flow[f].engine \in Engine
      BY <1>0, <2>1 DEF InitialAwaited, FlowFine, FlowState
    <3> QED
      BY <3>1, <3>2 DEF Linked, Alone, Spawned, Live
  <2>2. CASE ControlBegin(f) \/ DeleteFenced(f)
    <3>1. flow[f].kind \in {"stop", "delete"}
      BY <1>0, <2>2 DEF ControlBegin, DeleteFenced, FlowFine, KindFine, KindAt
    <3>2. UNCHANGED wiping
      BY <2>2, <3>1 DEF ControlBegin, DeleteFenced, Retire
    <3> QED
      BY <3>2
  <2>3. CASE ~(InitialAwaited(f) \/ ControlBegin(f) \/ DeleteFenced(f))
    <3>1. UNCHANGED wiping
      BY <2>3 DEF Continue, Disturb, StartStep, LaunchStep, AttemptStep, ControlStep, StartFailed, StartFenced,
         StartRegister, Saved, Launched, LaunchAborted, Rejected, Reaped, Guarded, Retired, Residue, Purged,
         AttemptCleared, AttemptFenced, TornDown, Recorded, disk,
         DeleteFencedAgain, DeleteCommits, DeletePurges, SaveFails, LaunchRejected, LaunchHangs,
         FenceRefuses, DeleteRefused, EnterRefused, QueryFails
    <3> QED
      BY <3>1
  <2> QED
    BY <2>1, <2>2, <2>3
<1> QED
  BY <1>0, <1>1, <1>2, FlowReduces, FlowLingers, FencedShrinks

\* A start at the fence waits for every removal pending, one at its hook has none of its own to wait for.
LEMMA StartsFenced ==
    ASSUME Shaped, Fenced, NEW f \in Flow, (\E s \in Session : Start(f, s)) \/ StartFenced(f)
    PROVE  Fenced'
<1>0. Types /\ FlowFine(f)
  BY TypesOf DEF Shaped
<1>1. UNCHANGED <<row, engine, registry, wiping>>
  BY DEF Start, StartFenced, table, disk
<1>2. /\ \A g \in Flow \ {f} : flow'[g] = flow[g]
      /\ \A e \in wiping : flow'[f].session = engine[e].owner =>
            flow'[f].pc # "hook" /\ (flow'[f].pc = "fence" => e \in flow'[f].waits)
  <2>1. CASE StartFenced(f)
    <3>1. /\ flow[f].kind = "start" /\ flow[f].session \in Session /\ flow[f].pc = "fence"
          /\ Accept(f, flow[f].session) /\ Settled(f)
      BY <1>0, <2>1 DEF StartFenced, FlowFine, KindFine
    <3>2. flow'[f].session = flow[f].session /\ \A g \in Flow \ {f} : flow'[g] = flow[g]
      BY <3>1, Accepted
    <3>3. \A e \in wiping : flow[f].session # engine[e].owner
      BY <3>1 DEF Fenced, Settled
    <3> QED
      BY <3>2, <3>3
  <2>2. ASSUME NEW s \in Session, Start(f, s), wiping = {}
        PROVE  \A g \in Flow \ {f} : flow'[g] = flow[g]
    BY <2>2, Accepted DEF Start
  <2>3. ASSUME NEW s \in Session, Start(f, s), wiping # {}
        PROVE  /\ \A g \in Flow \ {f} : flow'[g] = flow[g]
               /\ flow'[f].pc = "fence" /\ flow'[f].waits = wiping
    BY <1>0, <2>3 DEF Start, Wait, Enter, Types
  <2> QED
    BY <2>1, <2>2, <2>3
<1>3. ASSUME NEW e \in wiping'
      PROVE  engine'[e].owner \in Session /\ registry'[engine'[e].owner] \in {NoEngine, e}
  BY <1>1, <1>3 DEF Fenced
<1>4. ASSUME NEW g \in Flow, NEW e \in wiping', flow'[g].kind = "start", flow'[g].session = engine'[e].owner
      PROVE  flow'[g].pc # "hook" /\ (flow'[g].pc = "fence" => e \in flow'[g].waits)
  BY <1>1, <1>2, <1>4 DEF Fenced
<1>5. \A s, t \in Session : Present(s)' /\ Present(t)' => s = t
  BY <1>1 DEF Fenced, Present
<1> QED
  BY <1>3, <1>4, <1>5 DEF Fenced

LEMMA RegisterFenced ==
    ASSUME Shaped, Alone, Fenced, NEW f \in Flow, StartRegister(f) PROVE Fenced'
<1>0. Types /\ FlowFine(f)
  BY TypesOf DEF Shaped
<1> DEFINE s == flow[f].session
<1>1. /\ UNCHANGED <<row, wiping>> /\ s \in Session /\ flow[f].kind = "start" /\ flow[f].pc = "hook"
      /\ Register(f, s, "start", registry, engine)
  BY <1>0 DEF StartRegister, table, disk, FlowFine, KindFine
<1>2. PICK d \in Available :
        /\ engine' = [engine EXCEPT ![d] = [owner |-> s, phase |-> "built"]]
        /\ registry' = [registry EXCEPT ![s] = d]
        /\ flow' = [flow EXCEPT ![f] = [kind |-> "start", session |-> s, pc |-> "saving",
                                        engine |-> d, waits |-> {}]]
  BY <1>1 DEF Register, Enter
<1>3. flow'[f].pc = "saving" /\ \A g \in Flow \ {f} : flow'[g] = flow[g]
  BY <1>0, <1>2 DEF Types
<1>4. ASSUME NEW e \in wiping
      PROVE  /\ engine'[e] = engine[e] /\ engine[e].owner \in Session \ {s}
             /\ registry'[engine[e].owner] = registry[engine[e].owner]
  <2>1. e \in Engine \ {d}
    BY <1>0, <1>4 DEF Types, Available
  <2>2. engine[e].owner \in Session \ {s}
    BY <1>1, <1>4 DEF Fenced
  <2> QED
    BY <1>0, <1>2, <2>1, <2>2 DEF Types
<1>5. ASSUME NEW e \in wiping'
      PROVE  engine'[e].owner \in Session /\ registry'[engine'[e].owner] \in {NoEngine, e}
  <2>1. e \in wiping
    BY <1>1, <1>5
  <2>2. registry[engine[e].owner] \in {NoEngine, e}
    BY <2>1 DEF Fenced
  <2> QED
    BY <1>4, <2>1, <2>2
<1>6. ASSUME NEW g \in Flow, NEW e \in wiping', flow'[g].kind = "start", flow'[g].session = engine'[e].owner
      PROVE  flow'[g].pc # "hook" /\ (flow'[g].pc = "fence" => e \in flow'[g].waits)
  BY <1>1, <1>3, <1>4, <1>6 DEF Fenced
<1>7. \A t, u \in Session : Present(t)' /\ Present(u)' => t = u
  BY <1>1 DEF Fenced, Present
<1> QED
  BY <1>5, <1>6, <1>7 DEF Fenced

LEMMA ControlsFenced ==
    ASSUME Shaped, Alone, Fenced, NEW f \in Flow, NEW s \in Session, NEW k \in Control,
           StopEntered(f, s, k) \/ ControlWithEngine(f, s, k)
    PROVE  Fenced'
<1>0. Types
  BY TypesOf DEF Shaped
<1>1. UNCHANGED <<row, engine, registry>> /\ flow[f] = NoFlow
  BY DEF StopEntered, ControlWithEngine, table
<1>2. \A g \in Flow : Lingers(g)
  <2>1. CASE StopEntered(f, s, k)
    <3> DEFINE r == [NoFlow EXCEPT !.kind = k, !.session = s, !.pc = "enter"]
    <3>1. r \in FlowState /\ r.kind = k
      BY DEF NoFlow, FlowState, Kind, PC
    <3>2. Enter(f, r)
      BY <2>1 DEF StopEntered
    <3> HIDE DEF r
    <3>3. flow'[f].kind = k /\ \A g \in Flow \ {f} : flow'[g] = flow[g]
      BY <1>0, <3>1, <3>2, Entered
    <3> QED
      BY <3>3 DEF Lingers, Control
  <2>2. CASE ControlWithEngine(f, s, k)
    <3>1. Retire(f, s, k)
      BY <2>2 DEF ControlWithEngine
    <3>2. flow'[f].kind = k /\ \A g \in Flow \ {f} : flow'[g] = flow[g]
      BY <1>1, <3>1, RetireIs, NothingHeld
    <3> QED
      BY <3>2 DEF Lingers, Control
  <2> QED
    BY <2>1, <2>2
<1>3. \A e \in wiping' : e \in wiping \/ (e \in Engine /\ IsLive(e))
  <2>1. CASE ControlWithEngine(f, s, k)
    <3>1. \A e \in wiping' : e \in wiping \/ e = registry[s]
      BY <2>1 DEF ControlWithEngine, Retire, Linked
    <3>2. registry[s] \in Engine /\ engine[registry[s]].owner = s
      BY <1>0, <2>1 DEF ControlWithEngine, Types, Shaped, TypeOK
    <3> QED
      BY <3>1, <3>2, LifecycleAssumption DEF IsLive
  <2>2. CASE StopEntered(f, s, k)
    BY <2>2 DEF StopEntered, disk
  <2> QED
    BY <2>1, <2>2
<1>4. \A t, u \in Session : Present(t)' /\ Present(u)' => t = u
  BY <1>1 DEF Fenced, Present
<1> QED
  BY <1>1, <1>2, <1>3, <1>4, FencedShrinks

LEMMA ReportsFenced ==
    ASSUME Shaped, Alone, Fenced, NoReconnects, NEW e \in Engine, Callback(e) \/ Mishap(e)
    PROVE  Fenced'
<1>0. Types
  BY TypesOf DEF Shaped
<1>1. Wiped(e) \/ Errs(e)
  BY DEF Callback, Mishap, DropHandled, Cleared, DropLost, Drops, Unlinked, Stuck, EngineFails,
         Fault, NoReconnects, Alone
<1>2. UNCHANGED <<flow, row>>
  BY <1>1 DEF Wiped, Errs, table
<1>3. \A g \in Flow : Lingers(g)
  BY <1>2 DEF Lingers
<1>4. engine' = engine \/ \E x, p : engine' = [engine EXCEPT ![x].phase = p]
  BY <1>1 DEF Wiped, Errs, EngineFails, Torn
<1>5. \/ registry' = registry
      \/ \E x : registry' = [registry EXCEPT ![x] = NoEngine]
  BY <1>1 DEF Wiped, Errs, EngineFails
<1>6. \A d \in wiping' : d \in wiping
  BY <1>1 DEF Wiped, Errs, disk
<1>7. \A t, u \in Session : Present(t)' /\ Present(u)' => t = u
  BY <1>2 DEF Fenced, Present
<1> QED
  BY <1>0, <1>3, <1>4, <1>5, <1>6, <1>7, OwnersKept, RegistryShrinks, FencedShrinks

LEMMA StepFenced ==
    ASSUME Shaped, Alone, Fenced, NoReconnects, [Next]_vars PROVE Fenced'
<1>0. Types
  BY TypesOf DEF Shaped
<1>1. ASSUME NEW f \in Flow, Continue(f) \/ Disturb(f) PROVE Fenced'
  BY <1>1, FlowFenced, StartsFenced, RegisterFenced
<1>2. CASE Ask
  <2>1. ASSUME NEW s \in Session, Create(s) PROVE Fenced'
    <3>1. /\ UNCHANGED <<engine, registry, flow, wiping>>
          /\ row' = [row EXCEPT ![s] = "present"] /\ \A t \in Session : ~Present(t)
      BY <2>1 DEF Create, disk
    <3>2. \A t, u \in Session : Present(t)' /\ Present(u)' => t = u
      BY <1>0, <3>1 DEF Present, Types
    <3> QED
      BY <3>1, <3>2, FencedShrinks DEF Lingers
  <2> QED
    BY <1>2, <2>1, StartsFenced, ControlsFenced DEF Ask
<1>3. ~ \E f \in Flow, s \in Session : ReconnectFires(f, s)
  BY DEF ReconnectFires, Alone
<1>4. CASE UNCHANGED vars
  <2>1. UNCHANGED <<row, engine, registry, flow, wiping>>
    BY <1>4 DEF vars
  <2>2. \A t, u \in Session : Present(t)' /\ Present(u)' => t = u
    BY <2>1 DEF Present, Fenced
  <2> QED
    BY <2>1, <2>2, FencedShrinks DEF Lingers
<1> QED
  BY <1>1, <1>2, <1>3, <1>4, ReportsFenced DEF Next

\* Who may touch the directory.
LEMMA DirKept ==
    ASSUME [Next]_vars
    PROVE  \/ UNCHANGED dir
           \/ \E f \in Flow : Saved(f) \/ Purged(f) \/ DeletePurges(f)
           \/ \E e \in Engine : Cleared(e) \/ Wiped(e)
<1>1. ASSUME NEW f \in Flow, Continue(f) PROVE UNCHANGED dir \/ Saved(f) \/ Purged(f) \/ DeletePurges(f)
  BY <1>1 DEF Continue, StartStep, LaunchStep, AttemptStep, ControlStep, StartFailed, StartFenced,
     StartRegister, Launched, LaunchAborted, Rejected, Reaped, Guarded, Retired, Residue,
     AttemptCleared, AttemptFenced, ControlBegin, DeleteFenced, InitialAwaited, TornDown, Recorded,
     DeleteFencedAgain, DeleteCommits, disk
<1>2. ASSUME NEW f \in Flow, Disturb(f) PROVE UNCHANGED dir
  BY <1>2 DEF Disturb, SaveFails, LaunchRejected, LaunchHangs, FenceRefuses, DeleteRefused, EnterRefused, QueryFails, disk
<1>3. CASE Ask \/ \E f \in Flow, s \in Session : ReconnectFires(f, s)
  BY <1>3 DEF Ask, Create, Start, StopEntered, ControlWithEngine, ReconnectFires, disk
<1>4. ASSUME NEW e \in Engine, Callback(e) \/ Mishap(e) PROVE UNCHANGED dir \/ Cleared(e) \/ Wiped(e)
  BY <1>4 DEF Callback, Mishap, DropHandled, Drops, Unlinked, DropLost, Errs, Stuck, disk
<1>5. CASE UNCHANGED vars
  BY <1>5 DEF vars
<1> QED
  BY <1>1, <1>2, <1>3, <1>4, <1>5 DEF Next

\* A step that populates the directory or ends a purge takes it from nobody.
LEMMA FlowSpares ==
    ASSUME Shaped, NEW f \in Flow, Saved(f) \/ Purged(f) \/ DeletePurges(f) PROVE Spares
<1>0. Types /\ FlowFine(f) /\ flow[f] \in FlowState
  BY TypesOf DEF Shaped, Types
<1>1. CASE Saved(f)
  BY <1>0, <1>1 DEF Saved, FlowFine, Launching, Spares
<1>2. CASE Purged(f) \/ DeletePurges(f)
  <2>1. flow[f].pc = "purge" /\ Leave(f)
    BY <1>2 DEF Purged, DeletePurges
  <2>2. flow'[f].pc = "idle"
    BY <1>0, <2>1, Left, NothingHeld
  <2> QED
    BY <2>1, <2>2 DEF Spares
<1> QED
  BY <1>1, <1>2

LEMMA StepSpares ==
    ASSUME Shaped, Alone, Fenced, [Next]_vars PROVE Spares
<1>0. Types
  BY TypesOf DEF Shaped
<1>1. CASE UNCHANGED dir
  BY <1>1 DEF Spares
<1>2. ~ \E e \in Engine : Cleared(e)
  BY DEF Cleared, Alone
<1>3. ASSUME NEW e \in Engine, Wiped(e), dir # NoEngine, engine[dir].phase \in Live
      PROVE  dir \in wiping \ wiping' \/ \E d \in Engine : Orphan(d)
  <2>1. e \in wiping /\ wiping' = wiping \ {e} /\ dir \in Engine
    BY <1>0, <1>3 DEF Wiped, Types
  <2>2. PICK d \in Engine : d = dir
    BY <2>1
  <2>3. IsLive(d) /\ engine[d].owner \in Session /\ engine[d].phase # "torn"
    BY <1>0, <1>3, <2>2 DEF Alone, Spawned, Live, IsLive, Types
  <2>4. engine[e].owner \in Session /\ registry[engine[e].owner] \in {NoEngine, e}
    BY <2>1 DEF Fenced
  <2>5. CASE engine[e].owner = engine[d].owner
    <3>1. d = e
      BY <2>3, <2>4, <2>5, LifecycleAssumption DEF IsLive
    <3> QED
      BY <2>1, <2>2, <3>1
  <2>6. CASE engine[e].owner # engine[d].owner
    <3>1. ~Present(engine[e].owner) \/ ~Present(engine[d].owner)
      BY <2>3, <2>4, <2>6 DEF Fenced
    <3>2. Orphan(e) \/ Orphan(d)
      BY <2>1, <2>3, <2>4, <3>1, LifecycleAssumption DEF Orphan
    <3> QED
      BY <3>2
  <2> QED
    BY <2>5, <2>6
<1>4. (\E e \in Engine : Wiped(e)) => Spares
  BY <1>3 DEF Spares
<1> QED
  BY <1>1, <1>2, <1>4, DirKept, FlowSpares

\* While nothing reconnects, no credentials are removed under an engine that is
\* using them, but by its own removal, by a purge, or with an engine of a deleted
\* session of the name about: a logout's removal is over, or waited for, before
\* another engine of its session is built.
THEOREM SparedWhileStarting ==
    ASSUME NoReconnects
    PROVE  Spec => CredentialsSpared
<1> DEFINE Inv == Shaped /\ Alone /\ Fenced
<1>1. Init => Inv
  <2> SUFFICES ASSUME Init PROVE Inv
    OBVIOUS
  <2>1. /\ \A f \in Flow : flow[f] = NoFlow
        /\ \A e \in Engine : engine[e].phase = "torn"
        /\ dropping = {} /\ clearing = {} /\ wiping = {} /\ \A s \in Session : reconnect[s] = "none"
    BY DEF Init
  <2>2. \A s, t \in Session : Present(s) /\ Present(t) => s = t
    BY DEF Init, Present
  <2> QED
    BY <2>1, <2>2, Booted, NothingHeld DEF Alone, Spawned, Fenced
<1>2. Inv /\ [Next]_vars => Inv'
  BY StepKeeps, StepAlone, StepFenced
<1>3. Inv /\ [Next]_vars => [Spares]_vars
  BY StepSpares
<1> QED
  BY <1>1, <1>2, <1>3, PTL DEF Spec, CredentialsSpared, Spares

-----------------------------------------------------------------------------
\* One engine at a time, while one start reconnects.

\* One start in the life of the process, whose launch does not drop before it returns.
OneStart == Requests \subseteq {"start"} /\ MaxRequests \leq 1 /\ "early" \notin Faults

\* Flow f may still build, launch or take down an engine.
Acts(f) == flow[f].pc \notin {"idle", "guard"}
Calm    == \A f \in Flow : ~Acts(f)

\* What flow f expects to find registered for s.
Finds(f, s) ==
    /\ flow[f].pc \in {"fence", "hook", "reap", "failed"} => registry[s] = NoEngine
    /\ flow[f].pc \in {"saving", "launching", "failing", "teardown"}
          => registry[s] \in {NoEngine, flow[f].engine}

\* A registered engine that runs, and one whose drop is being handled: nobody acts on it.
Resting(s) ==
    /\ registry[s] # NoEngine /\ (engine[registry[s]].phase = "up" \/ registry[s] \in dropping)
          => Calm /\ reconnect[s] # "armed"
    /\ reconnect[s] = "armed" => Calm

\* The one session that has a row is s, whose start and the attempts that follow it take turns.
Turns(s) ==
    /\ s \in Session /\ \A t \in Session : Present(t) <=> t = s
    /\ \A t \in Session \ {s} : registry[t] = NoEngine /\ reconnect[t] = "none"
    /\ stopMark = {} /\ requests \in {0, 1}
    /\ requests = 1 => /\ \A f \in Flow : flow[f] = NoFlow
                       /\ registry[s] = NoEngine /\ reconnect[s] = "none" /\ dropping = {}
    /\ \A f \in Flow : flow[f].kind # "none" =>
          /\ flow[f].kind \in {"start", "attempt"} /\ flow[f].session = s
          /\ flow[f].pc \notin {"retire", "residue", "purge"}
    /\ \A f, g \in Flow : Acts(f) /\ Acts(g) => f = g
    /\ Resting(s)
    /\ \A e \in dropping : engine[e].phase \in {"dead", "torn"}
    /\ \A e \in Engine : engine[e].phase \in Spawned => registry[s] = e
    /\ \A f \in Flow : Finds(f, s)

\* While flow f acts nobody else does, no engine runs, and no timer or drop is pending.
LEMMA OnlyActs ==
    ASSUME Types, NEW s, Turns(s), NEW f \in Flow, Acts(f)
    PROVE  /\ requests = 0 /\ reconnect[s] # "armed" /\ \A g \in Flow \ {f} : ~Acts(g)
           /\ registry[s] # NoEngine => engine[registry[s]].phase # "up" /\ registry[s] \notin dropping
  BY NothingHeld DEF Turns, Resting, Calm, Acts

\* The step of the flow that acts.
LEMMA TurnsGo ==
    ASSUME Shaped, Shaped', NEW s, Turns(s), NEW f \in Flow, Acts(f), SameKind(f),
           \A g \in Flow \ {f} : flow'[g] = flow[g],
           row' = row, requests' = requests, dropping' = dropping, stopMark' = {},
           \A t \in Session \ {s} : registry'[t] = registry[t] /\ reconnect'[t] = reconnect[t],
           flow'[f].pc \notin {"retire", "residue", "purge"},
           Finds(f, s)',
           \A e \in dropping : engine'[e].phase \in {"dead", "torn"},
           \A e \in Engine : engine'[e].phase \in Spawned => registry'[s] = e,
           registry'[s] \notin dropping,
           reconnect'[s] = "armed" => ~Acts(f)',
           registry'[s] # NoEngine /\ engine'[registry'[s]].phase = "up"
               => ~Acts(f)' /\ reconnect'[s] # "armed"
    PROVE  Turns(s)'
<1>0. Types /\ requests = 0 /\ \A g \in Flow \ {f} : ~Acts(g)
  BY TypesOf, OnlyActs DEF Shaped
<1>1. \A g \in Flow \ {f} : ~Acts(g)' /\ Finds(g, s)'
  BY <1>0 DEF Acts, Finds
<1>2. \A g, h \in Flow : Acts(g)' /\ Acts(h)' => g = h
  BY <1>1
<1>3. ~Acts(f)' => Calm'
  BY <1>1 DEF Calm
<1>4. Resting(s)'
  BY <1>3 DEF Resting
<1>5. \A g \in Flow : flow'[g].kind # "none" =>
          /\ flow'[g].kind \in {"start", "attempt"} /\ flow'[g].session = s
          /\ flow'[g].pc \notin {"retire", "residue", "purge"}
  BY DEF SameKind, Turns
<1>6. s \in Session /\ \A t \in Session : Present(t)' <=> t = s
  BY DEF Turns, Present
<1>7. \A t \in Session \ {s} : registry'[t] = NoEngine /\ reconnect'[t] = "none"
  BY DEF Turns
<1> QED
  BY <1>0, <1>1, <1>2, <1>4, <1>5, <1>6, <1>7 DEF Turns

\* What Register builds: engine d, in flow f of kind k.
Builds(f, s, k, reg, eng, d) ==
    /\ d \in Engine /\ d \notin dropping \cup wiping
    /\ engine'[d].phase = "built" /\ \A x \in Engine \ {d} : engine'[x] = eng[x]
    /\ registry'[s] = d /\ \A t \in Session \ {s} : registry'[t] = reg[t]
    /\ flow'[f].pc = "saving" /\ flow'[f].engine = d /\ flow'[f].kind = k /\ flow'[f].session = s
    /\ \A g \in Flow \ {f} : flow'[g] = flow[g]

LEMMA Built ==
    ASSUME Types, NEW f \in Flow, NEW s \in Session, NEW k,
           NEW reg \in [Session -> Engine \cup {NoEngine}], NEW eng \in EngineTable,
           Register(f, s, k, reg, eng)
    PROVE  \E d \in Engine : Builds(f, s, k, reg, eng, d)
<1>1. PICK d \in Available :
        /\ engine' = [eng EXCEPT ![d] = [owner |-> s, phase |-> "built"]]
        /\ registry' = [reg EXCEPT ![s] = d]
        /\ flow' = [flow EXCEPT ![f] = [kind |-> k, session |-> s, pc |-> "saving",
                                        engine |-> d, waits |-> {}]]
  BY DEF Register, Enter
<1>2. d \in Engine /\ d \notin dropping \cup wiping
  BY DEF Available
<1>3. flow'[f] = [kind |-> k, session |-> s, pc |-> "saving", engine |-> d, waits |-> {}]
      /\ \A g \in Flow \ {f} : flow'[g] = flow[g]
  BY <1>1 DEF Types
<1> QED
  BY <1>1, <1>2, <1>3 DEF EngineTable, Builds

\* The acting flow builds an engine where none is left.
LEMMA TurnsBuild ==
    ASSUME Shaped, Shaped', NEW s, Turns(s), NEW f \in Flow, Acts(f), flow[f].session = s, flow[f].kind # "none",
           NEW reg \in [Session -> Engine \cup {NoEngine}], NEW eng \in EngineTable,
           Register(f, s, flow[f].kind, reg, eng),
           \A e \in Engine : eng[e].phase \notin Spawned,
           \A e \in dropping : eng[e].phase \in {"dead", "torn"},
           \A t \in Session \ {s} : reg[t] = registry[t] /\ reconnect'[t] = reconnect[t],
           reconnect'[s] # "armed",
           UNCHANGED <<row, requests, dropping, stopMark>>
    PROVE  Turns(s)'
<1>0. Types /\ s \in Session /\ stopMark = {}
  BY TypesOf DEF Shaped, Turns
<1>a. PICK d \in Engine : Builds(f, s, flow[f].kind, reg, eng, d)
  BY <1>0, Built, Zenon
<1>1. /\ d \notin dropping
      /\ engine'[d].phase = "built" /\ \A x \in Engine \ {d} : engine'[x] = eng[x]
      /\ registry'[s] = d /\ \A t \in Session \ {s} : registry'[t] = reg[t]
      /\ flow'[f].pc = "saving" /\ flow'[f].engine = d
      /\ flow'[f].kind = flow[f].kind /\ flow'[f].session = s
      /\ \A g \in Flow \ {f} : flow'[g] = flow[g]
  BY <1>a DEF Builds
<1>2. \A e \in dropping : engine'[e].phase \in {"dead", "torn"}
  BY <1>0, <1>1 DEF Types
<1>3. \A e \in Engine : engine'[e].phase \in Spawned => registry'[s] = e
  BY <1>1
<1>4. Finds(f, s)'
  BY <1>1 DEF Finds
<1>5. SameKind(f)
  BY <1>1 DEF SameKind
<1> QED
  BY <1>0, <1>1, <1>2, <1>3, <1>4, <1>5, TurnsGo

\* The acting flow fails: what is registered is torn down.
LEMMA TurnsFail ==
    ASSUME Shaped, Shaped', NEW s, Turns(s), NEW f \in Flow, Acts(f), SameKind(f),
           NEW sta \in [Session -> Status], Fails(f, engine, sta),
           UNCHANGED <<row, dropping, stopMark>>
    PROVE  Turns(s)'
<1>0. /\ Types /\ TypeOK /\ s \in Session /\ stopMark = {} /\ flow[f].session = s
      /\ registry[s] \in Engine \cup {NoEngine} /\ engine \in EngineTable
  BY TypesOf, NothingHeld DEF Shaped, Turns, Types, EngineTable, Acts, FlowFine, KindFine, KindAt
<1>1. /\ engine' = Torn(engine, registry[s]) /\ registry' = [registry EXCEPT ![s] = NoEngine]
      /\ flow'[f] = NoFlow \/ flow'[f].pc = "failed"
      /\ \A g \in Flow \ {f} : flow'[g] = flow[g]
  BY <1>0, FailsIs
<1>2. requests' = requests /\ (\A t \in Session \ {s} : reconnect'[t] = reconnect[t])
  BY <1>0 DEF Fails, Reschedule, ghost, Fault, Types
<1>3. reconnect'[s] = "armed" => ~Acts(f)'
  <2>1. CASE flow[f].kind = "start"
    <3>1. reconnect' = reconnect \/ reconnect' = [reconnect EXCEPT ![s] = "none"]
      BY <1>0, <2>1 DEF Fails
    <3> QED
      BY <1>0, <3>1, OnlyActs DEF Types
  <2>2. CASE flow[f].kind # "start"
    <3>1. flow'[f] = NoFlow
      BY <1>0, <2>2, Left DEF Fails
    <3> QED
      BY <3>1, NothingHeld DEF Acts
  <2> QED
    BY <2>1, <2>2
<1>4. /\ \A d \in Engine \ {registry[s]} : engine'[d] = engine[d]
      /\ registry[s] # NoEngine => engine'[registry[s]].phase = "torn"
  BY <1>0, <1>1, TornIs
<1>5. \A e \in Engine : engine'[e].phase \notin Spawned
  BY <1>4, LifecycleAssumption DEF Turns, Spawned
<1>6. \A e \in dropping : engine'[e].phase \in {"dead", "torn"}
  <2>1. ASSUME NEW e \in dropping PROVE engine'[e].phase \in {"dead", "torn"}
    <3>1. e \in Engine /\ engine[e].phase \in {"dead", "torn"} /\ e # NoEngine
      BY <1>0, <2>1, LifecycleAssumption DEF Types, Turns
    <3> QED
      BY <1>4, <3>1
  <2> QED
    BY <2>1
<1>7. registry'[s] = NoEngine /\ (\A t \in Session \ {s} : registry'[t] = registry[t]) /\ NoEngine \notin dropping
  BY <1>0, <1>1, LifecycleAssumption DEF Types
<1>8. Finds(f, s)' /\ flow'[f].pc \notin {"retire", "residue", "purge"}
  BY <1>1, <1>7, NothingHeld DEF Finds
<1> QED
  BY <1>0, <1>1, <1>2, <1>3, <1>5, <1>6, <1>7, <1>8, TurnsGo

\* The acting flow goes on, and no engine changes.
LEMMA TurnsMove ==
    ASSUME Shaped, Shaped', NEW s, Turns(s), NEW f \in Flow, Acts(f), SameKind(f),
           \A g \in Flow \ {f} : flow'[g] = flow[g],
           UNCHANGED <<row, requests, dropping, engine, registry>>, stopMark' = {},
           \/ UNCHANGED reconnect
           \/ reconnect' = [reconnect EXCEPT ![s] = "none"],
           flow'[f].pc \notin {"retire", "residue", "purge"},
           Finds(f, s)'
    PROVE  Turns(s)'
<1>0. Types /\ s \in Session
  BY TypesOf DEF Shaped, Turns
<1>1. /\ reconnect'[s] # "armed" /\ \A t \in Session \ {s} : reconnect'[t] = reconnect[t]
  BY <1>0, OnlyActs DEF Types
<1>2. registry[s] \notin dropping
  BY <1>0, OnlyActs, LifecycleAssumption DEF Types
<1> QED
  BY <1>0, <1>1, <1>2, OnlyActs, TurnsGo DEF Turns

\* Where the flows of one start are: which steps are theirs.
LEMMA TurnSteps ==
    ASSUME Shaped, NEW s, Turns(s), NEW f \in Flow, Continue(f) \/ Disturb(f)
    PROVE  /\ s \in Session /\ flow[f].session = s /\ flow[f].kind \in {"start", "attempt"}
           /\ \/ StartStep(f) \/ AttemptStep(f) \/ Saved(f) \/ Launched(f)
              \/ LaunchAborted(f) \/ Rejected(f) \/ Reaped(f) \/ Guarded(f)
              \/ SaveFails(f) \/ LaunchRejected(f) \/ LaunchHangs(f) \/ FenceRefuses(f)
              \/ flow[f].pc = "guard" /\ QueryFails(f)
<1>0. FlowFine(f)
  BY DEF Shaped
<1>1. flow[f].kind # "none"
  BY <1>0 DEF Continue, Disturb, StartStep, LaunchStep, AttemptStep, ControlStep, StartFailed, StartFenced,
     StartRegister, Saved, Launched, LaunchAborted, Rejected, Reaped, Guarded, Retired, Residue, Purged,
     AttemptCleared, AttemptFenced, ControlBegin, DeleteFenced, InitialAwaited, TornDown, Recorded,
     DeleteFencedAgain, DeleteCommits, DeletePurges, SaveFails, LaunchRejected, LaunchHangs, Control,
     FenceRefuses, DeleteRefused, EnterRefused, QueryFails, FlowFine, KindFine, KindAt
<1>2. flow[f].session = s /\ flow[f].kind \in {"start", "attempt"} /\ flow[f].pc \notin {"retire", "residue", "purge"}
  BY <1>1 DEF Turns
<1>3. flow[f].kind \notin Control
  BY <1>2 DEF Control
<1>4. ~ControlStep(f) /\ ~DeleteRefused(f) /\ ~EnterRefused(f) /\ ~Retired(f) /\ ~Residue(f) /\ ~Purged(f)
  BY <1>0, <1>2, <1>3 DEF ControlStep, ControlBegin, DeleteFenced, InitialAwaited, TornDown, Recorded,
     DeleteFencedAgain, DeleteCommits, DeletePurges, DeleteRefused, EnterRefused, Retired, Residue,
     Purged, FlowFine, KindFine, KindAt, Control
<1>5. QueryFails(f) => flow[f].pc = "guard"
  BY <1>0, <1>2, <1>3 DEF QueryFails, FlowFine, KindFine, KindAt, Control
<1> QED
  BY <1>2, <1>4, <1>5 DEF Continue, Disturb, LaunchStep, Turns

LEMMA TurnsStarts ==
    ASSUME Shaped, Shaped', NEW s, Turns(s), NEW f \in Flow, StartStep(f) PROVE Turns(s)'
<1>0. /\ Types /\ s \in Session /\ flow[f].session = s /\ stopMark = {} /\ SameKind(f) /\ Acts(f)
      /\ engine \in EngineTable /\ registry \in [Session -> Engine \cup {NoEngine}] /\ Finds(f, s)
  BY TypesOf, TurnSteps, KindsContinue
     DEF Shaped, Turns, Continue, Types, EngineTable, StartStep, StartFenced, StartRegister, StartFailed, Acts
<1>1. CASE StartFenced(f)
  <2>1. flow'[f].pc = "hook" /\ \A g \in Flow \ {f} : flow'[g] = flow[g]
    BY <1>0, <1>1, Accepted DEF StartFenced
  <2>2. /\ UNCHANGED <<row, requests, dropping, engine, registry>> /\ stopMark' = {}
        /\ reconnect' = [reconnect EXCEPT ![s] = "none"]
    BY <1>0, <1>1 DEF StartFenced, Accept, Unmark, table, ghost
  <2>3. Finds(f, s)'
    BY <1>0, <1>1, <2>1, <2>2 DEF Finds, StartFenced
  <2> QED
    BY <1>0, <2>1, <2>2, <2>3, TurnsMove
<1>2. CASE StartRegister(f)
  <2>1. /\ Register(f, s, flow[f].kind, registry, engine) /\ reconnect' = [reconnect EXCEPT ![s] = "dormant"]
        /\ UNCHANGED <<row, requests, dropping, stopMark>> /\ flow[f].kind # "none" /\ registry[s] = NoEngine
    BY <1>0, <1>2 DEF StartRegister, table, ghost, Finds
  <2>2. reconnect'[s] # "armed" /\ \A t \in Session \ {s} : reconnect'[t] = reconnect[t]
    BY <1>0, <2>1 DEF Types
  <2>3. /\ \A e \in Engine : engine[e].phase \notin Spawned
        /\ \A e \in dropping : engine[e].phase \in {"dead", "torn"}
    BY <2>1, LifecycleAssumption DEF Turns
  <2> QED
    BY <1>0, <2>1, <2>2, <2>3, TurnsBuild
<1>3. CASE StartFailed(f)
  <2>1. flow'[f] = NoFlow /\ \A g \in Flow \ {f} : flow'[g] = flow[g]
    BY <1>0, <1>3, Left DEF StartFailed
  <2>2. /\ UNCHANGED <<row, requests, dropping, engine, registry>> /\ stopMark' = {}
        /\ reconnect' = [reconnect EXCEPT ![s] = "none"]
    BY <1>0, <1>3 DEF StartFailed, ghost, marks
  <2>3. Finds(f, s)' /\ flow'[f].pc \notin {"retire", "residue", "purge"}
    BY <2>1, NothingHeld DEF Finds
  <2> QED
    BY <1>0, <2>1, <2>2, <2>3, TurnsMove
<1> QED
  BY <1>1, <1>2, <1>3 DEF StartStep

LEMMA TurnsAttempts ==
    ASSUME Shaped, Shaped', NEW s, Turns(s), NEW f \in Flow, AttemptStep(f) PROVE Turns(s)'
<1>0. /\ Types /\ s \in Session /\ flow[f].session = s /\ SameKind(f) /\ Acts(f) /\ flow[f].kind = "attempt"
      /\ stopMark = {} /\ engine \in EngineTable /\ registry \in [Session -> Engine \cup {NoEngine}] /\ Finds(f, s)
      /\ UNCHANGED <<row, requests, dropping, stopMark, reconnect>>
      /\ flow[f].engine \in Engine \cup {NoEngine}
  BY TypesOf, TurnSteps, KindsContinue
     DEF Shaped, Turns, Continue, Types, EngineTable, AttemptStep, AttemptCleared, AttemptFenced, Acts,
         table, ghost, marks, FlowState
<1>1. reconnect'[s] # "armed" /\ \A t \in Session \ {s} : reconnect'[t] = reconnect[t]
  BY <1>0, OnlyActs
<1>2. CASE AttemptFenced(f)
  <2>1. Register(f, s, flow[f].kind, registry, engine) /\ registry[s] = NoEngine
    BY <1>0, <1>2 DEF AttemptFenced, Finds
  <2>2. /\ \A e \in Engine : engine[e].phase \notin Spawned
        /\ \A e \in dropping : engine[e].phase \in {"dead", "torn"}
    BY <2>1, LifecycleAssumption DEF Turns
  <2> QED
    BY <1>0, <1>1, <2>1, <2>2, TurnsBuild
<1>3. CASE AttemptCleared(f)
  <2>1. PICK e \in Engine \cup {NoEngine} : e = flow[f].engine
    BY <1>0
  <2>2. PICK eng \in EngineTable : eng = Torn(engine, e)
    BY <1>0, TornIs
  <2>3. PICK reg \in [Session -> Engine \cup {NoEngine}] : reg = DeleteIfLive(e)
    BY <1>0, Unregistered
  <2>4. registry[s] \in {NoEngine, e}
    BY <1>0, <1>3, <2>1 DEF AttemptCleared, Finds
  <2>5. /\ \A d \in Engine \ {e} : eng[d] = engine[d]
        /\ e # NoEngine => eng[e].phase = "torn"
    BY <1>0, <2>2, TornIs
  <2>6. \A d \in Engine : eng[d].phase \notin Spawned
    BY <2>4, <2>5, LifecycleAssumption DEF Turns, Spawned
  <2>7. \A d \in dropping : eng[d].phase \in {"dead", "torn"}
    BY <1>0, <2>5, LifecycleAssumption DEF Types, Turns
  <2>8. reg[s] = NoEngine /\ \A t \in Session \ {s} : reg[t] = registry[t]
    BY <1>0, <2>3, <2>4, LifecycleAssumption DEF DeleteIfLive, Turns
  <2>9. CASE Register(f, s, flow[f].kind, reg, eng)
    BY <1>0, <1>1, <2>6, <2>7, <2>8, <2>9, TurnsBuild
  <2>10. CASE Wait(f, s, "attempt", "fence") /\ engine' = eng /\ registry' = reg
    <3>1. flow'[f].pc = "fence" /\ \A g \in Flow \ {f} : flow'[g] = flow[g]
      BY <1>0, <2>10 DEF Wait, Enter, Types
    <3>2. Finds(f, s)' /\ registry'[s] \notin dropping
      BY <1>0, <2>8, <2>10, <3>1, LifecycleAssumption DEF Finds, Types
    <3> QED
      BY <1>0, <1>1, <2>6, <2>7, <2>8, <2>10, <3>1, <3>2, TurnsGo
  <2> QED
    BY <1>0, <1>3, <2>1, <2>2, <2>3, <2>9, <2>10 DEF AttemptCleared
<1> QED
  BY <1>2, <1>3 DEF AttemptStep

LEMMA TurnsFailures ==
    ASSUME Shaped, Shaped', NEW s, Turns(s), NEW f \in Flow,
           LaunchAborted(f) \/ Rejected(f) \/ Reaped(f) \/ FenceRefuses(f)
    PROVE  Turns(s)'
<1>0. /\ Types /\ s \in Session /\ flow[f].session = s /\ SameKind(f) /\ Acts(f) /\ stopMark = {}
      /\ Finds(f, s) /\ UNCHANGED <<row, dropping, stopMark>>
  BY TypesOf, TurnSteps, KindsContinue
     DEF Shaped, Turns, Continue, Disturb, LaunchStep, LaunchAborted, Rejected, Reaped, FenceRefuses, Acts, marks
<1>1. status \in [Session -> Status] /\ WithStatus(s, "disconnected") \in [Session -> Status]
  BY <1>0, Written DEF Types, Status
<1>2. CASE \E sta \in [Session -> Status] : Fails(f, engine, sta)
  BY <1>0, <1>2, TurnsFail
<1>3. CASE Leave(f) /\ UNCHANGED <<status, engine, registry, reconnect, ghost>>
  <2>1. flow'[f] = NoFlow /\ \A g \in Flow \ {f} : flow'[g] = flow[g]
    BY <1>0, <1>3, Left
  <2>2. Finds(f, s)' /\ flow'[f].pc \notin {"retire", "residue", "purge"}
    BY <2>1, NothingHeld DEF Finds
  <2>3. UNCHANGED <<engine, registry, requests>>
    BY <1>3 DEF ghost
  <2> QED
    BY <1>0, <1>3, <2>1, <2>2, <2>3, TurnsMove
<1> QED
  BY <1>0, <1>1, <1>2, <1>3 DEF LaunchAborted, Rejected, Reaped, FenceRefuses

LEMMA TurnsReturns ==
    ASSUME Shaped, Shaped', NEW s, Turns(s), NEW f \in Flow, Saved(f) \/ Launched(f) PROVE Turns(s)'
<1>0. /\ Types /\ s \in Session /\ flow[f].session = s /\ SameKind(f) /\ Acts(f) /\ stopMark = {}
      /\ Finds(f, s) /\ UNCHANGED <<row, dropping, stopMark, registry, reconnect, requests>>
      /\ FlowFine(f) /\ flow[f] \in FlowState
  BY TypesOf, TurnSteps, KindsContinue
     DEF Shaped, Turns, Continue, LaunchStep, Saved, Launched, Acts, marks, table, ghost, Types
<1>1. PICK e \in Engine : e = flow[f].engine
  BY <1>0 DEF Saved, Launched, FlowFine, FlowState, Launching
<1>2. /\ engine[e].owner = s /\ reconnect[s] # "armed" /\ registry[s] \notin dropping
      /\ registry[s] # NoEngine => engine[registry[s]].phase # "up"
  BY <1>0, <1>1, OnlyActs, LifecycleAssumption DEF FlowFine, Types
<1>3. CASE Goto(f, "guard") /\ UNCHANGED engine
  <2>1. flow'[f].pc = "guard" /\ \A g \in Flow \ {f} : flow'[g] = flow[g]
    BY <1>0, <1>3, GoesTo DEF PC
  <2>2. Finds(f, s)'
    BY <2>1 DEF Finds
  <2> QED
    BY <1>0, <1>3, <2>1, <2>2, TurnsMove
<1>4. CASE Saved(f) /\ IsLive(e)
  <2>1. /\ engine' = [engine EXCEPT ![e].phase = "launching"] /\ Goto(f, "launching") /\ registry[s] = e
    BY <1>0, <1>1, <1>2, <1>4 DEF Saved, IsLive
  <2>2. flow'[f].pc = "launching" /\ flow'[f].engine = e /\ \A g \in Flow \ {f} : flow'[g] = flow[g]
    BY <1>0, <1>1, <2>1, GoesTo DEF PC
  <2>3. engine'[e].phase = "launching" /\ \A d \in Engine \ {e} : engine'[d] = engine[d]
    BY <1>0, <2>1, Rephased DEF Phase
  <2>4. Finds(f, s)'
    BY <1>0, <2>1, <2>2 DEF Finds
  <2>5. \A d \in Engine : engine'[d].phase \in Spawned => registry'[s] = d
    BY <1>0, <2>1, <2>3 DEF Turns
  <2>6. \A d \in dropping : engine'[d].phase \in {"dead", "torn"}
    BY <1>0, <1>2, <2>1, <2>3 DEF Turns, Types
  <2> QED
    BY <1>0, <1>1, <1>2, <2>1, <2>2, <2>3, <2>4, <2>5, <2>6, TurnsGo
<1>5. CASE Launched(f) /\ engine[e].phase = "launching"
  <2>1. /\ engine' = [engine EXCEPT ![e].phase = "up"] /\ Goto(f, "guard") /\ registry[s] = e
    BY <1>0, <1>1, <1>5 DEF Launched, AfterInit, Turns, Spawned
  <2>2. flow'[f].pc = "guard" /\ \A g \in Flow \ {f} : flow'[g] = flow[g]
    BY <1>0, <2>1, GoesTo DEF PC
  <2>3. engine'[e].phase = "up" /\ \A d \in Engine \ {e} : engine'[d] = engine[d]
    BY <1>0, <2>1, Rephased DEF Phase
  <2>4. Finds(f, s)' /\ ~Acts(f)'
    BY <2>2 DEF Finds, Acts
  <2>5. \A d \in Engine : engine'[d].phase \in Spawned => registry'[s] = d
    BY <1>0, <2>1, <2>3 DEF Turns
  <2>6. \A d \in dropping : engine'[d].phase \in {"dead", "torn"}
    BY <1>0, <1>2, <2>1, <2>3 DEF Turns, Types
  <2> QED
    BY <1>0, <1>2, <2>1, <2>2, <2>4, <2>5, <2>6, TurnsGo
<1> QED
  BY <1>0, <1>1, <1>3, <1>4, <1>5 DEF Saved, Launched, AfterInit

LEMMA TurnsMishaps ==
    ASSUME Shaped, Shaped', NEW s, Turns(s), NEW f \in Flow, SaveFails(f) \/ LaunchRejected(f) \/ LaunchHangs(f)
    PROVE  Turns(s)'
<1>0. /\ Types /\ s \in Session /\ flow[f].session = s /\ SameKind(f) /\ Acts(f) /\ stopMark = {}
      /\ Finds(f, s) /\ UNCHANGED <<row, dropping, reconnect, requests>> /\ stopMark' = {}
      /\ FlowFine(f) /\ flow[f] \in FlowState
  BY TypesOf, TurnSteps, KindsContinue
     DEF Shaped, Turns, Disturb, SaveFails, LaunchRejected, LaunchHangs, Acts, marks, table, Fault, Types
<1>1. PICK e \in Engine : e = flow[f].engine
  BY <1>0 DEF SaveFails, LaunchRejected, LaunchHangs, FlowFine, FlowState, Launching
<1>2. /\ engine[e].owner = s /\ reconnect[s] # "armed" /\ registry[s] \notin dropping
      /\ registry[s] # NoEngine => engine[registry[s]].phase # "up"
  BY <1>0, <1>1, OnlyActs, LifecycleAssumption DEF FlowFine, Types
<1>3. CASE SaveFails(f)
  <2> DEFINE r == [flow[f] EXCEPT !.pc = "failing"]
  <2>1. r.pc = "failing" /\ r.engine = flow[f].engine
    BY <1>0 DEF FlowState
  <2>2. flow' = [g \in Flow |-> IF g = f THEN r
                                ELSE IF flow[g].pc = "initial" /\ flow[g].engine = flow[f].engine
                                     THEN NoFlow ELSE flow[g]]
    BY <1>3 DEF SaveFails
  <2> HIDE DEF r
  <2>3. \A g \in Flow : flow[g].pc # "initial"
    BY DEF Turns, Shaped, FlowFine, KindFine, KindAt, Control
  <2>4. flow'[f].pc = "failing" /\ flow'[f].engine = flow[f].engine /\ \A g \in Flow \ {f} : flow'[g] = flow[g]
    BY <2>1, <2>2, <2>3
  <2>5. UNCHANGED <<engine, registry>>
    BY <1>3 DEF SaveFails
  <2>6. Finds(f, s)'
    BY <1>0, <1>3, <2>4, <2>5 DEF Finds, SaveFails
  <2> QED
    BY <1>0, <2>4, <2>5, <2>6, TurnsMove
<1>4. CASE LaunchRejected(f)
  <2>1. /\ engine' = [engine EXCEPT ![e].phase = "dead"] /\ Goto(f, "failing") /\ registry[s] = e
        /\ UNCHANGED registry
    BY <1>1, <1>4 DEF LaunchRejected, Turns, Spawned
  <2>2. flow'[f].pc = "failing" /\ flow'[f].engine = e /\ \A g \in Flow \ {f} : flow'[g] = flow[g]
    BY <1>0, <1>1, <2>1, GoesTo DEF PC
  <2>3. engine'[e].phase = "dead" /\ \A d \in Engine \ {e} : engine'[d] = engine[d]
    BY <1>0, <2>1, Rephased DEF Phase
  <2>4. Finds(f, s)'
    BY <2>1, <2>2 DEF Finds
  <2>5. \A d \in Engine : engine'[d].phase \in Spawned => registry'[s] = d
    BY <2>1, <2>3 DEF Turns
  <2>6. \A d \in dropping : engine'[d].phase \in {"dead", "torn"}
    BY <1>0, <2>3 DEF Turns, Types
  <2> QED
    BY <1>0, <1>1, <1>2, <2>1, <2>2, <2>3, <2>4, <2>5, <2>6, TurnsGo
<1>5. CASE LaunchHangs(f)
  <2>1. /\ engine' = Torn(engine, e) /\ Goto(f, "reap") /\ registry[s] \in {NoEngine, e}
        /\ registry' = [registry EXCEPT ![s] = NoEngine]
    BY <1>0, <1>1, <1>5 DEF LaunchHangs, Finds
  <2>2. flow'[f].pc = "reap" /\ \A g \in Flow \ {f} : flow'[g] = flow[g]
    BY <1>0, <2>1, GoesTo DEF PC
  <2>3. engine'[e].phase = "torn" /\ \A d \in Engine \ {e} : engine'[d] = engine[d]
    BY <1>0, <2>1, TornIs, LifecycleAssumption DEF Types, EngineTable
  <2>4. registry'[s] = NoEngine /\ (\A t \in Session \ {s} : registry'[t] = registry[t]) /\ NoEngine \notin dropping
    BY <1>0, <2>1, LifecycleAssumption DEF Types
  <2>5. Finds(f, s)'
    BY <2>2, <2>4 DEF Finds
  <2>6. \A d \in Engine : engine'[d].phase \notin Spawned
    BY <2>1, <2>3, LifecycleAssumption DEF Turns, Spawned
  <2>7. \A d \in dropping : engine'[d].phase \in {"dead", "torn"}
    BY <1>0, <2>3 DEF Turns, Types
  <2> QED
    BY <1>0, <1>2, <2>2, <2>4, <2>5, <2>6, <2>7, TurnsGo
<1> QED
  BY <1>3, <1>4, <1>5

\* A flow that has nothing left to do but look at the row ends.
LEMMA TurnsEnd ==
    ASSUME Shaped, NEW s, Turns(s), NEW f \in Flow, Guarded(f) \/ (flow[f].pc = "guard" /\ QueryFails(f))
    PROVE  Turns(s)'
<1>0. Types /\ flow[f].session = s /\ flow[f].kind # "delete" /\ flow[f].pc = "guard"
  BY TypesOf, TurnSteps DEF Shaped, Continue, LaunchStep, Disturb, Guarded
<1>1. Leave(f) /\ UNCHANGED <<row, engine, registry, reconnect, dropping, requests, stopMark>>
  BY <1>0 DEF Guarded, QueryFails, table, marks, ghost, Fault, Turns
<1>2. flow'[f] = NoFlow /\ \A g \in Flow \ {f} : flow'[g] = flow[g]
  BY <1>0, <1>1, Left
<1>3. \A g \in Flow : Acts(g)' => Acts(g)
  BY <1>2, NothingHeld DEF Acts
<1>4. Calm => Calm'
  BY <1>3 DEF Calm
<1>5. Resting(s)'
  BY <1>1, <1>4 DEF Resting, Turns
<1>6. \A g \in Flow : Finds(g, s)'
  BY <1>1, <1>2, NothingHeld DEF Finds, Turns
<1>7. \A g, h \in Flow : Acts(g)' /\ Acts(h)' => g = h
  BY <1>3 DEF Turns
<1>8. requests = 0 /\ s \in Session
  BY <1>0, NothingHeld DEF Turns
<1> QED
  BY <1>1, <1>2, <1>5, <1>6, <1>7, <1>8, NothingHeld DEF Turns, Present

-----------------------------------------------------------------------------
\* What engines report while one start reconnects.

LEMMA TurnsReport ==
    ASSUME Shaped, NEW s, Turns(s), UNCHANGED <<row, flow, stopMark>>, requests' = requests,
           requests = 1 => UNCHANGED <<registry, reconnect, dropping>>,
           \A t \in Session \ {s} : registry'[t] = registry[t] /\ reconnect'[t] = reconnect[t],
           registry'[s] \in {registry[s], NoEngine},
           \/ reconnect'[s] \in {reconnect[s], "none"}
           \/ Calm /\ (registry'[s] # NoEngine =>
                          engine'[registry'[s]].phase # "up" /\ registry'[s] \notin dropping'),
           registry'[s] # NoEngine /\ (engine'[registry'[s]].phase = "up" \/ registry'[s] \in dropping')
               => engine[registry[s]].phase = "up" \/ registry[s] \in dropping,
           \A e \in dropping' : engine'[e].phase \in {"dead", "torn"},
           \A e \in Engine : engine'[e].phase \in Spawned => registry'[s] = e
    PROVE  Turns(s)'
<1>1. Calm' <=> Calm
  BY DEF Calm, Acts
<1>2. Resting(s)'
  BY <1>1 DEF Resting, Turns
<1>3. \A f \in Flow : Finds(f, s)'
  BY DEF Finds, Turns
<1>4. \A f, g \in Flow : Acts(f)' /\ Acts(g)' => f = g
  BY DEF Acts, Turns
<1> QED
  BY <1>2, <1>3, <1>4 DEF Turns, Present

LEMMA OwnIsLive ==
    ASSUME Types, NEW s, Turns(s), NEW e \in Engine, IsLive(e)
    PROVE  engine[e].owner = s /\ registry[s] = e /\ requests = 0
  BY LifecycleAssumption DEF Turns, IsLive, Types

\* A connection that ends leaves a dead engine in the registry, and its drop to be handled.
LEMMA TurnsDrop ==
    ASSUME Shaped, NEW s, Turns(s), NEW e \in Engine, IsLive(e), engine[e].phase = "up",
           engine' = [engine EXCEPT ![e].phase = "dead"], dropping' = dropping \cup {e},
           UNCHANGED <<row, flow, stopMark, requests, registry, reconnect>>
    PROVE  Turns(s)'
<1>0. Types /\ registry[s] = e /\ requests = 0
  BY TypesOf, OwnIsLive DEF Shaped
<1>1. engine'[e].phase = "dead" /\ \A d \in Engine \ {e} : engine'[d] = engine[d]
  BY <1>0, Rephased DEF Phase
<1>2. \A d \in dropping' : engine'[d].phase \in {"dead", "torn"}
  BY <1>0, <1>1 DEF Turns, Types
<1>3. \A d \in Engine : engine'[d].phase \in Spawned => registry'[s] = d
  BY <1>0, <1>1 DEF Turns
<1> QED
  BY <1>0, <1>1, <1>2, <1>3, TurnsReport

\* A registered engine that fails, or is given up, is torn down and leaves the registry.
LEMMA TurnsGivenUp ==
    ASSUME Shaped, NEW s, Turns(s), NEW e \in Engine, registry[s] = e, engine' = Torn(engine, e),
           registry' = [registry EXCEPT ![s] = NoEngine], reconnect' = [reconnect EXCEPT ![s] = "none"],
           \A d \in dropping' : d \in dropping,
           UNCHANGED <<row, flow, stopMark, requests>>
    PROVE  Turns(s)'
<1>0. Types /\ requests # 1 /\ s \in Session
  BY TypesOf, LifecycleAssumption DEF Shaped, Turns
<1>1. engine'[e].phase = "torn" /\ \A d \in Engine \ {e} : engine'[d] = engine[d]
  BY <1>0, TornIs, LifecycleAssumption DEF Types, EngineTable
<1>2. \A d \in dropping' : engine'[d].phase \in {"dead", "torn"}
  BY <1>0, <1>1 DEF Turns, Types
<1>3. \A d \in Engine : engine'[d].phase \notin Spawned
  BY <1>0, <1>1 DEF Turns, Spawned
<1>4. /\ registry'[s] = NoEngine /\ reconnect'[s] = "none"
      /\ \A t \in Session \ {s} : registry'[t] = registry[t] /\ reconnect'[t] = reconnect[t]
  BY <1>0 DEF Types
<1> QED
  BY <1>0, <1>2, <1>3, <1>4, TurnsReport

\* The timer is armed for a dead engine that nobody acts on.
LEMMA TurnsHandled ==
    ASSUME Shaped, NEW s, Turns(s), NEW e \in Engine, DropHandled(e) PROVE Turns(s)'
<1>0. /\ Types /\ e \in dropping /\ dropping' = dropping \ {e} /\ UNCHANGED <<row, flow, stopMark>>
      /\ requests = 0 /\ s \in Session /\ engine[e].phase \in {"dead", "torn"}
  BY TypesOf DEF Shaped, DropHandled, marks, Turns
<1>1. CASE UNCHANGED <<registry, engine, reconnect, ghost>>
  <2>1. UNCHANGED <<registry, engine, reconnect>> /\ requests' = requests
    BY <1>1 DEF ghost
  <2> QED
    BY <1>0, <2>1, TurnsReport DEF Turns
<1>2. ASSUME NEW sta, IsLive(e), Reschedule(s, registry, engine, sta), engine[e].owner = s, registry[s] = e
      PROVE  Turns(s)'
  <2>1. Calm
    BY <1>0, <1>2, LifecycleAssumption DEF Turns, Resting
  <2>2. CASE reconnect' = [reconnect EXCEPT ![s] = "armed"] /\ UNCHANGED <<registry, engine, ghost>>
    <3>1. UNCHANGED <<registry, engine>> /\ requests' = requests
          /\ \A t \in Session \ {s} : reconnect'[t] = reconnect[t]
      BY <1>0, <2>2 DEF ghost, Types
    <3>2. engine'[registry'[s]].phase # "up" /\ registry'[s] \notin dropping'
      BY <1>0, <1>2, <3>1
    <3> QED
      BY <1>0, <2>1, <3>1, <3>2, TurnsReport DEF Turns
  <2>3. CASE /\ reconnect' = [reconnect EXCEPT ![s] = "none"] /\ Fault("exhaust")
             /\ registry' = [registry EXCEPT ![s] = NoEngine] /\ engine' = Torn(engine, registry[s])
    BY <1>0, <1>2, <2>3, TurnsGivenUp DEF Fault
  <2> QED
    BY <1>1, <1>2, <2>2, <2>3 DEF Reschedule
<1>3. CASE IsLive(e)
  <2>1. engine[e].owner = s /\ registry[s] = e
    BY <1>0, <1>3, OwnIsLive
  <2> QED
    BY <1>1, <1>2, <1>3, <2>1 DEF DropHandled
<1>4. CASE ~IsLive(e)
  BY <1>1, <1>4 DEF DropHandled
<1> QED
  BY <1>3, <1>4

LEMMA TurnsReports ==
    ASSUME Shaped, NEW s, Turns(s), OneStart, NEW e \in Engine, Callback(e) \/ Mishap(e)
    PROVE  Turns(s)'
<1>0. Types
  BY TypesOf DEF Shaped
<1>1. CASE Drops(e) \/ Unlinked(e) \/ (Cleared(e) /\ IsLive(e) /\ engine[e].phase = "up")
  <2>1. /\ IsLive(e) /\ engine[e].phase = "up" /\ engine' = [engine EXCEPT ![e].phase = "dead"]
        /\ dropping' = dropping \cup {e}
        /\ UNCHANGED <<row, flow, stopMark, requests, registry, reconnect>>
    BY <1>1 DEF Drops, Unlinked, Cleared, Fault, OneStart, table, marks, ghost
  <2> QED
    BY <2>1, TurnsDrop
<1>2. CASE IsLive(e) /\ (EngineFails(e, Fault("error")) \/ EngineFails(e, Fault("stuck")))
           /\ UNCHANGED <<row, flow, stopMark, dropping>>
  <2>1. engine[e].owner = s /\ registry[s] = e
    BY <1>0, <1>2, OwnIsLive
  <2>2. /\ engine' = Torn(engine, e) /\ registry' = [registry EXCEPT ![s] = NoEngine]
        /\ reconnect' = [reconnect EXCEPT ![s] = "none"] /\ requests' = requests
    BY <1>2, <2>1 DEF EngineFails, Fault
  <2> QED
    BY <1>2, <2>1, <2>2, TurnsGivenUp
<1>3. CASE UNCHANGED <<row, flow, stopMark, requests, engine, registry, reconnect>>
           /\ dropping' \in {dropping, dropping \ {e}} /\ (requests = 1 => dropping' = dropping)
  BY <1>3, TurnsReport DEF Turns
<1>4. CASE DropLost(e) \/ Wiped(e) \/ (Cleared(e) /\ ~(IsLive(e) /\ engine[e].phase = "up"))
           \/ (Stuck(e) /\ UNCHANGED <<status, engine, registry, reconnect>>)
  <2>1. e \in dropping => requests # 1
    BY DEF Turns
  <2>2. UNCHANGED <<row, flow, stopMark, requests, engine, registry, reconnect>>
    BY <1>4 DEF DropLost, Wiped, Cleared, Stuck, EngineFails, Fault, table, marks, ghost
  <2>3. dropping' \in {dropping, dropping \ {e}} /\ (requests = 1 => dropping' = dropping)
    BY <1>4, <2>1 DEF DropLost, Wiped, Cleared, Stuck
  <2> QED
    BY <1>3, <2>2, <2>3
<1>5. CASE Errs(e) \/ (Stuck(e) /\ ~UNCHANGED <<status, engine, registry, reconnect>>)
  BY <1>2, <1>5 DEF Errs, Stuck, marks
<1> QED
  BY <1>1, <1>4, <1>5, TurnsHandled DEF Callback, Mishap

LEMMA TurnsStart ==
    ASSUME Shaped, Shaped', NEW s, Turns(s), NEW f \in Flow, NEW t \in Session, Start(f, t) PROVE Turns(s)'
<1>0. Types /\ s \in Session
  BY TypesOf DEF Shaped, Turns
<1>1. /\ t = s /\ UNCHANGED <<row, engine, registry, dropping>> /\ registry[s] = NoEngine
      /\ requests = 1 /\ requests' = 0 /\ dropping = {} /\ \A g \in Flow : flow[g] = NoFlow
      /\ reconnect[s] = "none"
  BY <1>0 DEF Start, Request, Turns, table, disk
<1>2. /\ stopMark' = {} /\ reconnect' \in {reconnect, [reconnect EXCEPT ![s] = "none"]}
  BY <1>0, <1>1 DEF Start, Accept, Unmark, Turns
<1>3. reconnect'[s] = "none" /\ \A u \in Session \ {s} : reconnect'[u] = reconnect[u]
  BY <1>0, <1>1, <1>2 DEF Types
<1>4. /\ flow'[f].kind = "start" /\ flow'[f].session = s /\ flow'[f].pc \in {"fence", "hook"}
      /\ \A g \in Flow \ {f} : flow'[g] = NoFlow
  <2>1. CASE Accept(f, s)
    BY <1>0, <1>1, <2>1, Accepted
  <2>2. CASE Wait(f, s, "start", "fence")
    BY <1>0, <1>1, <2>2 DEF Wait, Enter, Types
  <2> QED
    BY <1>1, <2>1, <2>2 DEF Start
<1>5. Resting(s)' /\ \A g \in Flow : Finds(g, s)'
  BY <1>1, <1>3 DEF Resting, Finds
<1>6. \A g, h \in Flow : Acts(g)' /\ Acts(h)' => g = h
  BY <1>4, NothingHeld DEF Acts
<1>7. \A g \in Flow : flow'[g].kind # "none" =>
          /\ flow'[g].kind \in {"start", "attempt"} /\ flow'[g].session = s
          /\ flow'[g].pc \notin {"retire", "residue", "purge"}
  BY <1>4, NothingHeld
<1>8. /\ \A u \in Session : Present(u)' <=> u = s
      /\ \A u \in Session \ {s} : registry'[u] = NoEngine /\ reconnect'[u] = "none"
  BY <1>1, <1>3 DEF Turns, Present
<1>9. /\ \A e \in dropping' : engine'[e].phase \in {"dead", "torn"}
      /\ \A e \in Engine : engine'[e].phase \in Spawned => registry'[s] = e
  BY <1>1 DEF Turns
<1> QED
  BY <1>0, <1>1, <1>2, <1>5, <1>6, <1>7, <1>8, <1>9 DEF Turns

\* The timer's attempt takes over from nobody.
LEMMA TurnsFires ==
    ASSUME Shaped, Shaped', NEW s, Turns(s), NEW f \in Flow, NEW t \in Session, ReconnectFires(f, t)
    PROVE  Turns(s)'
<1>0. /\ Types /\ TypeOK /\ s \in Session /\ stopMark = {}
      /\ UNCHANGED <<row, requests, dropping, stopMark>>
  BY TypesOf DEF Shaped, Turns, ReconnectFires, table, marks, ghost
<1>1. /\ t = s /\ flow[f] = NoFlow /\ reconnect[s] = "armed" /\ Calm
      /\ reconnect' = [reconnect EXCEPT ![s] = "spent"] /\ requests = 0
  BY <1>0 DEF ReconnectFires, Turns, Resting
<1>2. reconnect'[s] = "spent" /\ \A u \in Session \ {s} : reconnect'[u] = reconnect[u]
  BY <1>0, <1>1 DEF Types
<1>3. registry[s] # NoEngine => engine[registry[s]].phase # "up" /\ registry[s] \notin dropping
  BY <1>1 DEF Turns, Resting
<1>4. ASSUME \A g \in Flow \ {f} : flow'[g] = flow[g],
             flow'[f].kind = "attempt", flow'[f].session = s, Finds(f, s)',
             flow'[f].pc \notin {"retire", "residue", "purge"},
             \A u \in Session \ {s} : registry'[u] = registry[u],
             registry'[s] # NoEngine => engine'[registry'[s]].phase # "up" /\ registry'[s] \notin dropping,
             \A e \in dropping : engine'[e].phase \in {"dead", "torn"},
             \A e \in Engine : engine'[e].phase \in Spawned => registry'[s] = e
      PROVE  Turns(s)'
  <2>1. \A g \in Flow \ {f} : ~Acts(g)' /\ Finds(g, s)'
    BY <1>1, <1>4 DEF Calm, Acts, Finds
  <2>2. \A g, h \in Flow : Acts(g)' /\ Acts(h)' => g = h
    BY <2>1
  <2>3. \A g \in Flow : Finds(g, s)'
    BY <1>4, <2>1
  <2>4. Resting(s)'
    BY <1>0, <1>2, <1>4 DEF Resting
  <2>5. \A u \in Session \ {s} : registry'[u] = NoEngine /\ reconnect'[u] = "none"
    BY <1>2, <1>4 DEF Turns
  <2>6. \A g \in Flow : flow'[g].kind # "none" =>
          /\ flow'[g].kind \in {"start", "attempt"} /\ flow'[g].session = s
          /\ flow'[g].pc \notin {"retire", "residue", "purge"}
    BY <1>4 DEF Turns
  <2> QED
    BY <1>0, <1>1, <1>4, <2>2, <2>3, <2>4, <2>5, <2>6 DEF Turns, Present
<1>5. ASSUME NEW pc \in {"teardown", "fence"}, NEW e \in Engine \cup {NoEngine}, NEW w,
             Enter(f, [kind |-> "attempt", session |-> s, pc |-> pc, engine |-> e, waits |-> w]),
             UNCHANGED <<engine, registry>>, e = registry[s], pc = "fence" => e = NoEngine
      PROVE  Turns(s)'
  <2>1. /\ flow'[f].kind = "attempt" /\ flow'[f].session = s /\ flow'[f].pc = pc /\ flow'[f].engine = e
        /\ \A g \in Flow \ {f} : flow'[g] = flow[g]
    BY <1>0, <1>5 DEF Enter, Types
  <2>2. Finds(f, s)'
    BY <1>5, <2>1 DEF Finds
  <2> QED
    BY <1>0, <1>3, <1>4, <1>5, <2>1, <2>2 DEF Turns
<1>6. CASE registry[s] # NoEngine
  <2>1. /\ Enter(f, [kind |-> "attempt", session |-> s, pc |-> "teardown", engine |-> registry[s], waits |-> {}])
        /\ UNCHANGED <<engine, registry>> /\ registry[s] \in Engine \cup {NoEngine}
    BY <1>0, <1>1, <1>6 DEF ReconnectFires, Types
  <2> QED
    BY <1>5, <2>1
<1>7. CASE registry[s] = NoEngine /\ Wait(f, s, "attempt", "fence") /\ UNCHANGED <<engine, registry>>
  <2>1. Enter(f, [kind |-> "attempt", session |-> s, pc |-> "fence", engine |-> NoEngine, waits |-> wiping])
    BY <1>1, <1>7 DEF Wait, NoFlow
  <2> QED
    BY <1>5, <1>7, <2>1
<1>8. CASE registry[s] = NoEngine /\ Register(f, s, "attempt", registry, engine)
  <2>0. engine \in EngineTable /\ registry \in [Session -> Engine \cup {NoEngine}]
    BY <1>0 DEF Types, EngineTable
  <2>a. PICK d \in Engine : Builds(f, s, "attempt", registry, engine, d)
    BY <1>0, <1>8, <2>0, Built
  <2>1. /\ d \notin dropping
        /\ engine'[d].phase = "built" /\ \A x \in Engine \ {d} : engine'[x] = engine[x]
        /\ registry'[s] = d /\ \A u \in Session \ {s} : registry'[u] = registry[u]
        /\ flow'[f].pc = "saving" /\ flow'[f].engine = d
        /\ flow'[f].kind = "attempt" /\ flow'[f].session = s
        /\ \A g \in Flow \ {f} : flow'[g] = flow[g]
    BY <2>a DEF Builds
  <2>2. Finds(f, s)'
    BY <2>1 DEF Finds
  <2>3. \A e \in dropping : engine'[e].phase \in {"dead", "torn"}
    BY <1>0, <2>1 DEF Turns, Types
  <2>4. \A e \in Engine : engine'[e].phase \in Spawned => registry'[s] = e
    BY <1>8, <2>1, LifecycleAssumption DEF Turns, Spawned
  <2> QED
    BY <1>4, <2>1, <2>2, <2>3, <2>4
<1> QED
  BY <1>0, <1>1, <1>6, <1>7, <1>8 DEF ReconnectFires

LEMMA StepTurns ==
    ASSUME Shaped, NEW s, Turns(s), OneStart, [Next]_vars PROVE Turns(s)'
<1>0. Shaped'
  BY StepKeeps
<1>1. ASSUME NEW f \in Flow, Continue(f) \/ Disturb(f) PROVE Turns(s)'
  BY <1>0, <1>1, TurnSteps, TurnsStarts, TurnsAttempts, TurnsReturns, TurnsFailures, TurnsMishaps, TurnsEnd
<1>2. CASE Ask
  <2>1. \E f \in Flow, t \in Session : Start(f, t)
    BY <1>2 DEF Ask, Create, StopEntered, ControlWithEngine, Request, OneStart
  <2> QED
    BY <1>0, <2>1, TurnsStart
<1>3. CASE UNCHANGED vars
  <2>1. UNCHANGED <<row, flow, stopMark, requests, engine, registry, reconnect, dropping>>
    BY <1>3 DEF vars
  <2> QED
    BY <2>1, TurnsReport DEF Turns
<1> QED
  BY <1>0, <1>1, <1>2, <1>3, TurnsFires, TurnsReports DEF Next

LEMMA TurnsAtFirst == ASSUME Init, OneStart PROVE \E s \in Session : Turns(s)
<1>1. PICK s \in Session : row = [t \in Session |-> IF t = s THEN "present" ELSE "absent"]
  BY DEF Init
<1>2. /\ \A f \in Flow : flow[f] = NoFlow
      /\ \A e \in Engine : engine[e].phase = "torn"
      /\ dropping = {} /\ stopMark = {} /\ \A t \in Session : reconnect[t] = "none" /\ registry[t] = NoEngine
  BY DEF Init
<1>3. requests \in {0, 1}
  BY LifecycleAssumption DEF Init, OneStart
<1>4. Turns(s)
  BY <1>1, <1>2, <1>3, NothingHeld DEF Turns, Resting, Acts, Finds, Present, Spawned
<1> QED
  BY <1>4

\* While one start reconnects: the engines of a session are never two at once, and
\* never one that no stop would find, whatever drops, hangs, is rejected or unlinked.
THEOREM OneWhileReconnecting ==
    ASSUME OneStart
    PROVE  Spec => []SoleEngine
<1> DEFINE Inv == Shaped /\ \E s \in Session : Turns(s)
<1>1. Init => Inv
  BY Booted, TurnsAtFirst
<1>2. Inv /\ [Next]_vars => Inv'
  <2> SUFFICES ASSUME Inv, [Next]_vars PROVE Inv'
    OBVIOUS
  <2>1. PICK s \in Session : Turns(s)
    OBVIOUS
  <2>2. Turns(s)'
    BY <2>1, StepTurns
  <2> QED
    BY <2>2, StepKeeps
<1>3. Inv => SoleEngine
  <2> SUFFICES ASSUME Inv PROVE SoleEngine
    OBVIOUS
  <2>1. PICK s \in Session : Turns(s)
    OBVIOUS
  <2>2. ASSUME NEW e \in Engine, engine[e].phase \in Live PROVE registry[s] = e /\ IsLive(e)
    <3>1. registry[s] = e /\ e # NoEngine
      BY <2>1, <2>2, LifecycleAssumption DEF Turns, Spawned, Live
    <3>2. s \in Session /\ engine[e].owner = s /\ s # NoSession
      BY <3>1, LifecycleAssumption DEF Shaped, TypeOK
    <3> QED
      BY <3>1, <3>2 DEF IsLive
  <2> QED
    BY <2>2 DEF SoleEngine, Tracked, OneEngine
<1> QED
  BY <1>1, <1>2, <1>3, PTL DEF Spec

-----------------------------------------------------------------------------
\* Credentials, while one start reconnects.

\* An engine of s that runs or may still be launched.
Fresh(s) == registry[s] # NoEngine /\ engine[registry[s]].phase \in {"built", "launching", "up"}

\* What credentials need besides: whoever builds an engine waits for the removals pending.
Waited(s) ==
    /\ clearing = {}
    /\ Fresh(s) => wiping = {}
    /\ \A f \in Flow : /\ flow[f].pc = "hook" => wiping = {}
                       /\ flow[f].pc = "fence" => wiping \subseteq flow[f].waits

\* A step that builds nothing and tracks no removal.
LEMMA WaitedOn ==
    ASSUME NEW s, Waited(s), clearing' = {}, wiping' \subseteq wiping, Fresh(s)' => Fresh(s),
           \A g \in Flow : flow'[g].pc \in {"fence", "hook"} => flow'[g] = flow[g]
    PROVE  Waited(s)'
<1>1. Fresh(s)' => wiping' = {}
  BY DEF Waited
<1>2. ASSUME NEW g \in Flow
      PROVE  /\ flow'[g].pc = "hook" => wiping' = {}
             /\ flow'[g].pc = "fence" => wiping' \subseteq flow'[g].waits
  BY DEF Waited
<1> QED
  BY <1>1, <1>2 DEF Waited

\* A step of one flow to where it waits for nothing, with nothing built.
LEMMA WaitedMove ==
    ASSUME NEW s, Waited(s), NEW f \in Flow, \A g \in Flow \ {f} : flow'[g] = flow[g],
           flow'[f].pc \notin {"fence", "hook"}, clearing' = clearing, wiping' = wiping,
           Fresh(s)' => Fresh(s)
    PROVE  Waited(s)'
  BY WaitedOn DEF Waited

\* A step of one flow with no removal pending, or to where it waits for all of them.
LEMMA WaitedFor ==
    ASSUME NEW s, Waited(s), NEW f \in Flow, \A g \in Flow \ {f} : flow'[g] = flow[g],
           \/ wiping = {}
           \/ flow'[f].pc = "fence" /\ flow'[f].waits = wiping /\ (Fresh(s)' => Fresh(s)),
           clearing' = clearing, wiping' = wiping
    PROVE  Waited(s)'
<1>1. Fresh(s)' => wiping' = {}
  BY DEF Waited
<1>2. ASSUME NEW g \in Flow
      PROVE  /\ flow'[g].pc = "hook" => wiping' = {}
             /\ flow'[g].pc = "fence" => wiping' \subseteq flow'[g].waits
  BY DEF Waited
<1> QED
  BY <1>1, <1>2 DEF Waited

LEMMA StartsWaited ==
    ASSUME Shaped, NEW s, Turns(s), Waited(s), NEW f \in Flow, StartStep(f) PROVE Waited(s)'
<1>0. Types /\ flow[f].session = s /\ s \in Session /\ wiping' = wiping /\ clearing' = clearing
  BY TypesOf, TurnSteps DEF Shaped, Continue, StartStep, StartFenced, StartRegister, StartFailed, disk
<1>1. CASE StartFenced(f)
  <2>1. wiping = {}
    BY <1>1 DEF StartFenced, Settled, Waited
  <2>2. \A g \in Flow \ {f} : flow'[g] = flow[g]
    BY <1>0, <1>1, Accepted DEF StartFenced
  <2> QED
    BY <1>0, <2>1, <2>2, WaitedFor
<1>2. CASE StartRegister(f)
  <2>1. wiping = {}
    BY <1>2 DEF StartRegister, Waited
  <2>2. \A g \in Flow \ {f} : flow'[g] = flow[g]
    BY <1>0, <1>2 DEF StartRegister, Register, Enter, Types
  <2> QED
    BY <1>0, <2>1, <2>2, WaitedFor
<1>3. CASE StartFailed(f)
  <2>1. flow'[f] = NoFlow /\ \A g \in Flow \ {f} : flow'[g] = flow[g]
    BY <1>0, <1>3, Left DEF StartFailed
  <2>2. UNCHANGED <<registry, engine>>
    BY <1>3 DEF StartFailed
  <2> QED
    BY <1>0, <2>1, <2>2, NothingHeld, WaitedMove DEF Fresh
<1> QED
  BY <1>1, <1>2, <1>3 DEF StartStep

LEMMA AttemptsWaited ==
    ASSUME Shaped, NEW s, Turns(s), Waited(s), NEW f \in Flow, AttemptStep(f) PROVE Waited(s)'
<1>0. /\ Types /\ flow[f].session = s /\ s \in Session /\ wiping' = wiping /\ clearing' = clearing
      /\ Finds(f, s)
  BY TypesOf, TurnSteps DEF Shaped, Continue, AttemptStep, AttemptCleared, AttemptFenced, disk, Turns
<1>1. \A g \in Flow \ {f} : flow'[g] = flow[g]
  BY <1>0 DEF AttemptStep, AttemptCleared, AttemptFenced, Register, Wait, Enter, Types
<1>2. CASE AttemptFenced(f)
  <2>1. wiping = {}
    BY <1>2 DEF AttemptFenced, Settled, Waited
  <2> QED
    BY <1>0, <1>1, <2>1, WaitedFor
<1>3. CASE AttemptCleared(f) /\ wiping # {}
  <2>1. Wait(f, s, "attempt", "fence") /\ registry' = DeleteIfLive(flow[f].engine)
    BY <1>0, <1>3 DEF AttemptCleared
  <2>2. flow'[f].pc = "fence" /\ flow'[f].waits = wiping
    BY <1>0, <2>1 DEF Wait, Enter, Types
  <2>3. registry'[s] = NoEngine
    BY <1>0, <1>3, <2>1 DEF DeleteIfLive, Finds, AttemptCleared
  <2> QED
    BY <1>0, <1>1, <2>2, <2>3, WaitedFor DEF Fresh
<1> QED
  BY <1>0, <1>1, <1>2, <1>3, WaitedFor DEF AttemptStep

LEMMA ReturnsWaited ==
    ASSUME Shaped, NEW s, Turns(s), Waited(s), NEW f \in Flow, Saved(f) \/ Launched(f) PROVE Waited(s)'
<1>0. /\ Types /\ flow[f].session = s /\ s \in Session /\ wiping' = wiping /\ clearing' = clearing
      /\ stopMark = {} /\ registry' = registry /\ FlowFine(f) /\ flow[f] \in FlowState
  BY TypesOf, TurnSteps DEF Shaped, Continue, LaunchStep, Saved, Launched, disk, Turns, Types
<1>1. PICK e \in Engine : e = flow[f].engine
  BY <1>0 DEF Saved, Launched, FlowFine, FlowState, Launching
<1>2. \E pc \in {"launching", "guard"} : Goto(f, pc)
  BY <1>0 DEF Saved, Launched, AfterInit
<1>3. flow'[f].pc \in {"launching", "guard"} /\ \A g \in Flow \ {f} : flow'[g] = flow[g]
  BY <1>0, <1>2, GoesTo DEF PC
<1>4. \/ engine' = engine
      \/ engine[e].phase \in {"built", "launching"} /\ \E p \in Phase : engine' = [engine EXCEPT ![e].phase = p]
  BY <1>0, <1>1 DEF Saved, Launched, FlowFine, Phase
<1>5. \A d \in Engine : engine'[d] = engine[d] \/ engine[d].phase \in {"built", "launching"}
  BY <1>0, <1>4, Rephased
<1>6. Fresh(s)' => Fresh(s)
  <2>1. registry[s] \in Engine \cup {NoEngine}
    BY <1>0 DEF Types
  <2> QED
    BY <1>0, <1>5, <2>1 DEF Fresh
<1> QED
  BY <1>0, <1>3, <1>6, WaitedMove

LEMMA FailuresAwait ==
    ASSUME Shaped, NEW s, Turns(s), Waited(s), NEW f \in Flow,
           LaunchAborted(f) \/ Rejected(f) \/ Reaped(f) \/ FenceRefuses(f)
    PROVE  Waited(s)'
<1>0. /\ Types /\ flow[f].session = s /\ s \in Session /\ wiping' = wiping /\ clearing' = clearing
  BY TypesOf, TurnSteps
     DEF Shaped, Continue, Disturb, LaunchStep, LaunchAborted, Rejected, Reaped, FenceRefuses, disk
<1>1. status \in [Session -> Status] /\ WithStatus(s, "disconnected") \in [Session -> Status]
  BY <1>0, Written DEF Types, Status
<1>2. ASSUME NEW sta \in [Session -> Status], Fails(f, engine, sta) PROVE Waited(s)'
  <2>1. /\ registry' = [registry EXCEPT ![s] = NoEngine]
        /\ flow'[f] = NoFlow \/ flow'[f].pc = "failed"
        /\ \A g \in Flow \ {f} : flow'[g] = flow[g]
    BY <1>0, <1>2, FailsIs
  <2>2. registry'[s] = NoEngine
    BY <1>0, <2>1 DEF Types
  <2> QED
    BY <1>0, <2>1, <2>2, NothingHeld, WaitedMove DEF Fresh
<1>3. CASE Leave(f) /\ UNCHANGED <<engine, registry>>
  <2>1. flow'[f] = NoFlow /\ \A g \in Flow \ {f} : flow'[g] = flow[g]
    BY <1>0, <1>3, Left
  <2> QED
    BY <1>0, <1>3, <2>1, NothingHeld, WaitedMove DEF Fresh
<1> QED
  BY <1>0, <1>1, <1>2, <1>3 DEF LaunchAborted, Rejected, Reaped, FenceRefuses

LEMMA MishapsWaited ==
    ASSUME Shaped, NEW s, Turns(s), Waited(s), NEW f \in Flow,
           SaveFails(f) \/ LaunchRejected(f) \/ LaunchHangs(f) \/ Guarded(f) \/ (flow[f].pc = "guard" /\ QueryFails(f))
    PROVE  Waited(s)'
<1>0. /\ Types /\ flow[f].session = s /\ s \in Session /\ wiping' = wiping /\ clearing' = clearing
      /\ FlowFine(f) /\ flow[f] \in FlowState
  BY TypesOf, TurnSteps
     DEF Shaped, Continue, Disturb, LaunchStep, SaveFails, LaunchRejected, LaunchHangs, Guarded, QueryFails, disk, Types
<1>1. CASE SaveFails(f)
  <2> DEFINE r == [flow[f] EXCEPT !.pc = "failing"]
  <2>1. r.pc = "failing"
    BY <1>0 DEF FlowState
  <2>2. flow' = [g \in Flow |-> IF g = f THEN r
                                ELSE IF flow[g].pc = "initial" /\ flow[g].engine = flow[f].engine
                                     THEN NoFlow ELSE flow[g]]
    BY <1>1 DEF SaveFails
  <2> HIDE DEF r
  <2>3. \A g \in Flow : flow'[g].pc \in {"fence", "hook"} => flow'[g] = flow[g]
    BY <2>1, <2>2, NothingHeld
  <2>4. UNCHANGED <<registry, engine>>
    BY <1>1 DEF SaveFails
  <2> QED
    BY <1>0, <2>3, <2>4, WaitedOn DEF Fresh, Waited
<1>2. CASE LaunchRejected(f)
  <2>1. PICK e \in Engine : e = flow[f].engine
    BY <1>0, <1>2 DEF LaunchRejected, FlowFine, FlowState, Launching
  <2>2. engine' = [engine EXCEPT ![e].phase = "dead"] /\ Goto(f, "failing") /\ registry' = registry
    BY <1>2, <2>1 DEF LaunchRejected
  <2>3. flow'[f].pc = "failing" /\ \A g \in Flow \ {f} : flow'[g] = flow[g]
    BY <1>0, <2>2, GoesTo DEF PC
  <2>4. engine'[e].phase = "dead" /\ \A d \in Engine \ {e} : engine'[d] = engine[d]
    BY <1>0, <2>2, Rephased DEF Phase
  <2>5. Fresh(s)' => Fresh(s)
    BY <1>0, <2>2, <2>4 DEF Fresh, Types
  <2> QED
    BY <1>0, <2>3, <2>5, WaitedMove
<1>3. CASE LaunchHangs(f)
  <2>1. flow'[f].pc = "reap" /\ \A g \in Flow \ {f} : flow'[g] = flow[g]
    BY <1>0, <1>3, GoesTo DEF LaunchHangs, PC
  <2>2. registry'[s] = NoEngine
    BY <1>0, <1>3 DEF LaunchHangs, Types
  <2> QED
    BY <1>0, <2>1, <2>2, WaitedMove DEF Fresh
<1>4. CASE Guarded(f) \/ QueryFails(f)
  <2>1. flow[f].session \in Session => Present(flow[f].session)
    BY <1>0 DEF Turns
  <2>2. Leave(f) /\ UNCHANGED <<registry, engine>>
    BY <1>0, <1>4, <2>1 DEF Guarded, QueryFails
  <2>3. flow'[f] = NoFlow /\ \A g \in Flow \ {f} : flow'[g] = flow[g]
    BY <1>0, <2>2, Left
  <2> QED
    BY <1>0, <2>2, <2>3, NothingHeld, WaitedMove DEF Fresh
<1> QED
  BY <1>1, <1>2, <1>3, <1>4

LEMMA AskedWaited ==
    ASSUME Shaped, NEW s, Turns(s), Waited(s), NEW f \in Flow, NEW t \in Session,
           Start(f, t) \/ ReconnectFires(f, t)
    PROVE  Waited(s)'
<1>0. /\ Types /\ s \in Session /\ wiping' = wiping /\ clearing' = clearing
  BY TypesOf DEF Shaped, Turns, Start, ReconnectFires, disk
<1>1. /\ t = s /\ flow[f] = NoFlow /\ s \notin stopMark
      /\ ReconnectFires(f, t) => Calm
  BY <1>0 DEF Start, ReconnectFires, Turns, Resting
<1>2. CASE wiping = {}
  <2>1. \A g \in Flow \ {f} : flow'[g] = flow[g]
    BY <1>0 DEF Start, ReconnectFires, Accept, Wait, Register, Enter, Types
  <2> QED
    BY <1>0, <1>2, <2>1, WaitedFor
<1>3. CASE wiping # {} /\ (Start(f, t) \/ registry[s] = NoEngine)
  <2>1. \E k \in {"start", "attempt"} : Wait(f, s, k, "fence") /\ UNCHANGED <<engine, registry>>
    BY <1>1, <1>3 DEF Start, ReconnectFires
  <2>2. flow'[f].pc = "fence" /\ flow'[f].waits = wiping /\ \A g \in Flow \ {f} : flow'[g] = flow[g]
    BY <1>0, <2>1 DEF Wait, Enter, Types
  <2> QED
    BY <1>0, <2>1, <2>2, WaitedFor DEF Fresh
<1>4. CASE ReconnectFires(f, t) /\ registry[s] # NoEngine
  <2> DEFINE r == [kind |-> "attempt", session |-> s, pc |-> "teardown", engine |-> registry[s], waits |-> {}]
  <2>1. Enter(f, r) /\ UNCHANGED <<engine, registry>> /\ r.pc = "teardown"
    BY <1>1, <1>4 DEF ReconnectFires
  <2> HIDE DEF r
  <2>2. flow'[f].pc = "teardown" /\ \A g \in Flow \ {f} : flow'[g] = flow[g]
    BY <1>0, <2>1 DEF Enter, Types
  <2> QED
    BY <1>0, <2>1, <2>2, WaitedMove DEF Fresh
<1> QED
  BY <1>2, <1>3, <1>4

\* A removal starts only with a disconnection of an engine that runs, which nobody acts on.
LEMMA ReportsWaited ==
    ASSUME Shaped, NEW s, Turns(s), Waited(s), "stuck" \notin Faults, NEW e \in Engine, Callback(e) \/ Mishap(e)
    PROVE  Waited(s)'
<1>0. Types /\ s \in Session
  BY TypesOf DEF Shaped, Turns
<1>1. ~Cleared(e) /\ ~Stuck(e)
  BY DEF Cleared, Stuck, EngineFails, Fault, Waited
<1>2. flow' = flow /\ clearing' = clearing
  BY <1>1 DEF Callback, Mishap, DropHandled, DropLost, Drops, Unlinked, Errs, Wiped, disk
<1>3. CASE Unlinked(e)
  <2>1. /\ IsLive(e) /\ engine[e].phase = "up" /\ engine' = [engine EXCEPT ![e].phase = "dead"]
        /\ registry' = registry /\ wiping' = wiping \cup {e}
    BY <1>3 DEF Unlinked
  <2>2. registry[s] = e
    BY <1>0, <2>1, OwnIsLive
  <2>3. ~Fresh(s)'
    BY <1>0, <2>1, <2>2, Rephased DEF Fresh, Phase
  <2>4. Calm
    BY <2>1, <2>2, LifecycleAssumption DEF Turns, Resting
  <2>5. \A f \in Flow : flow[f].pc \notin {"fence", "hook"}
    BY <2>4 DEF Calm, Acts
  <2> QED
    BY <1>2, <2>3, <2>5 DEF Waited
<1>4. ASSUME wiping' \subseteq wiping, Fresh(s)' => Fresh(s) PROVE Waited(s)'
  BY <1>2, <1>4, WaitedOn DEF Waited
<1>5. CASE Wiped(e) \/ DropLost(e)
  BY <1>4, <1>5 DEF Wiped, DropLost, disk, Fresh
<1>6. CASE Drops(e)
  <2>1. engine'[e].phase = "dead" /\ \A d \in Engine \ {e} : engine'[d] = engine[d]
    BY <1>0, <1>6, Rephased DEF Drops, Phase
  <2>2. registry' = registry /\ wiping' = wiping
    BY <1>6 DEF Drops, disk
  <2>3. Fresh(s)' => Fresh(s)
    BY <1>0, <2>1, <2>2 DEF Fresh, Types
  <2> QED
    BY <1>4, <2>2, <2>3
<1>7. CASE Errs(e)
  <2>1. IsLive(e) /\ registry' = [registry EXCEPT ![engine[e].owner] = NoEngine] /\ wiping' = wiping
    BY <1>7 DEF Errs, EngineFails, disk
  <2>2. registry'[s] = NoEngine
    BY <1>0, <2>1, OwnIsLive DEF Types
  <2> QED
    BY <1>4, <2>1, <2>2 DEF Fresh
<1>8. CASE DropHandled(e)
  <2>1. wiping' = wiping
    BY <1>8 DEF DropHandled, disk
  <2>2. UNCHANGED <<engine, registry>> \/ registry'[s] = NoEngine
    <3>1. CASE ~IsLive(e)
      BY <1>8, <3>1 DEF DropHandled
    <3>2. CASE IsLive(e)
      <4>1. engine[e].owner = s
        BY <1>0, <3>2, OwnIsLive
      <4>2. UNCHANGED <<engine, registry>> \/ registry' = [registry EXCEPT ![s] = NoEngine]
        BY <1>8, <4>1 DEF DropHandled, Reschedule
      <4> QED
        BY <1>0, <4>2 DEF Types
    <3> QED
      BY <3>1, <3>2
  <2> QED
    BY <1>4, <2>1, <2>2 DEF Fresh
<1> QED
  BY <1>1, <1>3, <1>5, <1>6, <1>7, <1>8 DEF Callback, Mishap

LEMMA StepWaited ==
    ASSUME Shaped, NEW s, Turns(s), Waited(s), OneStart, "stuck" \notin Faults, [Next]_vars PROVE Waited(s)'
<1>1. ASSUME NEW f \in Flow, Continue(f) \/ Disturb(f) PROVE Waited(s)'
  BY <1>1, TurnSteps, StartsWaited, AttemptsWaited, ReturnsWaited, FailuresAwait, MishapsWaited
<1>2. CASE Ask
  <2>1. \E f \in Flow, t \in Session : Start(f, t)
    BY <1>2 DEF Ask, Create, StopEntered, ControlWithEngine, Request, OneStart
  <2> QED
    BY <2>1, AskedWaited
<1>3. CASE UNCHANGED vars
  <2>1. UNCHANGED <<flow, clearing, wiping, registry, engine>>
    BY <1>3 DEF vars
  <2> QED
    BY <2>1, WaitedOn DEF Fresh, Waited
<1> QED
  BY <1>1, <1>2, <1>3, AskedWaited, ReportsWaited DEF Next

LEMMA TurnsSpare ==
    ASSUME Shaped, NEW s, Turns(s), Waited(s), [Next]_vars PROVE Spares
<1>0. Types
  BY TypesOf DEF Shaped
<1>1. CASE UNCHANGED dir
  BY <1>1 DEF Spares
<1>2. ~ \E e \in Engine : Cleared(e)
  BY DEF Cleared, Waited
<1>3. ASSUME NEW e \in Engine, Wiped(e), dir # NoEngine PROVE engine[dir].phase \notin Live
  <2>1. wiping # {} /\ dir \in Engine
    BY <1>0, <1>3 DEF Wiped, Types
  <2>2. ~Fresh(s)
    BY <2>1 DEF Waited
  <2> QED
    BY <1>3, <2>1, <2>2 DEF Turns, Fresh, Spawned, Live
<1> QED
  BY <1>1, <1>2, <1>3, DirKept, FlowSpares DEF Spares

\* While one start reconnects and no authentication is stuck, credentials are not
\* removed under an engine that is using them: the attempt that follows an unlink
\* builds its engine once the removal is over.
THEOREM SparedWhileReconnecting ==
    ASSUME OneStart, "stuck" \notin Faults
    PROVE  Spec => CredentialsSpared
<1> DEFINE Inv == Shaped /\ \E s \in Session : Turns(s) /\ Waited(s)
<1>1. Init => Inv
  <2> SUFFICES ASSUME Init PROVE Inv
    OBVIOUS
  <2>1. PICK s \in Session : Turns(s)
    BY TurnsAtFirst
  <2>2. clearing = {} /\ wiping = {}
    BY DEF Init
  <2>3. Waited(s)
    BY <2>2 DEF Waited
  <2> QED
    BY <2>1, <2>3, Booted
<1>2. Inv /\ [Next]_vars => Inv' /\ Spares
  <2> SUFFICES ASSUME Inv, [Next]_vars PROVE Inv' /\ Spares
    OBVIOUS
  <2>1. PICK s \in Session : Turns(s) /\ Waited(s)
    OBVIOUS
  <2>2. Turns(s)' /\ Waited(s)' /\ Spares
    BY <2>1, StepTurns, StepWaited, TurnsSpare
  <2> QED
    BY <2>2, StepKeeps
<1> QED
  BY <1>1, <1>2, PTL DEF Spec, CredentialsSpared, Spares

=============================================================================
