------------------------ MODULE PluginRuntimeProofs -------------------------
(***************************************************************************)
(* What PluginRuntime's runs check on three generations, for any number of *)
(* them, of versions, of events and of faults.  IInv says which worker,    *)
(* which host and which directories go with each place of an operation;    *)
(* every property but CallsLive follows from it.  CallsLive is inductive   *)
(* once the shape of a call is added, and needs a lemma on each way an     *)
(* event moves.                                                            *)
(***************************************************************************)
EXTENDS PluginRuntime, FiniteSetTheorems, TLAPS

\* An operation is bringing a worker up, or taking one down.
Lifting == {"loading", "enabling", "failing"}
Closing == {"disabling", "terminating"}

\* The directories and the loader keep to their ranges.
Directories ==
    /\ live \in Version \cup {None} /\ backup \in Version \cup {None}
    /\ staging \in Version \cup {None} /\ loaded \in Version \cup {None}
    /\ status \in Status
\* So do the generations.
Workers ==
    /\ hooks \subseteq Worker /\ host \in Worker \cup {None} /\ search \in Worker \cup {None}
    /\ worker \in [Worker -> {"off", "up", "hung"}]

\* The operation is a record of its four fields, each in its range.
Shape == op = Doing(op.kind, op.pc, op.w, op.was) /\ op.was \in BOOLEAN
Fields == /\ op.kind \in Kind /\ op.w \in Worker \cup {None}
          /\ op.pc \in {"idle", "swap", "rollback"} \cup Lifting \cup Closing
\* The operation: what it can be doing at each place, and the generation it holds.
Operation ==
    /\ op.pc = "idle" => op.kind = "none" /\ op.w = None /\ ~op.was
    /\ op.pc \in Lifting => op.kind \in {"enable", "restore", "update", "back"} /\ op.w # None
    /\ op.pc \in Closing => op.kind \in {"disable", "uninstall", "update"} /\ op.w # None
    /\ op.pc \in {"swap", "rollback"} => op.kind = "update" /\ op.w = None
    /\ op.kind \in {"update", "back"} /\ op.pc \in Lifting \cup Closing => op.was

\* The loader's host is a worker that runs, and the operation's own while there is one.
Hosted == /\ host # None => Runs(host)
          /\ op.pc # "idle" => host \in {op.w, None}
          /\ op.pc = "failing" => host = None
          /\ op.pc \in {"loading", "enabling"} /\ Runs(op.w) => host = op.w
          /\ op.pc = "idle" /\ host # None => status = "enabled"

\* ENABLED stands over a host, in a plugin the operator wants.
EnabledStands ==
    status = "enabled" => /\ host # None /\ loaded # None /\ decision
                          /\ op.pc \in {"idle"} \cup Closing

\* What brings a plugin back by itself is only asked to where the operator had enabled it.
Decided == op.kind = "restore" \/ (op.kind \in {"update", "back"} /\ op.was) => decision

\* A process that is down has nothing in memory.
Down == ~up => op.pc = "idle" /\ host = None /\ loaded = None /\ status = "none"

\* The directories at each place of an operation.
AtRest == up /\ op.pc = "idle" => /\ loaded = IF live \in Faulty THEN None ELSE live
                                  /\ backup = None /\ staging = None
OnDisk ==
    /\ AtRest
    /\ op.pc \in Lifting \cup Closing \cup {"swap"} => live \in Version \ Faulty /\ loaded = live
    /\ op.pc \in Lifting =>
          staging = None /\ IF op.kind = "update" THEN backup \in Version \ Faulty ELSE backup = None
    /\ op.pc \in Closing \cup {"swap"} =>
          backup = None /\ IF op.kind = "update" THEN staging \in Version ELSE staging = None
    /\ op.pc = "rollback" => backup \in Version \ Faulty /\ staging = None

\* Inductive.
IInv == /\ Directories /\ Workers /\ Shape /\ Fields /\ Operation /\ Hosted
        /\ EnabledStands /\ Decided /\ Down /\ OnDisk
        /\ NoStrayWorker /\ RegistrationsLive

-----------------------------------------------------------------------------
\* None is not a worker.
LEMMA NoWorker == None \notin Worker
  BY PluginAssumption DEF PluginAssumption

\* None is not a package; a refused one is.
LEMMA NoVersion == None \notin Version /\ Faulty \subseteq Version
  BY PluginAssumption DEF PluginAssumption

\* What a step writes with Doing has the shape.
LEMMA ShapeOf ==
    ASSUME NEW k, NEW w, NEW b \in BOOLEAN, NEW p, op' = Doing(k, p, w, b)
    PROVE  Shape'
<1>1. op'.kind = k /\ op'.pc = p /\ op'.w = w /\ op'.was = b
  BY SMT DEF Doing
<1>2. QED BY <1>1, Zenon DEF Shape

\* So has what it leaves alone.
LEMMA ShapeSame == ASSUME Shape, UNCHANGED op PROVE Shape'
  BY DEF Shape

\* And what a launch writes.
LEMMA LaunchShape ==
    ASSUME NEW k, NEW b \in BOOLEAN, Launch(k, b)
    PROVE  Shape'
  BY ShapeOf, Zenon DEF Launch

\* A launch keeps the generations in range.
LEMMA LaunchWorkers ==
    ASSUME Workers, NEW k, NEW b, Launch(k, b)
    PROVE  host' \in Worker \cup {None} /\ worker' \in [Worker -> {"off", "up", "hung"}]
  BY SMT DEF Workers, Launch

\* So does the end of a worker.
LEMMA OffWorkers ==
    ASSUME Workers, NEW w \in Worker, worker' = [worker EXCEPT ![w] = "off"]
    PROVE  worker' \in [Worker -> {"off", "up", "hung"}]
  BY SMT DEF Workers

-----------------------------------------------------------------------------
\* Every step keeps the directories and the loader in range.
LEMMA DirectoriesKept ==
    ASSUME Directories, Next  PROVE Directories'
<1> USE DEF Directories, Status, disk, registry, events
<1>1. CASE Enable  BY <1>1, SMT DEF Enable, Ready, Launch
<1>2. CASE Disable  BY <1>2, SMT DEF Disable, Ready, Teardown
<1>3. CASE Uninstall
  <2>1. CASE status = "enabled"  BY <1>3, <2>1, SMT DEF Uninstall
  <2>2. CASE status # "enabled"  BY <1>3, <2>2, SMT DEF Uninstall, Removed
  <2> QED BY <2>1, <2>2
<1>4. CASE Install  BY <1>4, SMT DEF Install, Ready
<1>5. CASE Update  BY <1>5, SMT DEF Update, Ready, Teardown
<1>6. CASE Loads  BY <1>6, SMT DEF Loads, Goto
<1>7. CASE Enabled  BY <1>7, SMT DEF Enabled
<1>8. CASE EnableFails  BY <1>8, SMT DEF EnableFails, Fault, Goto
<1>9. CASE Failed  BY <1>9, SMT DEF Failed, Terminated, Drained, Unregistered
<1>10. CASE DisableRuns  BY <1>10, SMT DEF DisableRuns, Goto
<1>11. CASE Disabled  BY <1>11, SMT DEF Disabled, Terminated, Drained, Unregistered, Removed
<1>12. CASE Swap
  <2>1. CASE staging \in Faulty  BY <1>12, <2>1, SMT DEF Swap
  <2>2. CASE staging \notin Faulty  BY <1>12, <2>2, SMT DEF Swap
  <2> QED BY <2>1, <2>2
<1>13. CASE SwapFails  BY <1>13, SMT DEF SwapFails, Fault, Resume, Launch
<1>14. CASE Rollback  BY <1>14, SMT DEF Rollback, Reloaded, Resume, Launch
<1>15. CASE Crash  BY <1>15, SMT DEF Crash, Fault, Cuts, AllOff, NoCalls, NoCount
<1>16. CASE Boot  BY <1>16, SMT DEF Boot, Recovered, Restored, Launch
<1>17. ASSUME NEW w \in Worker, Exits(w)  PROVE Directories'
  BY <1>17, SMT DEF Exits, Fault, Drained, CrashCleanup
<1>18. ASSUME NEW w \in Worker, Hangs(w)  PROVE Directories'
  BY <1>18, SMT DEF Hangs, Fault
<1>19. ASSUME NEW w \in Worker, Subscribes(w)  PROVE Directories'
  BY <1>19, SMT DEF Subscribes
<1>20. ASSUME NEW w \in Worker, Provides(w)  PROVE Directories'
  BY <1>20, SMT DEF Provides
<1>21. ASSUME NEW c \in Call, Fires(c)  PROVE Directories'
  BY <1>21, SMT DEF Fires
<1>22. ASSUME NEW c \in Call, Dispatches(c)  PROVE Directories'
  BY <1>22, SMT DEF Dispatches
<1>23. ASSUME NEW c \in Call, Answers(c)  PROVE Directories'
  BY <1>23, SMT DEF Answers, Settled
<1>24. QED
  BY <1>1, <1>2, <1>3, <1>4, <1>5, <1>6, <1>7, <1>8, <1>9, <1>10, <1>11, <1>12,
     <1>13, <1>14, <1>15, <1>16, <1>17, <1>18, <1>19, <1>20, <1>21, <1>22, <1>23 DEF Next, Step

\* Every step keeps the generations in range.
LEMMA WorkersKept ==
    ASSUME Workers, Fields, Operation, Next  PROVE Workers'
<1> USE NoWorker DEF Workers, Fields, disk, registry, events
<1>1. CASE Enable  BY LaunchWorkers, <1>1, Zenon DEF Enable, Ready
<1>2. CASE Disable  BY <1>2, SMT DEF Disable, Ready, Teardown
<1>3. CASE Uninstall  BY <1>3, SMT DEF Uninstall, Ready, Teardown, Removed
<1>4. CASE Install  BY <1>4, SMT DEF Install, Ready
<1>5. CASE Update  BY <1>5, SMT DEF Update, Ready, Teardown
<1>6. CASE Loads  BY <1>6, SMT DEF Loads, Goto
<1>7. CASE Enabled  BY <1>7, SMT DEF Enabled
<1>8. CASE EnableFails  BY <1>8, SMT DEF EnableFails, Fault, Goto
<1>9. CASE Failed
  <2>0. op.w \in Worker
    BY <1>9, SMT DEF Failed, Operation, Lifting, Closing
  <2>1. worker' \in [Worker -> {"off", "up", "hung"}]
    BY <1>9, <2>0, OffWorkers, Zenon DEF Failed, Terminated
  <2>2. host' \in Worker \cup {None} /\ search' = None /\ hooks' = {}
    BY <1>9, Zenon DEF Failed, Terminated, Unregistered
  <2> QED BY <2>1, <2>2, SMT
<1>10. CASE DisableRuns  BY <1>10, SMT DEF DisableRuns, Goto
<1>11. CASE Disabled
  <2>0. op.w \in Worker
    BY <1>11, SMT DEF Disabled, Operation, Lifting, Closing
  <2>1. worker' \in [Worker -> {"off", "up", "hung"}]
    BY <1>11, <2>0, OffWorkers, Zenon DEF Disabled, Terminated
  <2>2. host' \in Worker \cup {None} /\ search' = None /\ hooks' = {}
    BY <1>11, Zenon DEF Disabled, Terminated, Unregistered
  <2> QED BY <2>1, <2>2, SMT
<1>12. CASE Swap  BY LaunchWorkers, <1>12, Zenon DEF Swap, Resume
<1>13. CASE SwapFails  BY LaunchWorkers, <1>13, Zenon DEF SwapFails, Resume
<1>14. CASE Rollback  BY LaunchWorkers, <1>14, Zenon DEF Rollback, Resume
<1>15. CASE Crash  BY <1>15, SMT DEF Crash, Fault, Cuts, AllOff, NoCalls, NoCount
<1>16. CASE Boot  BY LaunchWorkers, <1>16, Zenon DEF Boot
<1>17. ASSUME NEW w \in Worker, Exits(w)  PROVE Workers'
  BY <1>17, SMT DEF Exits, Fault, Drained, CrashCleanup
<1>18. ASSUME NEW w \in Worker, Hangs(w)  PROVE Workers'
  BY <1>18, SMT DEF Hangs, Fault
<1>19. ASSUME NEW w \in Worker, Subscribes(w)  PROVE Workers'
  BY <1>19, SMT DEF Subscribes
<1>20. ASSUME NEW w \in Worker, Provides(w)  PROVE Workers'
  BY <1>20, SMT DEF Provides
<1>21. ASSUME NEW c \in Call, Fires(c)  PROVE Workers'
  BY <1>21, SMT DEF Fires
<1>22. ASSUME NEW c \in Call, Dispatches(c)  PROVE Workers'
  BY <1>22, SMT DEF Dispatches
<1>23. ASSUME NEW c \in Call, Answers(c)  PROVE Workers'
  BY <1>23, SMT DEF Answers, Settled
<1>24. QED
  BY <1>1, <1>2, <1>3, <1>4, <1>5, <1>6, <1>7, <1>8, <1>9, <1>10, <1>11, <1>12,
     <1>13, <1>14, <1>15, <1>16, <1>17, <1>18, <1>19, <1>20, <1>21, <1>22, <1>23 DEF Next, Step

\* Every step keeps the fields of the operation in range.
LEMMA FieldsKept ==
    ASSUME IInv, Next  PROVE Fields'
<1> USE DEF IInv, Workers, Fields, Kind, Lifting, Closing, Doing, Idle, disk, registry, events
<1>1. CASE Enable  BY <1>1, SMT DEF Enable, Ready, Launch
<1>2. CASE Disable  BY <1>2, SMT DEF Disable, Ready, Teardown
<1>3. CASE Uninstall  BY <1>3, SMT DEF Uninstall, Ready, Teardown, Removed
<1>4. CASE Install  BY <1>4, SMT DEF Install, Ready
<1>5. CASE Update  BY <1>5, SMT DEF Update, Ready, Teardown
<1>6. CASE Loads  BY <1>6, SMT DEF Loads, Goto
<1>7. CASE Enabled  BY <1>7, SMT DEF Enabled
<1>8. CASE EnableFails  BY <1>8, SMT DEF EnableFails, Fault, Goto
<1>9. CASE Failed  BY <1>9, SMT DEF Failed, Terminated, Drained, Unregistered
<1>10. CASE DisableRuns  BY <1>10, SMT DEF DisableRuns, Goto
<1>11. CASE Disabled  BY <1>11, SMT DEF Disabled, Terminated, Drained, Unregistered, Removed
<1>12. CASE Swap  BY <1>12, SMT DEF Swap, Resume, Launch, Goto
<1>13. CASE SwapFails  BY <1>13, SMT DEF SwapFails, Fault, Resume, Launch
<1>14. CASE Rollback  BY <1>14, SMT DEF Rollback, Reloaded, Resume, Launch
<1>15. CASE Crash  BY <1>15, SMT DEF Crash, Fault, Cuts, AllOff, NoCalls, NoCount
<1>16. CASE Boot  BY <1>16, SMT DEF Boot, Recovered, Restored, Launch
<1>17. ASSUME NEW w \in Worker, Exits(w)  PROVE Fields'
  BY <1>17, SMT DEF Exits, Fault, Drained, CrashCleanup
<1>18. ASSUME NEW w \in Worker, Hangs(w)  PROVE Fields'
  BY <1>18, SMT DEF Hangs, Fault
<1>19. ASSUME NEW w \in Worker, Subscribes(w)  PROVE Fields'
  BY <1>19, SMT DEF Subscribes
<1>20. ASSUME NEW w \in Worker, Provides(w)  PROVE Fields'
  BY <1>20, SMT DEF Provides
<1>21. ASSUME NEW c \in Call, Fires(c)  PROVE Fields'
  BY <1>21, SMT DEF Fires
<1>22. ASSUME NEW c \in Call, Dispatches(c)  PROVE Fields'
  BY <1>22, SMT DEF Dispatches
<1>23. ASSUME NEW c \in Call, Answers(c)  PROVE Fields'
  BY <1>23, SMT DEF Answers, Settled
<1>24. QED
  BY <1>1, <1>2, <1>3, <1>4, <1>5, <1>6, <1>7, <1>8, <1>9, <1>10, <1>11, <1>12,
     <1>13, <1>14, <1>15, <1>16, <1>17, <1>18, <1>19, <1>20, <1>21, <1>22, <1>23 DEF Next, Step

\* Every step keeps the shape of the operation.
LEMMA ShapeKept ==
    ASSUME Shape, Next  PROVE Shape'
<1> USE ShapeOf, ShapeSame, LaunchShape DEF Idle, events
<1>0. op.was \in BOOLEAN  BY DEF Shape
<1> USE <1>0
<1>1. CASE Enable  BY <1>1, Zenon DEF Enable, Ready
<1>2. CASE Disable  BY <1>2, Zenon DEF Disable, Ready, Teardown
<1>3. CASE Uninstall  BY <1>3, Zenon DEF Uninstall, Ready, Teardown, Removed
<1>4. CASE Install  BY <1>4, Zenon DEF Install, Ready
<1>5. CASE Update  BY <1>5, Zenon DEF Update, Ready, Teardown
<1>6. CASE Loads  BY <1>6, Zenon DEF Loads, Goto
<1>7. CASE Enabled  BY <1>7, Zenon DEF Enabled
<1>8. CASE EnableFails  BY <1>8, Zenon DEF EnableFails, Fault, Goto
<1>9. CASE Failed  BY <1>9, Zenon DEF Failed, Terminated, Drained, Unregistered
<1>10. CASE DisableRuns  BY <1>10, Zenon DEF DisableRuns, Goto
<1>11. CASE Disabled  BY <1>11, Zenon DEF Disabled, Terminated, Drained, Unregistered, Removed
<1>12. CASE Swap  BY <1>12, Zenon DEF Swap, Resume, Goto
<1>13. CASE SwapFails  BY <1>13, Zenon DEF SwapFails, Fault, Resume
<1>14. CASE Rollback  BY <1>14, Zenon DEF Rollback, Reloaded, Resume
<1>15. CASE Crash  BY <1>15, Zenon DEF Crash, Fault, Cuts, AllOff, NoCalls, NoCount
<1>16. CASE Boot  BY <1>16, Zenon DEF Boot, Recovered, Restored
<1>17. ASSUME NEW w \in Worker, Exits(w)  PROVE Shape'
  BY <1>17, Zenon DEF Exits, Fault, Drained, CrashCleanup
<1>18. ASSUME NEW w \in Worker, Hangs(w)  PROVE Shape'
  BY <1>18, Zenon DEF Hangs, Fault
<1>19. ASSUME NEW w \in Worker, Subscribes(w)  PROVE Shape'
  BY <1>19, Zenon DEF Subscribes
<1>20. ASSUME NEW w \in Worker, Provides(w)  PROVE Shape'
  BY <1>20, Zenon DEF Provides
<1>21. ASSUME NEW c \in Call, Fires(c)  PROVE Shape'
  BY <1>21, Zenon DEF Fires
<1>22. ASSUME NEW c \in Call, Dispatches(c)  PROVE Shape'
  BY <1>22, Zenon DEF Dispatches
<1>23. ASSUME NEW c \in Call, Answers(c)  PROVE Shape'
  BY <1>23, Zenon DEF Answers, Settled
<1>24. QED
  BY <1>1, <1>2, <1>3, <1>4, <1>5, <1>6, <1>7, <1>8, <1>9, <1>10, <1>11, <1>12,
     <1>13, <1>14, <1>15, <1>16, <1>17, <1>18, <1>19, <1>20, <1>21, <1>22, <1>23 DEF Next, Step

\* Every step keeps what an operation may be doing at its place.
LEMMA OperationKept ==
    ASSUME IInv, Next  PROVE Operation'
<1> USE NoWorker DEF IInv, Workers, Fields, Operation, Lifting, Closing, EnabledStands, Doing, Idle, disk, registry, events
<1>1. CASE Enable  BY <1>1, SMT DEF Enable, Ready, Launch
<1>2. CASE Disable  BY <1>2, SMT DEF Disable, Ready, Teardown
<1>3. CASE Uninstall  BY <1>3, SMT DEF Uninstall, Ready, Teardown, Removed
<1>4. CASE Install  BY <1>4, SMT DEF Install, Ready
<1>5. CASE Update  BY <1>5, SMT DEF Update, Ready, Teardown
<1>6. CASE Loads  BY <1>6, SMT DEF Loads, Goto
<1>7. CASE Enabled  BY <1>7, SMT DEF Enabled
<1>8. CASE EnableFails  BY <1>8, SMT DEF EnableFails, Fault, Goto
<1>9. CASE Failed  BY <1>9, SMT DEF Failed, Terminated, Drained, Unregistered
<1>10. CASE DisableRuns  BY <1>10, SMT DEF DisableRuns, Goto
<1>11. CASE Disabled  BY <1>11, SMT DEF Disabled, Terminated, Drained, Unregistered, Removed
<1>12. CASE Swap  BY <1>12, SMT DEF Swap, Resume, Launch, Goto
<1>13. CASE SwapFails  BY <1>13, SMT DEF SwapFails, Fault, Resume, Launch
<1>14. CASE Rollback  BY <1>14, SMT DEF Rollback, Reloaded, Resume, Launch
<1>15. CASE Crash  BY <1>15, SMT DEF Crash, Fault, Cuts, AllOff, NoCalls, NoCount
<1>16. CASE Boot  BY <1>16, SMT DEF Boot, Recovered, Restored, Launch
<1>17. ASSUME NEW w \in Worker, Exits(w)  PROVE Operation'
  BY <1>17, SMT DEF Exits, Fault, Drained, CrashCleanup
<1>18. ASSUME NEW w \in Worker, Hangs(w)  PROVE Operation'
  BY <1>18, SMT DEF Hangs, Fault
<1>19. ASSUME NEW w \in Worker, Subscribes(w)  PROVE Operation'
  BY <1>19, SMT DEF Subscribes
<1>20. ASSUME NEW w \in Worker, Provides(w)  PROVE Operation'
  BY <1>20, SMT DEF Provides
<1>21. ASSUME NEW c \in Call, Fires(c)  PROVE Operation'
  BY <1>21, SMT DEF Fires
<1>22. ASSUME NEW c \in Call, Dispatches(c)  PROVE Operation'
  BY <1>22, SMT DEF Dispatches
<1>23. ASSUME NEW c \in Call, Answers(c)  PROVE Operation'
  BY <1>23, SMT DEF Answers, Settled
<1>24. QED
  BY <1>1, <1>2, <1>3, <1>4, <1>5, <1>6, <1>7, <1>8, <1>9, <1>10, <1>11, <1>12,
     <1>13, <1>14, <1>15, <1>16, <1>17, <1>18, <1>19, <1>20, <1>21, <1>22, <1>23 DEF Next, Step

\* Every step keeps the host a worker that runs, and the operation's own.
LEMMA HostedKept ==
    ASSUME IInv, Next  PROVE Hosted'
<1> USE NoWorker DEF IInv, Workers, Fields, Operation, Lifting, Closing, EnabledStands, Down, Hosted, Runs, NoStrayWorker, AllOff, Doing, Idle, disk, registry, events
<1>1. CASE Enable  BY <1>1, SMT DEF Enable, Ready, Launch
<1>2. CASE Disable  BY <1>2, SMT DEF Disable, Ready, Teardown
<1>3. CASE Uninstall  BY <1>3, SMT DEF Uninstall, Ready, Teardown, Removed
<1>4. CASE Install  BY <1>4, SMT DEF Install, Ready
<1>5. CASE Update  BY <1>5, SMT DEF Update, Ready, Teardown
<1>6. CASE Loads  BY <1>6, SMT DEF Loads, Goto
<1>7. CASE Enabled  BY <1>7, SMT DEF Enabled
<1>8. CASE EnableFails  BY <1>8, SMT DEF EnableFails, Fault, Goto
<1>9. CASE Failed  BY <1>9, SMT DEF Failed, Terminated, Drained, Unregistered
<1>10. CASE DisableRuns  BY <1>10, SMT DEF DisableRuns, Goto
<1>11. CASE Disabled  BY <1>11, SMT DEF Disabled, Terminated, Drained, Unregistered, Removed
<1>12. CASE Swap  BY <1>12, SMT DEF Swap, Resume, Launch, Goto
<1>13. CASE SwapFails  BY <1>13, SMT DEF SwapFails, Fault, Resume, Launch
<1>14. CASE Rollback  BY <1>14, SMT DEF Rollback, Reloaded, Resume, Launch
<1>15. CASE Crash  BY <1>15, SMT DEF Crash, Fault, Cuts, AllOff, NoCalls, NoCount
<1>16. CASE Boot  BY <1>16, SMT DEF Boot, Recovered, Restored, Launch
<1>17. ASSUME NEW w \in Worker, Exits(w)  PROVE Hosted'
  BY <1>17, SMT DEF Exits, Fault, Drained, CrashCleanup
<1>18. ASSUME NEW w \in Worker, Hangs(w)  PROVE Hosted'
  BY <1>18, SMT DEF Hangs, Fault
<1>19. ASSUME NEW w \in Worker, Subscribes(w)  PROVE Hosted'
  BY <1>19, SMT DEF Subscribes
<1>20. ASSUME NEW w \in Worker, Provides(w)  PROVE Hosted'
  BY <1>20, SMT DEF Provides
<1>21. ASSUME NEW c \in Call, Fires(c)  PROVE Hosted'
  BY <1>21, SMT DEF Fires
<1>22. ASSUME NEW c \in Call, Dispatches(c)  PROVE Hosted'
  BY <1>22, SMT DEF Dispatches
<1>23. ASSUME NEW c \in Call, Answers(c)  PROVE Hosted'
  BY <1>23, SMT DEF Answers, Settled
<1>24. QED
  BY <1>1, <1>2, <1>3, <1>4, <1>5, <1>6, <1>7, <1>8, <1>9, <1>10, <1>11, <1>12,
     <1>13, <1>14, <1>15, <1>16, <1>17, <1>18, <1>19, <1>20, <1>21, <1>22, <1>23 DEF Next, Step

\* Every step leaves ENABLED only over a host, in a plugin that was decided for.
LEMMA StandsKept ==
    ASSUME IInv, Next  PROVE EnabledStands'
<1> USE NoWorker DEF IInv, Workers, Operation, Lifting, Closing, EnabledStands, Hosted, Decided, Doing, Idle, disk, registry, events
<1>1. CASE Enable  BY <1>1, SMT DEF Enable, Ready, Launch
<1>2. CASE Disable  BY <1>2, SMT DEF Disable, Ready, Teardown
<1>3. CASE Uninstall  BY <1>3, SMT DEF Uninstall, Ready, Teardown, Removed
<1>4. CASE Install  BY <1>4, SMT DEF Install, Ready
<1>5. CASE Update  BY <1>5, SMT DEF Update, Ready, Teardown
<1>6. CASE Loads  BY <1>6, SMT DEF Loads, Goto
<1>7. CASE Enabled
  <2>1. op.kind = "enable" \/ decision
    BY <1>7, SMT DEF Enabled
  <2>2. loaded # None
    BY <1>7, NoVersion, SMT DEF Enabled, OnDisk
  <2>3. host = op.w /\ op.w # None
    BY <1>7, SMT DEF Enabled, Runs
  <2>4. op'.pc = "idle"
    BY <1>7, SMT DEF Enabled
  <2> QED BY <1>7, <2>1, <2>2, <2>3, <2>4, Zenon DEF Enabled
<1>8. CASE EnableFails  BY <1>8, SMT DEF EnableFails, Fault, Goto
<1>9. CASE Failed  BY <1>9, SMT DEF Failed, Terminated, Drained, Unregistered
<1>10. CASE DisableRuns  BY <1>10, SMT DEF DisableRuns, Goto
<1>11. CASE Disabled  BY <1>11, SMT DEF Disabled, Terminated, Drained, Unregistered, Removed
<1>12. CASE Swap  BY <1>12, SMT DEF Swap, Resume, Launch, Goto
<1>13. CASE SwapFails  BY <1>13, SMT DEF SwapFails, Fault, Resume, Launch
<1>14. CASE Rollback  BY <1>14, SMT DEF Rollback, Reloaded, Resume, Launch
<1>15. CASE Crash  BY <1>15, SMT DEF Crash, Fault, Cuts, AllOff, NoCalls, NoCount
<1>16. CASE Boot  BY <1>16, SMT DEF Boot, Recovered, Restored, Launch
<1>17. ASSUME NEW w \in Worker, Exits(w)  PROVE EnabledStands'
  BY <1>17, SMT DEF Exits, Fault, Drained, CrashCleanup
<1>18. ASSUME NEW w \in Worker, Hangs(w)  PROVE EnabledStands'
  BY <1>18, SMT DEF Hangs, Fault
<1>19. ASSUME NEW w \in Worker, Subscribes(w)  PROVE EnabledStands'
  BY <1>19, SMT DEF Subscribes
<1>20. ASSUME NEW w \in Worker, Provides(w)  PROVE EnabledStands'
  BY <1>20, SMT DEF Provides
<1>21. ASSUME NEW c \in Call, Fires(c)  PROVE EnabledStands'
  BY <1>21, SMT DEF Fires
<1>22. ASSUME NEW c \in Call, Dispatches(c)  PROVE EnabledStands'
  BY <1>22, SMT DEF Dispatches
<1>23. ASSUME NEW c \in Call, Answers(c)  PROVE EnabledStands'
  BY <1>23, SMT DEF Answers, Settled
<1>24. QED
  BY <1>1, <1>2, <1>3, <1>4, <1>5, <1>6, <1>7, <1>8, <1>9, <1>10, <1>11, <1>12,
     <1>13, <1>14, <1>15, <1>16, <1>17, <1>18, <1>19, <1>20, <1>21, <1>22, <1>23 DEF Next, Step

\* Every step brings a plugin back only where the operator had enabled it.
LEMMA DecidedKept ==
    ASSUME IInv, Next  PROVE Decided'
<1> USE NoWorker DEF IInv, Operation, Lifting, Closing, EnabledStands, Decided, Doing, Idle, disk, registry, events
<1>1. CASE Enable  BY <1>1, SMT DEF Enable, Ready, Launch
<1>2. CASE Disable  BY <1>2, SMT DEF Disable, Ready, Teardown
<1>3. CASE Uninstall  BY <1>3, SMT DEF Uninstall, Ready, Teardown, Removed
<1>4. CASE Install  BY <1>4, SMT DEF Install, Ready
<1>5. CASE Update  BY <1>5, SMT DEF Update, Ready, Teardown
<1>6. CASE Loads  BY <1>6, SMT DEF Loads, Goto
<1>7. CASE Enabled  BY <1>7, SMT DEF Enabled
<1>8. CASE EnableFails  BY <1>8, SMT DEF EnableFails, Fault, Goto
<1>9. CASE Failed  BY <1>9, SMT DEF Failed, Terminated, Drained, Unregistered
<1>10. CASE DisableRuns  BY <1>10, SMT DEF DisableRuns, Goto
<1>11. CASE Disabled  BY <1>11, SMT DEF Disabled, Terminated, Drained, Unregistered, Removed
<1>12. CASE Swap  BY <1>12, SMT DEF Swap, Resume, Launch, Goto
<1>13. CASE SwapFails  BY <1>13, SMT DEF SwapFails, Fault, Resume, Launch
<1>14. CASE Rollback  BY <1>14, SMT DEF Rollback, Reloaded, Resume, Launch
<1>15. CASE Crash  BY <1>15, SMT DEF Crash, Fault, Cuts, AllOff, NoCalls, NoCount
<1>16. CASE Boot  BY <1>16, SMT DEF Boot, Recovered, Restored, Launch
<1>17. ASSUME NEW w \in Worker, Exits(w)  PROVE Decided'
  BY <1>17, SMT DEF Exits, Fault, Drained, CrashCleanup
<1>18. ASSUME NEW w \in Worker, Hangs(w)  PROVE Decided'
  BY <1>18, SMT DEF Hangs, Fault
<1>19. ASSUME NEW w \in Worker, Subscribes(w)  PROVE Decided'
  BY <1>19, SMT DEF Subscribes
<1>20. ASSUME NEW w \in Worker, Provides(w)  PROVE Decided'
  BY <1>20, SMT DEF Provides
<1>21. ASSUME NEW c \in Call, Fires(c)  PROVE Decided'
  BY <1>21, SMT DEF Fires
<1>22. ASSUME NEW c \in Call, Dispatches(c)  PROVE Decided'
  BY <1>22, SMT DEF Dispatches
<1>23. ASSUME NEW c \in Call, Answers(c)  PROVE Decided'
  BY <1>23, SMT DEF Answers, Settled
<1>24. QED
  BY <1>1, <1>2, <1>3, <1>4, <1>5, <1>6, <1>7, <1>8, <1>9, <1>10, <1>11, <1>12,
     <1>13, <1>14, <1>15, <1>16, <1>17, <1>18, <1>19, <1>20, <1>21, <1>22, <1>23 DEF Next, Step

\* Every step of a process that is down, or goes down, leaves nothing in memory.
LEMMA DownKept ==
    ASSUME IInv, Next  PROVE Down'
<1> USE NoWorker DEF IInv, Operation, Lifting, Closing, EnabledStands, Decided, Down, Doing, Idle, disk, registry, events
<1>1. CASE Enable  BY <1>1, SMT DEF Enable, Ready, Launch
<1>2. CASE Disable  BY <1>2, SMT DEF Disable, Ready, Teardown
<1>3. CASE Uninstall  BY <1>3, SMT DEF Uninstall, Ready, Teardown, Removed
<1>4. CASE Install  BY <1>4, SMT DEF Install, Ready
<1>5. CASE Update  BY <1>5, SMT DEF Update, Ready, Teardown
<1>6. CASE Loads  BY <1>6, SMT DEF Loads, Goto
<1>7. CASE Enabled  BY <1>7, SMT DEF Enabled
<1>8. CASE EnableFails  BY <1>8, SMT DEF EnableFails, Fault, Goto
<1>9. CASE Failed  BY <1>9, SMT DEF Failed, Terminated, Drained, Unregistered
<1>10. CASE DisableRuns  BY <1>10, SMT DEF DisableRuns, Goto
<1>11. CASE Disabled  BY <1>11, SMT DEF Disabled, Terminated, Drained, Unregistered, Removed
<1>12. CASE Swap  BY <1>12, SMT DEF Swap, Resume, Launch, Goto
<1>13. CASE SwapFails  BY <1>13, SMT DEF SwapFails, Fault, Resume, Launch
<1>14. CASE Rollback  BY <1>14, SMT DEF Rollback, Reloaded, Resume, Launch
<1>15. CASE Crash  BY <1>15, SMT DEF Crash, Fault, Cuts, AllOff, NoCalls, NoCount
<1>16. CASE Boot  BY <1>16, SMT DEF Boot, Recovered, Restored, Launch
<1>17. ASSUME NEW w \in Worker, Exits(w)  PROVE Down'
  BY <1>17, SMT DEF Exits, Fault, Drained, CrashCleanup
<1>18. ASSUME NEW w \in Worker, Hangs(w)  PROVE Down'
  BY <1>18, SMT DEF Hangs, Fault
<1>19. ASSUME NEW w \in Worker, Subscribes(w)  PROVE Down'
  BY <1>19, SMT DEF Subscribes
<1>20. ASSUME NEW w \in Worker, Provides(w)  PROVE Down'
  BY <1>20, SMT DEF Provides
<1>21. ASSUME NEW c \in Call, Fires(c)  PROVE Down'
  BY <1>21, SMT DEF Fires
<1>22. ASSUME NEW c \in Call, Dispatches(c)  PROVE Down'
  BY <1>22, SMT DEF Dispatches
<1>23. ASSUME NEW c \in Call, Answers(c)  PROVE Down'
  BY <1>23, SMT DEF Answers, Settled
<1>24. QED
  BY <1>1, <1>2, <1>3, <1>4, <1>5, <1>6, <1>7, <1>8, <1>9, <1>10, <1>11, <1>12,
     <1>13, <1>14, <1>15, <1>16, <1>17, <1>18, <1>19, <1>20, <1>21, <1>22, <1>23 DEF Next, Step

\* Every step keeps the directories to the place of the operation.
LEMMA OnDiskKept ==
    ASSUME IInv, Next  PROVE OnDisk'
<1> USE NoVersion DEF IInv, Directories, Operation, Lifting, Closing, EnabledStands, OnDisk, AtRest, Down, Doing, Idle, disk, registry, events
<1>1. CASE Enable  BY <1>1, SMT DEF Enable, Ready, Launch
<1>2. CASE Disable  BY <1>2, SMT DEF Disable, Ready, Teardown
<1>3. CASE Uninstall  BY <1>3, SMT DEF Uninstall, Ready, Teardown, Removed
<1>4. CASE Install  BY <1>4, SMT DEF Install, Ready
<1>5. CASE Update  BY <1>5, SMT DEF Update, Ready, Teardown
<1>6. CASE Loads  BY <1>6, SMT DEF Loads, Goto
<1>7. CASE Enabled  BY <1>7, SMT DEF Enabled
<1>8. CASE EnableFails  BY <1>8, SMT DEF EnableFails, Fault, Goto
<1>9. CASE Failed  BY <1>9, SMT DEF Failed, Terminated, Drained, Unregistered
<1>10. CASE DisableRuns  BY <1>10, SMT DEF DisableRuns, Goto
<1>11. CASE Disabled  BY <1>11, SMT DEF Disabled, Terminated, Drained, Unregistered, Removed
<1>12. CASE Swap  BY <1>12, SMT DEF Swap, Resume, Launch, Goto
<1>13. CASE SwapFails  BY <1>13, SMT DEF SwapFails, Fault, Resume, Launch
<1>14. CASE Rollback  BY <1>14, SMT DEF Rollback, Reloaded, Resume, Launch
<1>15. CASE Crash  BY <1>15, SMT DEF Crash, Fault, Cuts, AllOff, NoCalls, NoCount
<1>16. CASE Boot  BY <1>16, SMT DEF Boot, Recovered, Restored, Launch
<1>17. ASSUME NEW w \in Worker, Exits(w)  PROVE OnDisk'
  BY <1>17, SMT DEF Exits, Fault, Drained, CrashCleanup
<1>18. ASSUME NEW w \in Worker, Hangs(w)  PROVE OnDisk'
  BY <1>18, SMT DEF Hangs, Fault
<1>19. ASSUME NEW w \in Worker, Subscribes(w)  PROVE OnDisk'
  BY <1>19, SMT DEF Subscribes
<1>20. ASSUME NEW w \in Worker, Provides(w)  PROVE OnDisk'
  BY <1>20, SMT DEF Provides
<1>21. ASSUME NEW c \in Call, Fires(c)  PROVE OnDisk'
  BY <1>21, SMT DEF Fires
<1>22. ASSUME NEW c \in Call, Dispatches(c)  PROVE OnDisk'
  BY <1>22, SMT DEF Dispatches
<1>23. ASSUME NEW c \in Call, Answers(c)  PROVE OnDisk'
  BY <1>23, SMT DEF Answers, Settled
<1>24. QED
  BY <1>1, <1>2, <1>3, <1>4, <1>5, <1>6, <1>7, <1>8, <1>9, <1>10, <1>11, <1>12,
     <1>13, <1>14, <1>15, <1>16, <1>17, <1>18, <1>19, <1>20, <1>21, <1>22, <1>23 DEF Next, Step

\* Every step leaves a worker only to the host or to the operation.
LEMMA StrayKept ==
    ASSUME IInv, Next  PROVE NoStrayWorker'
<1> USE NoWorker DEF IInv, Workers, Fields, Operation, Lifting, Closing, EnabledStands, Hosted, Down, NoStrayWorker, Runs, AllOff, Doing, Idle, disk, registry, events
<1>1. CASE Enable  BY <1>1, SMT DEF Enable, Ready, Launch
<1>2. CASE Disable  BY <1>2, SMT DEF Disable, Ready, Teardown
<1>3. CASE Uninstall  BY <1>3, SMT DEF Uninstall, Ready, Teardown, Removed
<1>4. CASE Install  BY <1>4, SMT DEF Install, Ready
<1>5. CASE Update  BY <1>5, SMT DEF Update, Ready, Teardown
<1>6. CASE Loads  BY <1>6, SMT DEF Loads, Goto
<1>7. CASE Enabled  BY <1>7, SMT DEF Enabled
<1>8. CASE EnableFails  BY <1>8, SMT DEF EnableFails, Fault, Goto
<1>9. CASE Failed  BY <1>9, SMT DEF Failed, Terminated, Drained, Unregistered
<1>10. CASE DisableRuns  BY <1>10, SMT DEF DisableRuns, Goto
<1>11. CASE Disabled  BY <1>11, SMT DEF Disabled, Terminated, Drained, Unregistered, Removed
<1>12. CASE Swap  BY <1>12, SMT DEF Swap, Resume, Launch, Goto
<1>13. CASE SwapFails  BY <1>13, SMT DEF SwapFails, Fault, Resume, Launch
<1>14. CASE Rollback  BY <1>14, SMT DEF Rollback, Reloaded, Resume, Launch
<1>15. CASE Crash  BY <1>15, SMT DEF Crash, Fault, Cuts, AllOff, NoCalls, NoCount
<1>16. CASE Boot  BY <1>16, SMT DEF Boot, Recovered, Restored, Launch
<1>17. ASSUME NEW w \in Worker, Exits(w)  PROVE NoStrayWorker'
  BY <1>17, SMT DEF Exits, Fault, Drained, CrashCleanup
<1>18. ASSUME NEW w \in Worker, Hangs(w)  PROVE NoStrayWorker'
  BY <1>18, SMT DEF Hangs, Fault
<1>19. ASSUME NEW w \in Worker, Subscribes(w)  PROVE NoStrayWorker'
  BY <1>19, SMT DEF Subscribes
<1>20. ASSUME NEW w \in Worker, Provides(w)  PROVE NoStrayWorker'
  BY <1>20, SMT DEF Provides
<1>21. ASSUME NEW c \in Call, Fires(c)  PROVE NoStrayWorker'
  BY <1>21, SMT DEF Fires
<1>22. ASSUME NEW c \in Call, Dispatches(c)  PROVE NoStrayWorker'
  BY <1>22, SMT DEF Dispatches
<1>23. ASSUME NEW c \in Call, Answers(c)  PROVE NoStrayWorker'
  BY <1>23, SMT DEF Answers, Settled
<1>24. QED
  BY <1>1, <1>2, <1>3, <1>4, <1>5, <1>6, <1>7, <1>8, <1>9, <1>10, <1>11, <1>12,
     <1>13, <1>14, <1>15, <1>16, <1>17, <1>18, <1>19, <1>20, <1>21, <1>22, <1>23 DEF Next, Step

\* Every step drops the registrations of a worker that ends.
LEMMA LiveKept ==
    ASSUME IInv, Next  PROVE RegistrationsLive'
<1> USE NoWorker DEF IInv, Workers, Fields, Operation, Lifting, Closing, EnabledStands, Hosted, Down, NoStrayWorker, RegistrationsLive, Runs, AllOff, Doing, Idle, disk, registry, events
<1>1. CASE Enable  BY <1>1, SMT DEF Enable, Ready, Launch
<1>2. CASE Disable  BY <1>2, SMT DEF Disable, Ready, Teardown
<1>3. CASE Uninstall  BY <1>3, SMT DEF Uninstall, Ready, Teardown, Removed
<1>4. CASE Install  BY <1>4, SMT DEF Install, Ready
<1>5. CASE Update  BY <1>5, SMT DEF Update, Ready, Teardown
<1>6. CASE Loads  BY <1>6, SMT DEF Loads, Goto
<1>7. CASE Enabled  BY <1>7, SMT DEF Enabled
<1>8. CASE EnableFails  BY <1>8, SMT DEF EnableFails, Fault, Goto
<1>9. CASE Failed  BY <1>9, SMT DEF Failed, Terminated, Drained, Unregistered
<1>10. CASE DisableRuns  BY <1>10, SMT DEF DisableRuns, Goto
<1>11. CASE Disabled  BY <1>11, SMT DEF Disabled, Terminated, Drained, Unregistered, Removed
<1>12. CASE Swap  BY <1>12, SMT DEF Swap, Resume, Launch, Goto
<1>13. CASE SwapFails  BY <1>13, SMT DEF SwapFails, Fault, Resume, Launch
<1>14. CASE Rollback  BY <1>14, SMT DEF Rollback, Reloaded, Resume, Launch
<1>15. CASE Crash  BY <1>15, SMT DEF Crash, Fault, Cuts, AllOff, NoCalls, NoCount
<1>16. CASE Boot  BY <1>16, SMT DEF Boot, Recovered, Restored, Launch
<1>17. ASSUME NEW w \in Worker, Exits(w)  PROVE RegistrationsLive'
  BY <1>17, SMT DEF Exits, Fault, Drained, CrashCleanup
<1>18. ASSUME NEW w \in Worker, Hangs(w)  PROVE RegistrationsLive'
  BY <1>18, SMT DEF Hangs, Fault
<1>19. ASSUME NEW w \in Worker, Subscribes(w)  PROVE RegistrationsLive'
  BY <1>19, SMT DEF Subscribes
<1>20. ASSUME NEW w \in Worker, Provides(w)  PROVE RegistrationsLive'
  BY <1>20, SMT DEF Provides
<1>21. ASSUME NEW c \in Call, Fires(c)  PROVE RegistrationsLive'
  BY <1>21, SMT DEF Fires
<1>22. ASSUME NEW c \in Call, Dispatches(c)  PROVE RegistrationsLive'
  BY <1>22, SMT DEF Dispatches
<1>23. ASSUME NEW c \in Call, Answers(c)  PROVE RegistrationsLive'
  BY <1>23, SMT DEF Answers, Settled
<1>24. QED
  BY <1>1, <1>2, <1>3, <1>4, <1>5, <1>6, <1>7, <1>8, <1>9, <1>10, <1>11, <1>12,
     <1>13, <1>14, <1>15, <1>16, <1>17, <1>18, <1>19, <1>20, <1>21, <1>22, <1>23 DEF Next, Step

\* The invariant holds at first.
LEMMA InitIInv == Init => IInv
<1> SUFFICES ASSUME Init PROVE IInv
  OBVIOUS
<1> USE NoWorker, NoVersion DEF Init
<1>1. Directories  BY SMT DEF Directories, Status
<1>2. Workers  BY SMT DEF Workers, AllOff
<1>3. op = Doing("none", "idle", None, FALSE)  BY Zenon DEF Idle
<1>4. op.kind = "none" /\ op.pc = "idle" /\ op.w = None /\ op.was = FALSE  BY <1>3, SMT DEF Doing
<1>5. Shape  BY <1>3, <1>4, Zenon DEF Shape
<1>6. Fields /\ Operation /\ Hosted /\ EnabledStands /\ Decided /\ Down
  BY <1>4, SMT DEF Fields, Kind, Operation, Lifting, Closing, Hosted, EnabledStands, Decided, Down
<1>7. OnDisk  BY <1>4, SMT DEF OnDisk, AtRest, Lifting, Closing
<1>8. NoStrayWorker /\ RegistrationsLive  BY SMT DEF NoStrayWorker, RegistrationsLive, Runs, AllOff
<1> QED BY <1>1, <1>2, <1>5, <1>6, <1>7, <1>8 DEF IInv

\* Every step keeps the invariant.
LEMMA StepIInv == IInv /\ [Next]_vars => IInv'
<1> SUFFICES ASSUME IInv, [Next]_vars PROVE IInv'
  OBVIOUS
<1>1. CASE Next
  <2>1. Directories' /\ Workers' /\ Shape'
    BY <1>1, DirectoriesKept, WorkersKept, ShapeKept DEF IInv
  <2>2. Fields' /\ Operation' /\ Hosted' /\ EnabledStands' /\ Decided' /\ Down'
    BY <1>1, FieldsKept, OperationKept, HostedKept, StandsKept, DecidedKept, DownKept
  <2>3. OnDisk' /\ NoStrayWorker' /\ RegistrationsLive'
    BY <1>1, OnDiskKept, StrayKept, LiveKept
  <2> QED BY <2>1, <2>2, <2>3 DEF IInv
<1>2. CASE UNCHANGED vars
  <2> USE <1>2 DEF IInv, vars
  <2>1. Directories' /\ Workers' /\ Shape'
    BY Zenon DEF Directories, Workers, Shape
  <2>2. Fields' /\ Operation' /\ Hosted' /\ EnabledStands' /\ Decided' /\ Down'
    BY Zenon DEF Fields, Operation, Hosted, EnabledStands, Decided, Down, Runs
  <2>3. OnDisk'
    BY Zenon DEF OnDisk, AtRest
  <2>4. NoStrayWorker' /\ RegistrationsLive'
    BY Zenon DEF NoStrayWorker, RegistrationsLive, Runs
  <2> QED BY <2>1, <2>2, <2>3, <2>4
<1> QED BY <1>1, <1>2

\* The inductive invariant holds in every reachable state.
THEOREM Invariance == Spec => []IInv
  BY InitIInv, StepIInv, PTL DEF Spec

-----------------------------------------------------------------------------
(* Hook events.                                                            *)

\* What waits for a worker.
Open(w) == {c \in Call : call[c] = [pc |-> "open", to |-> w]}

\* A call is at a place and, once it has fired, at a host.
Called ==
    /\ call = [c \in Call |-> call[c]]
    /\ \A c \in Call : /\ call[c] = [pc |-> call[c].pc, to |-> call[c].to]
                       /\ call[c].to \in Worker \cup {None} /\ call[c].pc \in {"idle", "gate", "open"}
                       /\ call[c].pc = "idle" => call[c].to = None
                       /\ call[c].pc # "idle" => call[c].to \in Worker
    /\ inFlight \in [Worker -> Nat]

\* A count is of a finite set.
LEMMA OpenFinite == \A w : IsFiniteSet(Open(w))
  BY FS_Subset, PluginAssumption, Zenon DEF PluginAssumption, Open

\* A step that ends no worker and moves no event keeps the count.
LEMMA CallsStand ==
    ASSUME Called, CallsLive, UNCHANGED <<call, inFlight>>,
           \A w \in Worker : Runs(w) => Runs(w)'
    PROVE  Called' /\ CallsLive'
<1>1. Called'  BY Zenon DEF Called
<1>2. CallsLive'  BY Zenon DEF CallsLive
<1> QED BY <1>1, <1>2

\* The end of a worker settles what waits for it, and that alone.
LEMMA CallsDrained ==
    ASSUME Called, CallsLive, NEW w \in Worker, Drained(w),
           \A v \in Worker \ {w} : Runs(v) => Runs(v)'
    PROVE  Called' /\ CallsLive'
<1>1. \A c \in Call : call'[c] = IF call[c] = [pc |-> "open", to |-> w] THEN NoCall ELSE call[c]
  BY Zenon DEF Drained
<1>2. call' = [c \in Call |-> call'[c]] /\ inFlight' = [inFlight EXCEPT ![w] = 0]
  BY Zenon DEF Drained
<1>3. NoCall = [pc |-> NoCall.pc, to |-> NoCall.to] /\ NoCall.pc = "idle" /\ NoCall.to = None
  BY SMT DEF NoCall
<1>4. Called'
  <2>1. inFlight' \in [Worker -> Nat]  BY <1>2, SMT DEF Called
  <2>2. ASSUME NEW c \in Call
        PROVE  /\ call'[c] = [pc |-> call'[c].pc, to |-> call'[c].to]
               /\ call'[c].to \in Worker \cup {None} /\ call'[c].pc \in {"idle", "gate", "open"}
               /\ call'[c].pc = "idle" => call'[c].to = None
               /\ call'[c].pc # "idle" => call'[c].to \in Worker
    <3>1. call'[c] = NoCall \/ call'[c] = call[c]  BY <1>1, Zenon
    <3> QED BY <3>1, <1>3, Zenon DEF Called
  <2> QED BY <2>1, <2>2, <1>2, Zenon DEF Called
<1>5. Open(w)' = {}
  <2>1. ASSUME NEW c \in Call PROVE call'[c] # [pc |-> "open", to |-> w]
    BY <1>1, <1>3, SMT
  <2> QED BY <2>1, Zenon DEF Open
<1>6. \A v \in Worker \ {w} : Open(v)' = Open(v)
  <2>1. ASSUME NEW v \in Worker \ {w}, NEW c \in Call
        PROVE  call'[c] = [pc |-> "open", to |-> v] <=> call[c] = [pc |-> "open", to |-> v]
    BY <1>1, <1>3, SMT
  <2> QED BY <2>1, Zenon DEF Open
<1>7. \A v \in Worker : inFlight'[v] = Cardinality(Open(v)') /\ (Open(v)' # {} => Runs(v)')
  <2>1. inFlight \in [Worker -> Nat]  BY Zenon DEF Called
  <2>2. inFlight'[w] = 0 /\ \A v \in Worker \ {w} : inFlight'[v] = inFlight[v]
    BY <1>2, <2>1, SMT
  <2>3. \A v \in Worker \ {w} : inFlight'[v] = Cardinality(Open(v)') /\ (Open(v)' # {} => Runs(v)')
    BY <1>6, <2>2, Zenon DEF CallsLive, Open
  <2> QED BY <1>5, <2>2, <2>3, FS_EmptySet, Zenon
<1> QED BY <1>4, <1>7, Zenon DEF CallsLive, Open

\* One event moves on.
LEMMA CallMoved ==
    ASSUME Called, NEW c \in Call, NEW p \in {"idle", "gate", "open"}, NEW to \in Worker \cup {None},
           p = "idle" <=> to = None,
           call' = [call EXCEPT ![c] = [pc |-> p, to |-> to]], inFlight' \in [Worker -> Nat]
    PROVE  /\ Called' /\ call'[c] = [pc |-> p, to |-> to]
           /\ \A d \in Call \ {c} : call'[d] = call[d]
<1>1. call'[c] = [pc |-> p, to |-> to] /\ \A d \in Call \ {c} : call'[d] = call[d]
  BY Zenon DEF Called
<1>2. call'[c].pc = p /\ call'[c].to = to  BY <1>1, SMT
<1>3. ASSUME NEW d \in Call
      PROVE  /\ call'[d] = [pc |-> call'[d].pc, to |-> call'[d].to]
             /\ call'[d].to \in Worker \cup {None} /\ call'[d].pc \in {"idle", "gate", "open"}
             /\ call'[d].pc = "idle" => call'[d].to = None
             /\ call'[d].pc # "idle" => call'[d].to \in Worker
  <2>1. CASE d = c  BY <1>1, <1>2, <2>1, Zenon
  <2>2. CASE d # c  BY <1>1, <2>2, Zenon DEF Called
  <2> QED BY <2>1, <2>2
<1>4. call' = [d \in Call |-> call'[d]]  BY SMT DEF Called
<1> QED BY <1>1, <1>3, <1>4, Zenon DEF Called

\* An event before its dispatch is not in flight.
LEMMA FiresCalls ==
    ASSUME Called, CallsLive, Workers, NEW c \in Call, Fires(c)
    PROVE  Called' /\ CallsLive'
<1>1. host \in Worker /\ host # None  BY NoWorker, Zenon DEF Fires, Workers
<1>2. call' = [call EXCEPT ![c] = [pc |-> "gate", to |-> host]] /\ inFlight' = inFlight /\ worker' = worker
  BY Zenon DEF Fires
<1>3. /\ Called' /\ call'[c] = [pc |-> "gate", to |-> host]
      /\ \A d \in Call \ {c} : call'[d] = call[d]
  <2>1. inFlight' \in [Worker -> Nat]  BY <1>2, Zenon DEF Called
  <2> QED BY <1>1, <1>2, <2>1, CallMoved, Zenon
<1>4. ASSUME NEW w \in Worker, NEW d \in Call
      PROVE  call'[d] = [pc |-> "open", to |-> w] <=> call[d] = [pc |-> "open", to |-> w]
  <2>1. call[c] = [pc |-> "idle", to |-> None]  BY Zenon DEF Fires, NoCall
  <2>2. CASE d = c  BY <1>3, <2>1, <2>2, SMT
  <2>3. CASE d # c  BY <1>3, <2>3, Zenon
  <2> QED BY <2>2, <2>3
<1>5. \A w \in Worker : Open(w)' = Open(w)  BY <1>4, Zenon DEF Open
<1> QED BY <1>2, <1>3, <1>5, Zenon DEF CallsLive, Open, Runs

\* A dispatch puts one event in flight, at a worker that runs.
LEMMA DispatchesCalls ==
    ASSUME Called, CallsLive, NEW c \in Call, Dispatches(c)
    PROVE  Called' /\ CallsLive'
<1>0. call[c].to \in Worker /\ call[c] = [pc |-> "gate", to |-> call[c].to]
  BY SMT DEF Dispatches, Called
<1>1. PICK to \in Worker : to # None /\ call[c].to = to /\ call[c] = [pc |-> "gate", to |-> to]
  BY <1>0, NoWorker, Zenon
<1>2. worker' = worker  BY Zenon DEF Dispatches
<1>3. CASE Runs(to)
  <2>1. call' = [call EXCEPT ![c].pc = "open"] /\ inFlight' = [inFlight EXCEPT ![to] = @ + 1]
    BY <1>1, <1>3, Zenon DEF Dispatches
  <2>2. inFlight' \in [Worker -> Nat] /\ inFlight'[to] = inFlight[to] + 1
        /\ \A w \in Worker \ {to} : inFlight'[w] = inFlight[w]
    BY <1>1, <2>1, SMT DEF Called
  <2>3. [call[c] EXCEPT !.pc = "open"] = [pc |-> "open", to |-> to]  BY <1>1, SMT
  <2>4. call' = [call EXCEPT ![c] = [pc |-> "open", to |-> to]]  BY <2>1, <2>3, Zenon
  <2>5. /\ Called' /\ call'[c] = [pc |-> "open", to |-> to]
        /\ \A d \in Call \ {c} : call'[d] = call[d]
    <3>1. to \in Worker \cup {None} /\ ("open" = "idle" <=> to = None)  BY <1>1, SMT
    <3> QED BY <3>1, <2>2, <2>4, CallMoved, Zenon
  <2>6. Open(to)' = Open(to) \cup {c} /\ c \notin Open(to)
    <3>1. call[c] # [pc |-> "open", to |-> to]  BY <1>1, SMT
    <3>2. c \notin Open(to) /\ c \in Open(to)'  BY <2>5, <3>1, Zenon DEF Open
    <3>3. ASSUME NEW d \in Call \ {c}  PROVE d \in Open(to)' <=> d \in Open(to)
      BY <2>5, <3>3, Zenon DEF Open
    <3>4. Open(to)' \subseteq Call /\ Open(to) \subseteq Call  BY Zenon DEF Open
    <3> QED BY <3>2, <3>3, <3>4, SMT
  <2>7. \A w \in Worker \ {to} : Open(w)' = Open(w)
    <3>1. ASSUME NEW w \in Worker \ {to}
          PROVE  call'[c] # [pc |-> "open", to |-> w] /\ call[c] # [pc |-> "open", to |-> w]
      BY <1>1, <2>5, SMT
    <3> QED BY <2>5, <3>1, Zenon DEF Open
  <2>8. Cardinality(Open(to)') = Cardinality(Open(to)) + 1
    BY <2>6, OpenFinite, FS_AddElement, Zenon
  <2>9. \A w \in Worker : inFlight'[w] = Cardinality(Open(w)') /\ (Open(w)' # {} => Runs(w)')
    <3>1. inFlight[to] = Cardinality(Open(to)) /\ Runs(to)'
      BY <1>1, <1>2, <1>3, Zenon DEF CallsLive, Open, Runs
    <3>2. inFlight'[to] = Cardinality(Open(to)')  BY <2>2, <2>8, <3>1, Zenon
    <3>3. \A w \in Worker \ {to} : inFlight'[w] = Cardinality(Open(w)') /\ (Open(w)' # {} => Runs(w)')
      BY <1>2, <2>2, <2>7, Zenon DEF CallsLive, Open, Runs
    <3> QED BY <3>1, <3>2, <3>3, Zenon
  <2> QED BY <2>5, <2>9, Zenon DEF CallsLive, Open
<1>4. CASE ~Runs(to)
  <2>1. call' = [call EXCEPT ![c] = [pc |-> "idle", to |-> None]] /\ inFlight' = inFlight
    BY <1>1, <1>4, Zenon DEF Dispatches, NoCall
  <2>2. inFlight' \in [Worker -> Nat]  BY <2>1, Zenon DEF Called
  <2>3. /\ Called' /\ call'[c] = [pc |-> "idle", to |-> None]
        /\ \A d \in Call \ {c} : call'[d] = call[d]
    BY <2>1, <2>2, CallMoved, Zenon
  <2>4. ASSUME NEW w \in Worker
        PROVE  call'[c] # [pc |-> "open", to |-> w] /\ call[c] # [pc |-> "open", to |-> w]
    BY <1>1, <2>3, SMT
  <2>5. \A w \in Worker : Open(w)' = Open(w)  BY <2>3, <2>4, Zenon DEF Open
  <2> QED BY <1>2, <2>1, <2>3, <2>5, Zenon DEF CallsLive, Open, Runs
<1> QED BY <1>3, <1>4

\* A result or a time-out takes that one event out.
LEMMA AnswersCalls ==
    ASSUME Called, CallsLive, NEW c \in Call, Answers(c)
    PROVE  Called' /\ CallsLive'
<1>0. call[c].to \in Worker /\ call[c] = [pc |-> "open", to |-> call[c].to]
  BY SMT DEF Answers, Called
<1>1. PICK to \in Worker : call[c].to = to /\ call[c] = [pc |-> "open", to |-> to]
  BY <1>0, Zenon
<1>2. /\ worker' = worker /\ call' = [call EXCEPT ![c] = [pc |-> "idle", to |-> None]]
      /\ inFlight' = [inFlight EXCEPT ![to] = @ - 1]
  BY <1>1, Zenon DEF Answers, Settled, NoCall
<1>3. c \in Open(to) /\ inFlight[to] = Cardinality(Open(to))
  BY <1>1, Zenon DEF Open, CallsLive
<1>4. Cardinality(Open(to) \ {c}) = Cardinality(Open(to)) - 1 /\ Cardinality(Open(to) \ {c}) \in Nat
  <2>1. IsFiniteSet(Open(to) \ {c}) /\ Cardinality(Open(to) \ {c}) = Cardinality(Open(to)) - 1
    BY <1>3, OpenFinite, FS_RemoveElement, Zenon
  <2> QED BY <2>1, FS_CardinalityType
<1>5. inFlight' \in [Worker -> Nat] /\ inFlight'[to] = Cardinality(Open(to)) - 1
      /\ \A w \in Worker \ {to} : inFlight'[w] = inFlight[w]
  BY <1>1, <1>2, <1>3, <1>4, SMT DEF Called
<1>6. /\ Called' /\ call'[c] = [pc |-> "idle", to |-> None]
      /\ \A d \in Call \ {c} : call'[d] = call[d]
  BY <1>2, <1>5, CallMoved, Zenon
<1>7. \A w \in Worker : call'[c] # [pc |-> "open", to |-> w]
  BY <1>6, SMT
<1>8. Open(to)' = Open(to) \ {c}  BY <1>1, <1>6, <1>7, Zenon DEF Open
<1>9. \A w \in Worker \ {to} : Open(w)' = Open(w)
  <2>1. ASSUME NEW w \in Worker \ {to} PROVE call[c] # [pc |-> "open", to |-> w]
    BY <1>1, SMT
  <2> QED BY <1>6, <1>7, <2>1, Zenon DEF Open
<1>10. \A w \in Worker : inFlight'[w] = Cardinality(Open(w)') /\ (Open(w)' # {} => Runs(w)')
  BY <1>2, <1>4, <1>5, <1>8, <1>9, <1>3, SMT DEF CallsLive, Open, Runs
<1> QED BY <1>6, <1>10, Zenon DEF CallsLive, Open

\* Every step keeps the count of every worker's events.
LEMMA CallsKept ==
    ASSUME IInv, Called, CallsLive, [Next]_vars  PROVE Called' /\ CallsLive'
<1> USE DEF IInv
<1>1. ASSUME UNCHANGED <<call, inFlight>>, UNCHANGED worker  PROVE Called' /\ CallsLive'
  BY <1>1, CallsStand, Zenon DEF Runs
<1>2. ASSUME UNCHANGED events, NEW k, NEW b, Launch(k, b)  PROVE Called' /\ CallsLive'
  <2>1. \A w \in Worker : Runs(w) => Runs(w)'
    BY <1>2, SMT DEF Launch, Runs, Workers
  <2>2. UNCHANGED <<call, inFlight>>  BY <1>2 DEF events
  <2> QED BY <2>1, <2>2, CallsStand, Zenon
<1>3. ASSUME NEW w \in Worker, Drained(w), worker' = [worker EXCEPT ![w] = "off"]
      PROVE  Called' /\ CallsLive'
  <2>1. \A v \in Worker \ {w} : Runs(v) => Runs(v)'
    BY <1>3, SMT DEF Runs, Workers
  <2> QED BY <1>3, <2>1, CallsDrained, Zenon
<1>4. ASSUME Resume("update") \/ Resume("back"), UNCHANGED events  PROVE Called' /\ CallsLive'
  BY <1>1, <1>2, <1>4, Zenon DEF Resume, events
<1>5. CASE Enable \/ Boot
  BY <1>1, <1>2, <1>5, Zenon DEF Enable, Boot, events
<1>6. CASE Disable \/ Uninstall \/ Install \/ Update \/ Loads \/ Enabled \/ EnableFails \/ DisableRuns
  BY <1>1, <1>6, Zenon DEF Disable, Uninstall, Install, Update, Loads, Enabled, EnableFails, DisableRuns, events
<1>7. CASE Failed \/ Disabled
  <2>1. op.w \in Worker  BY <1>7, SMT DEF Failed, Disabled, Fields, Operation, Lifting, Closing
  <2>2. Terminated(op.w)  BY <1>7, Zenon DEF Failed, Disabled
  <2> QED BY <1>3, <2>1, <2>2, Zenon DEF Terminated
<1>8. CASE Swap
  BY <1>1, <1>4, <1>8, Zenon DEF Swap, events
<1>9. CASE SwapFails \/ Rollback
  BY <1>4, <1>9, Zenon DEF SwapFails, Rollback
<1>10. CASE Crash
  <2>1. /\ call' = [c \in Call |-> [pc |-> "idle", to |-> None]]
        /\ inFlight' = [w \in Worker |-> 0]
    BY <1>10, Zenon DEF Crash, NoCalls, NoCall, NoCount
  <2>2. Called'  BY <2>1, SMT DEF Called
  <2>3. \A w \in Worker : Open(w)' = {}  BY <2>1, SMT DEF Open
  <2> QED BY <2>1, <2>2, <2>3, FS_EmptySet, Zenon DEF CallsLive, Open
<1>11. ASSUME NEW w \in Worker, Exits(w) \/ Subscribes(w) \/ Provides(w) \/ Hangs(w)
       PROVE  Called' /\ CallsLive'
  <2>1. CASE Exits(w)  BY <1>3, <2>1, Zenon DEF Exits
  <2>2. CASE Subscribes(w) \/ Provides(w)
    BY <1>1, <2>2, Zenon DEF Subscribes, Provides, events
  <2>3. CASE Hangs(w)
    <3>1. \A v \in Worker : Runs(v) => Runs(v)'
      BY <2>3, SMT DEF Hangs, Runs, Workers
    <3> QED BY <2>3, <3>1, CallsStand, Zenon DEF Hangs, events
  <2> QED BY <1>11, <2>1, <2>2, <2>3
<1>12. ASSUME NEW c \in Call, Fires(c) \/ Dispatches(c) \/ Answers(c)
       PROVE  Called' /\ CallsLive'
  BY <1>12, FiresCalls, DispatchesCalls, AnswersCalls
<1>13. CASE UNCHANGED vars  BY <1>1, <1>13, Zenon DEF vars
<1> QED BY <1>5, <1>6, <1>7, <1>8, <1>9, <1>10, <1>11, <1>12, <1>13 DEF Next, Step

\* At first nothing is in flight.
LEMMA InitCalls == Init => Called /\ CallsLive
<1> SUFFICES ASSUME Init PROVE Called /\ CallsLive
  OBVIOUS
<1>1. /\ call = [c \in Call |-> [pc |-> "idle", to |-> None]]
      /\ inFlight = [w \in Worker |-> 0]
  BY Zenon DEF Init, NoCalls, NoCall, NoCount
<1>2. Called  BY <1>1, SMT DEF Called
<1>3. \A w \in Worker : Open(w) = {}  BY <1>1, SMT DEF Open
<1> QED BY <1>1, <1>2, <1>3, FS_EmptySet, Zenon DEF CallsLive, Open

\* handleExit, settle and the time-outs keep inFlightHookEvents: for any number of events and
\* workers a count is exactly what waits for that worker, which runs while something waits.
THEOREM EventsCounted == Spec => []CallsLive
  BY InitCalls, CallsKept, Invariance, PTL DEF Spec

-----------------------------------------------------------------------------
(* Theorems.                                                               *)

\* Enable, disable, update, uninstall, crashes and worker exits in any order leave no worker
\* thread behind, no hook shim and no search provider, for any number of generations.
THEOREM NothingStays == Spec => []NothingLeft
<1>1. IInv => NothingLeft  BY Zenon DEF IInv, NothingLeft
<1> QED BY <1>1, Invariance, PTL

\* A plugin reported ENABLED at rest has a worker that runs.
THEOREM EnabledLives == Spec => []EnabledIsLive
<1>1. IInv => EnabledIsLive  BY Zenon DEF IInv, EnabledStands, Hosted, EnabledIsLive
<1> QED BY <1>1, Invariance, PTL

\* A plugin runs at rest only where the operator enabled it: no update, rollback or restart of
\* the process enables one by itself.
THEOREM AsDecided == Spec => []OnlyAsDecided
<1>1. IInv => OnlyAsDecided  BY Zenon DEF IInv, EnabledStands, OnlyAsDecided
<1> QED BY <1>1, Invariance, PTL

\* After every operation, rollback and recovery the loader runs the version in the directory,
\* and neither a backup nor a staged tree is left.
THEOREM InSync == Spec => []Synced
<1>1. IInv => Synced
  <2>1. op = Idle => op.pc = "idle"  BY SMT DEF Idle, Doing
  <2> QED BY <2>1, Zenon DEF IInv, OnDisk, AtRest, Synced
<1> QED BY <1>1, Invariance, PTL

\* A crash between or in the middle of the renames of an update, and the recovery at the next
\* boot, never lose a plugin that was on the disk.
THEOREM StaysThere == Spec => NeverVanishes
<1>1. IInv /\ [Next]_vars /\ up' # up /\ {live, backup} # {None}
        => live' # None \/ (~up' /\ backup' # None)
  <2> SUFFICES ASSUME IInv, Next \/ UNCHANGED vars, up' # up, {live, backup} # {None}
               PROVE  live' # None \/ (~up' /\ backup' # None)
    OBVIOUS
  <2>1. CASE Crash
    <3>1. CASE op.pc = "swap"
      BY <2>1, <3>1, NoVersion, SMT DEF Crash, Cuts, IInv, OnDisk, Lifting, Closing
    <3>2. CASE op.pc = "rollback"
      BY <2>1, <3>2, NoVersion, SMT DEF Crash, Cuts, IInv, OnDisk, Lifting, Closing
    <3>3. CASE op.pc \notin {"swap", "rollback"}
      <4>1. live' = live /\ backup' = backup /\ ~up'  BY <2>1, <3>3, SMT DEF Crash, Cuts, disk
      <4> QED BY <4>1
    <3> QED BY <3>1, <3>2, <3>3
  <2>2. CASE Boot  BY <2>2, SMT DEF Boot, Recovered
  <2> QED
    BY <2>1, <2>2, Zenon DEF Next, Step, vars, Enable, Disable, Uninstall, Install, Update, Loads,
       Enabled, EnableFails, Failed, DisableRuns, Disabled, Swap, SwapFails, Rollback,
       Exits, Hangs, Subscribes, Provides, Fires, Dispatches, Answers
<1> QED BY <1>1, Invariance, PTL DEF Spec, NeverVanishes

\* An update of an enabled plugin, rolled back or not, ends ENABLED or in ERROR.
THEOREM Resumes == Spec => UpdateResumes
<1>1. IInv /\ [Next]_vars /\ op.kind \in {"update", "back"} /\ op.was /\ op' = Idle /\ up'
        => status' \in {"enabled", "error"}
  <2> SUFFICES ASSUME IInv, Next \/ UNCHANGED vars, op.kind \in {"update", "back"}, op.was,
                      op' = Idle, up'
               PROVE  status' \in {"enabled", "error"}
    OBVIOUS
  <2>1. op'.pc = "idle" /\ op'.kind = "none" /\ op' # op
    BY SMT DEF Idle, Doing
  <2>2. op # Idle /\ op.pc # "idle"
    BY <2>1, SMT DEF IInv, Operation
  <2>3. ASSUME NEW k, NEW b  PROVE ~Launch(k, b)
    <3>1. ASSUME Launch(k, b)  PROVE op'.pc = "loading"
      BY <3>1, SMT DEF Launch, Doing
    <3> QED BY <2>1, <3>1
  <2>4. ~Resume("update") /\ ~Resume("back")
    BY <2>3, Zenon DEF Resume
  <2>5. CASE Enabled  BY <2>5, Zenon DEF Enabled
  <2>6. CASE Failed  BY <2>6, Zenon DEF Failed
  <2>7. ~Loads /\ ~EnableFails /\ ~DisableRuns
    <3>1. ASSUME NEW p, Goto(p)  PROVE p = "idle"
      BY <2>1, <3>1, SMT DEF Goto, Doing
    <3>2. ~Goto("enabling") /\ ~Goto("failing") /\ ~Goto("terminating")  BY <3>1
    <3> QED BY <3>2, Zenon DEF Loads, EnableFails, DisableRuns
  <2>8. ~Disabled
    <3>1. CASE op.kind = "update"
      <4>1. Disabled => op' = Doing("update", "swap", None, op.was)
        BY <3>1, SMT DEF Disabled
      <4> QED BY <2>1, <4>1, SMT DEF Doing
    <3>2. CASE op.kind = "back"
      BY <3>2, SMT DEF Disabled
    <3> QED BY <3>1, <3>2
  <2>9. ~Swap /\ ~SwapFails /\ ~Rollback
    <3>1. ~Goto("rollback")
      BY <2>1, SMT DEF Goto, Doing
    <3> QED BY <2>4, <3>1, Zenon DEF Swap, SwapFails, Rollback
  <2>10. ~(Enable \/ Disable \/ Uninstall \/ Install \/ Update \/ Crash \/ Boot)
    <3>1. up  BY <2>2, Zenon DEF IInv, Down
    <3> QED BY <2>2, <3>1, Zenon DEF Enable, Disable, Uninstall, Install, Update, Ready, Crash, Boot
  <2>11. ASSUME NEW w \in Worker  PROVE ~(Exits(w) \/ Hangs(w) \/ Subscribes(w) \/ Provides(w))
    BY <2>1, Zenon DEF Exits, Hangs, Subscribes, Provides
  <2>12. ASSUME NEW c \in Call  PROVE ~(Fires(c) \/ Dispatches(c) \/ Answers(c))
    BY <2>1, Zenon DEF Fires, Dispatches, Answers
  <2> QED
    BY <2>1, <2>5, <2>6, <2>7, <2>8, <2>9, <2>10, <2>11, <2>12, Zenon DEF Next, Step, vars
<1> QED BY <1>1, Invariance, PTL DEF Spec, UpdateResumes

-----------------------------------------------------------------------------
\* The flags and the bounds.
Counters == up \in BOOLEAN /\ decision \in BOOLEAN /\ ops \in 0..MaxOps /\ faults \in 0..MaxFaults

\* Every step keeps them.
LEMMA CountersKept ==
    ASSUME IInv, Counters, [Next]_vars  PROVE Counters'
<1>1. ops' \in 0..MaxOps
  <2>1. ASSUME Ready  PROVE ops' \in 0..MaxOps
    BY <2>1, PluginAssumption, SMT DEF Ready, Counters, PluginAssumption
  <2>2. CASE Enable \/ Disable \/ Uninstall \/ Install \/ Update
    BY <2>1, <2>2, Zenon DEF Enable, Disable, Uninstall, Install, Update
  <2>3. CASE UNCHANGED ops  BY <2>3, Zenon DEF Counters
  <2> QED
    BY <2>2, <2>3, Zenon DEF Next, Step, vars, Loads, Enabled, EnableFails, Failed, DisableRuns,
       Disabled, Swap, SwapFails, Rollback, Crash, Boot, Exits, Hangs, Subscribes, Provides,
       Fires, Dispatches, Answers
<1>2. faults' \in 0..MaxFaults
  <2>1. ASSUME NEW k, Fault(k)  PROVE faults' \in 0..MaxFaults
    BY <2>1, PluginAssumption, SMT DEF Fault, Counters, PluginAssumption
  <2>2. CASE UNCHANGED faults  BY <2>2, Zenon DEF Counters
  <2> QED
    BY <2>1, <2>2, Zenon DEF Next, Step, vars, Enable, Disable, Uninstall, Install, Update, Loads,
       Enabled, EnableFails, Failed, DisableRuns, Disabled, Swap, SwapFails, Rollback, Crash, Boot,
       Exits, Hangs, Subscribes, Provides, Fires, Dispatches, Answers
<1>3. up' \in BOOLEAN
  BY Zenon DEF Counters, Next, Step, vars, Enable, Disable, Uninstall, Install, Update, Loads,
     Enabled, EnableFails, Failed, DisableRuns, Disabled, Swap, SwapFails, Rollback, Crash, Boot,
     Exits, Hangs, Subscribes, Provides, Fires, Dispatches, Answers
<1>4. decision' \in BOOLEAN
  <2>1. CASE Enabled
    <3>1. (decision \/ op.kind = "enable") \in BOOLEAN  OBVIOUS
    <3> QED BY <2>1, <3>1, Zenon DEF Enabled
  <2>2. CASE Disabled \/ Uninstall  BY <2>2, Zenon DEF Disabled, Uninstall, Removed, Counters
  <2> QED
    BY <2>1, <2>2, Zenon DEF Counters, Next, Step, vars, Enable, Disable, Install, Update, Loads,
     EnableFails, Failed, DisableRuns, Swap, SwapFails, Rollback, Crash, Boot,
     Exits, Hangs, Subscribes, Provides, Fires, Dispatches, Answers
<1> QED BY <1>1, <1>2, <1>3, <1>4 DEF Counters

\* Every variable keeps to its range; a count never exceeds the number of events.
THEOREM Typed == Spec => []TypeOK
<1>1. Init => Counters
  <2>1. Init => ops \in 0..MaxOps /\ faults \in 0..MaxFaults
    BY PluginAssumption, SMT DEF Init, PluginAssumption
  <2>2. Init => up \in BOOLEAN /\ decision \in BOOLEAN  BY Zenon DEF Init
  <2> QED BY <2>1, <2>2 DEF Counters
<1>2. IInv /\ Called /\ CallsLive /\ Counters => TypeOK
  <2> SUFFICES ASSUME IInv, Called, CallsLive, Counters PROVE TypeOK
    OBVIOUS
  <2>1. op \in [kind : Kind, w : Worker \cup {None}, was : BOOLEAN,
                pc : {"idle", "loading", "enabling", "failing", "disabling", "terminating",
                      "swap", "rollback"}]
    <3>1. op.pc \in {"idle", "loading", "enabling", "failing", "disabling", "terminating",
                     "swap", "rollback"}
      BY SMT DEF IInv, Fields, Lifting, Closing
    <3>2. op = [kind |-> op.kind, pc |-> op.pc, w |-> op.w, was |-> op.was] /\ op.was \in BOOLEAN
      BY Zenon DEF IInv, Shape, Doing
    <3> QED BY <3>1, <3>2, Zenon DEF IInv, Fields
  <2>2. call \in [Call -> [pc : {"idle", "gate", "open"}, to : Worker \cup {None}]]
    <3>1. ASSUME NEW c \in Call  PROVE call[c] \in [pc : {"idle", "gate", "open"}, to : Worker \cup {None}]
      <4>1. PICK p \in {"idle", "gate", "open"}, to \in Worker \cup {None} :
                    call[c] = [pc |-> p, to |-> to]
        BY Zenon DEF Called
      <4> QED BY <4>1, SMT
    <3>2. call = [c \in Call |-> call[c]]
      BY Zenon DEF Called
    <3> QED BY <3>1, <3>2, Zenon
  <2>3. inFlight \in [Worker -> 0..Cardinality(Call)]
    <3>1. ASSUME NEW w \in Worker  PROVE inFlight[w] \in 0..Cardinality(Call)
      <4>1. /\ Cardinality(Open(w)) \in Nat /\ Cardinality(Call) \in Nat
            /\ Cardinality(Open(w)) <= Cardinality(Call)
        BY FS_Subset, FS_CardinalityType, PluginAssumption, OpenFinite, Zenon DEF PluginAssumption, Open
      <4>2. inFlight[w] = Cardinality(Open(w))  BY Zenon DEF CallsLive, Open
      <4> QED BY <4>1, <4>2, SMT
    <3> QED BY <3>1, Zenon DEF Called
  <2> QED
    BY <2>1, <2>2, <2>3, SMT DEF TypeOK, Counters, IInv, Directories, Workers
<1> QED BY <1>1, <1>2, CountersKept, InitCalls, CallsKept, Invariance, PTL DEF Spec
=============================================================================
