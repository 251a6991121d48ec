# Verification of the WACRM session core

WACRM Desktop wraps a WhatsApp gateway (`src/core`, a NestJS server with a React
dashboard and client SDKs) in an Electron shell (`src/electron`).  This directory
holds TLA+ specifications of the gateway's stateful parts, the TLC configurations
that check them on small instances, and TLAPS proofs about them.

Paths below are relative to `src/core/src/` unless they start with `src/`.

1. [The system](#1-the-system): components, state, interactions, what is hard
2. [The modules](#2-the-modules): what each models and how it maps to the code
3. [The runs](#3-the-runs): what each shows, bounds, fairness
4. [The proofs](#4-the-proofs)
5. [Where the code does something else](#5-where-the-code-does-something-else-than-it-says)
6. [What is not modelled](#6-what-is-not-modelled), and [the plan](#7-plan)

## 1. The system

A *session* is one WhatsApp account.  It has a row in `sessions`, an *engine* (an
adapter around whatsapp-web.js or Baileys) in the process that runs it, and a
directory of credentials keyed by its name.  Several gateway processes may share
the database (PostgreSQL); each session then runs in at most one of them.

| component | state | operations | interacts with |
|---|---|---|---|
| session ownership: `session/session-ownership.service.ts`, `session/session.service.ts`, `takeover/` | `sessions.nodeId`, `leaseExpiresAt`; per process the set `owned`, the heartbeat and sweep timers | claim, renew, release, releaseAll, boot reset and auto-start, takeover sweep | engine lifecycle (is anything alive? tear the lost ones down), bulk batches (reap on adoption) |
| engine lifecycle: `session/session-engine-lifecycle.service.ts`, `session-engine-controls.ts`, `session-lifecycle-fences.ts`, `engine/engine-registry.service.ts` | engine registry, `stoppingSessions`, `initializingSessions`, reconnect states, pending teardowns, the credentials on disk | start, stop, logout, force-kill, delete, create; reconnect attempts; engine callbacks | ownership, adapters, status broadcaster |
| adapters: `engine/adapters/` | socket of one engine, its own reconnect timer and latch, the credentials | initialize, disconnect, logout, destroy; callbacks ready, disconnected, error | lifecycle |
| bulk batches: `message/bulk-message.service.ts`, `send-pacing.service.ts` | `message_batches` rows, cancel flags, the count of running drivers, the send breaker | create, process, cancel, reap | engine registry, takeover, session deletion |
| ingress: `integration/`, `queue/processors/ingress.processor.ts` | `ingress_events`, `integration_delivery_failures`, the BullMQ queue | receive, enqueue, inline dispatch, worker attempts, reconcile, redrive | plugin host |
| outgoing messages: `message/message.service.ts`, `session/message-projector.service.ts`, `session/message-mutation-projector.ts` | `messages` rows and their status, the mutation chain of a message | send, own-send echo, acknowledgement, reaction, reaper | engine, webhooks |
| outgoing webhooks: `webhook/`, `queue/processors/webhook.processor.ts`, `common/utils/concurrency-limiter.ts` | limiter, BullMQ queue, failure rows | dispatch, deliver, retry, record, drain | everything that emits events |
| plugins: `core/plugins/`, `plugins/plugins.service.ts` | the package on the disk and its backup, registry, workers, registrations, events in flight | install, enable, disable, update and roll back, uninstall, restore at boot, dispatch, exit | ingress, hooks |
| CRM server: `src/electron/crm-server/` | a JSON store: automations, broadcasts, handover flags | run a flow, trigger, poll a broadcast | the gateway over HTTP |

`PROJECT.json` lists every part with its status, including those that are requests
to an engine or a table without state of their own.

**What is hard here.**  Everything runs on event loops, so the code between two
awaits is atomic and anything may happen at an await: the flows on one session
(a start, a reconnect attempt, a stop, a deletion, an engine callback) are
serialised by nothing but marks and maps that each must read again.  Between
processes only the WHERE clauses of updates decide.  Processes crash with rows
half way; the queue accepts a job and the reply is lost; a sweep acts on a list
read long ago.  The 40 hazards of `PROJECT.json` are these, each at its line, with the
property that is there to catch it or the reason why none is yet.

**What makes each part correct.**

- *Ownership*: nobody takes a claim another process holds on an unexpired lease; one
  engine per session in the cluster; a process that lost its claim loses its engine; a
  claim covering nothing lapses; what a dead process ran is adopted.
- *Engine lifecycle*: no engine is lost from the registry while it runs; two never run
  for one session; none is launched twice; a stop has the last word about the engine;
  nobody removes credentials an engine is using; a dead engine leaves.
- *Bulk*: every slot comes back; the counters add up; a cancelled batch stays
  cancelled and stops sending; nothing stays PROCESSING for ever.
- *Ingress*: an acknowledged delivery is handled or kept somewhere a retry finds it;
  a settled one does not come back; a hopeless one ends as a dead letter.
- *Outgoing messages*: a message has one row whoever inserted first; its media and
  reactions survive the merge; only the merge takes its status back; it is `failed`
  only when it was; it does not stay `pending`.
- *Outgoing webhooks*: the limiter returns its slots; an event is answered, recorded
  as undelivered, or given up in a named way; a 2xx is final.
- *Baileys connection*: one socket; none after a stop; credentials are removed only of a
  device that is no longer linked; a logout that succeeds is complete; a drop is pursued.
- *Plugins*: no worker, hook or search provider is left behind; what runs is what is on the disk;
  an update interrupted between or in its renames keeps a tree (a recursive removal cut in the middle does not, section 5);
  every event and every operation ends.

## 2. The modules

Each action is what the code does between two awaits, so a handler with three
awaits is several actions and its locals that survive an await are state.  An
await that waits for nothing (an already settled promise) is no interleaving point.
Budgets `MaxRequests` and `MaxFaults` bound what operators ask and what goes wrong,
and the sets `Requests` and `Faults` say of which kinds; everything else is
free.  The variables `requests` and `faults` hold what is left of them.

### `Lease.tla` and `SessionOwnership.tla`: which process runs a session

`Lease` is the abstract specification, the table as its clients see it: for every session a holder and whether its
lease has lapsed, and for every node the statements it has `sent` that have not arrived and the claims it was
told are its own (`granted`).  Every action belongs to a node and to a statement of that node: `Acquire` (of a claim that
is free, one's own, or lapsed), `Extend` and `ReleaseAll` (of one's own only), `Release` (of one's own, or lapsed), `Remove` (the
deletion of the row, which asks for no holder), and `Expire`.  A statement that arrives for a row it must not touch
leaves it alone.  It says nothing of processes, engines or memory.

`SessionOwnership` has the row (`nodeId`, `lapsed`, `status`, `linked`) and, per
process, its life (`proc`) and memory (`mem`).

| code | model |
|---|---|
| `leaseExpiresAt < now` | `lapsed[s]`; `UnrenewedLapse` is the passing of time for a claim no heartbeat covers, `HealthyLapse` (fault `lapse`) a holder that was late |
| `claim()`, `release()`, `renew()` | `ClaimRow` / `StartEnter`, `LetGo` / `ReleaseRow`, `RenewBegin` .. `RenewConclude`: the UPDATE and the arrival of its answer are separate steps |
| `isEngineActive()` | `ActiveIn`: an engine, a start in flight or a pending reconnect |
| `start()` in service and controls | `RequestStart` or `QueuedStart`, then `StartEnter` .. `StartGuard` |
| `stop`, `logout`, `forceKill`, `delete` | `RequestControl` .. `ControlSettle`, with `kind` |
| `executeReconnect()` | `ReconnectFires`, `ReconnectLaunches`, `ReconnectEnds` or `ReconnectFails` |
| boot, auto-start, sweep, shutdown | `Boot`, `Bootstrap`, `Listen`, `Sweep`, `Shutdown`, `ShutdownRelease`, `Exit` |

`LeaseRefined` is the specification of the instance of `Lease` whose `holder` is `nodeId`, whose
`expired` is `lapsed`, whose `sent` are the releases, the list of the heartbeat, the drain's release and the deletions in flight (`Sent`), and whose
`granted` are the starts whose claim was answered (`Granted`): `Spec => LeaseRefined` says that the cluster, processes, memory and all, implements
the lease.  A release, a renewal or a release of everything that loses its WHERE clause is a mutant it refutes, as is a claim that does.

Abstractions: QR and authentication statuses are folded into `initializing`; a second
start of a session on the same process while the first is in flight is refused without
a claim of its own; concurrent releases by one process are one; the HTTP server listens
only after the boot loop (`Listen`) and takes nothing during a drain; a crash is the exit of the
process; an engine is (process, session), its generations being the subject of the next
module.  One timing assumption is built in (`Prompt`): a lease of 60 s outlives a flow
that only waits for the database.  A database slower than that is the fault `lapse`.
The suspension of loss detection during a data import is left out.

### `EngineLifecycle.tla`: the engines of one process under one name

Here engines are objects: `engine[e]` has an owner and a phase (built, launching, up,
dead, torn), `registry` is `EngineRegistry`, and each start, reconnect attempt and
control is a *flow* with a program counter.  Session ids share a name, hence a
credentials directory (`dir`: the engine that last populated it): one of them has the row, and a deleted one
may be followed by another.  `wiping` is `pendingTeardowns`, the fence on removals of
credentials; `clearing` are removals that are not tracked by it.

A control marks the session before its first awaits (the row, the fence).  These may refuse it, by a row that a peer holds, a query that fails, or a
removal that outlasts the fence (`EnterRefused`); the mark then stays with no flow behind it.  The ghost `stopped` has the sessions that a control went on to take down,
until a start past its own fence or the end of a deletion takes the mark back (`Unmark`).

`Prompt` gives priority to a flow whose awaited promise has just settled: its continuation is
a microtask and runs before any other callback.  Names of engine objects nobody
refers to any more are recycled (`Available`).  The teardown of an engine is taken to kill
it.  The cap on sessions, ownership and shutdown are in `SessionOwnership`.  A logout of
an engine that never got up fails without removing credentials; a logout's
removal may be refused by the file system (`Wiped` may leave the directory).

### `BulkBatches.tla`: bulk sending

One process and the batches of one session; peers on the same database appear as what
they do to the rows (`peer`, cancels and reaps that are not `local`).  A driver
(`processBatch`) carries the entity it read: its own counters, overwritten on the row
by guarded updates (`Guard`) and, at the end, by a whole-entity save.
`cancels` and `reaps` are calls between their read and their write, with what they read.
Messages, media and delays are abstracted; `Items`, `SaveEvery` (10 in the code),
`Threshold` and `MaxConcurrent` are parameters, and `StopOnError` the set of batches with that
option.  A driver keeps the engine object it started with: once that is gone its sends
fail (`lost`).

### `IngressDelivery.tla`: inbound deliveries

The live path, the reconciler and the redrives are flows that share `enqueue()`.
The payload is part of the row's state (kept exactly while `pending`).  `reject` says that
Redis may be away or the queue off for as long as it likes, and a plugin may fail for
ever: both are unbudgeted.  `echo` is an `add()` that reached Redis and was rejected
all the same.  BullMQ keeps ended jobs for a while and ignores adds under their ids;
when it forgets one is left open and decided at the next add.  The sweep takes rows whose
live path is over, because its 60 s of grace exceed the dispatch timeout.  It loads the oldest `SweepSize` (`Oldest`, by
`older`, the order of `createdAt`; ties are left out); a row that cools down after an attempt or whose instance is disabled is skipped and has had its place in the batch.  `Earlier` are the
deliveries of a previous run, left pending or handled, of instances disabled since: a deleted instance is one that is never enabled again.  A crash loses the
flows; jobs the dead worker held are given back `MaxStalls` times, then failed.
`handled` means that the host saw the plugin succeed, which is stricter than that it did.
Left out: the per-conversation ordering lock, signatures, the retention pruning (it removes rows after days, so that what the model says of
a row is said until then; it is also what ends the skipping of a deleted instance's rows), and pending rows without a payload, which the code never
writes (an import may); they are skipped like those of a disabled instance.  Sync response routes take the same steps.

### `OutgoingMessages.tla`: the rows of a sent message

The request's row (`own`) and the row its echo inserts (`echo`) live under one unique key;
`Holder` is the row an `UPDATE ... WHERE waMessageId` finds.  `pc` follows the sender: a PENDING row, the
engine's answer, the second save, and, when the echo was first, the merge (copy, delete, save).  `ack` is
where the handler of each receipt is between its UPDATE and its retry; `queue` is the chain of
`keyed-mutation-queue.ts`, whose head reads the row and then writes it.  `kind` is who sends (a request, a
bulk item, the linked phone) and whether media goes by URL or as bytes.  Faults: the engine refuses, times out
with the message sent (`unsure`), answers without an id, the database fails, the deletion in the merge fails,
the process crashes.  Reactions are sets of reactors; content is what is kept of the media.

### `WebhookDelivery.tla`: outgoing webhooks

A delivery (one event for one webhook) is in a limiter task (`Holding`), parked, refused, or a job.
`Finish` is the end of a limiter task: the slot passes to the first waiter or is released.  `Close` rejects
the parked; `booked` is `pendingBookkeeping`, which the drain awaits.  In Redis a job is taken, answered, recorded
(`lettering`), thrown and settled; a crash makes what the worker held stall, once back to waiting and then failed,
which `onWorkerFailed` records without `process()`.  `waived` are the deliveries given up without a row, and each place that adds
to it is one the code names or logs.

### `BaileysConnection.tla`: the socket of one adapter

`connect()` and its awaits (`connect`), the reconnect timer, the socket held and those alive, the latch `intentionalClose`,
the logout and its captured socket (`source`), the removals of credentials (`wiping`), the QR being rendered.  A doubled close
(`twice`) is a second `close` event on a socket that was not replaced yet: if it arrives during the next attempt, `doubled` remembers it; after a 440 or 403 it
revives the adapter (`terminal` is taken back).  The removal of credentials by a logout is the strict one of `clearAuthState`; the message store is cleared
by a call whose failure the code swallows, and is not part of `LogoutMeansIt`.

### `PluginRuntime.tla`: one sandboxed plugin

The directory, its backup and staging tree; the registry's decision; the loader's map; per generation the worker thread, its
registrations and its count of hook events in flight.  `op` is the operation under way: operations on one plugin are serialised by
`serialize()`, while worker exits, crashes and events are not.  A crash may come in the middle of a step that renames.  `Boot`
is the recovery of interrupted updates and the restore of what the operator enabled.  Simplifications: `onLoad` and `onEnable` are one
phase; a staging that fails changes nothing and is not a step; a generation's name is used again once nothing
refers to it; the search provider is that of the generation that registered last.

## 3. The runs

All runs take the constants from their `.cfg` through an `MC` module that only
defines the sets.  Deadlock is not checked: budgets are bounded, and an idle
system rightly stops.

| run | instance | properties |
|---|---|---|
| `LeaseRefinement` | 2 processes, 1 session, each request and fault, one of either | `LeaseRefined` |
| `Failover` | 2 processes, 2 sessions, cap 1; 3 crashes, failed heartbeats, drops | `SingleEngine` |
| `Healing` | 2 processes, 1 session; 2 lapses, crashes, drops, terminal errors, failed launches, and exhausted reconnects | `OwnedLossHeals`, `IdleClaimLapses`, `OrphanAdopted` |
| `Reconnects` | 1 start, 5 drops, unlinks, errors, failed or hung launches | `SoleEngine`, `CredentialsSpared`, `DeadEngineLeaves` |
| `Controls` | 2 ids of one name, 5 requests of any kind, 2 faults, no reconnect | `SoleEngine`, `CredentialsSpared` |
| `Stops` | 3 requests of any kind (but creations), 2 faults of any kind, reconnects included | `StopSticks`, `NoRearm` |
| `Batches` | 2 batches on 1 slot, 3 items; 2 cancels, stops, deletions or takeovers, 1 fault | `SlotsReturned`, `Accounted`, `CancelStops`, `CancelSticks`, `ProcessingEnds` |
| `Ingress` | 1 delivery behind a row of a disabled instance, sweeps of 1 row, 2 attempts, 2 replays, 1 redrive or toggle, 2 faults | `Kept`, `StaysSettled`, `Concludes` |
| `Messages` | 1 message of any origin, URL or bytes; 3 receipts and reactions of 2 reactors, 1 fault | `FailedIsTrue`, `OneCopy`, `ContentKept`, `OnlyMergeRegresses`, `Resolves`, `ReadShown` |
| `Webhooks` | 2 deliveries, 1 slot, 0 or 1 place, 2 attempts, with and without queue; 2 faults, 1 shutdown | `SlotsKept`, `Accounted`, `AnswerIsFinal`, `Concludes` |
| `Connection` | 1 adapter, 3 socket names (recycled), 6 faults, stops and a logout at any time | `OneSocket`, `StopHolds`, `CredentialsKept`, `LogoutMeansIt`, `Progress` |
| `Plugins` | 3 packages (1 refused by the loader), 3 generations, 2 events, 2 requests, 2 faults | `NothingLeft`, `CallsLive`, `Synced`, `NeverVanishes`, `EverythingEnds` |

A run checks only what could be wrong, so the type invariants are not among the
properties of the runs; they are proved (section 4), that of `IngressDelivery` as part of its invariant.

**Why the bounds are enough.**  The protocol of ownership is pairwise: a row has one
holder and a conflict needs a second.  Two sessions matter only for
the cap, hence the cap of one in `Failover`.  A failure of `SingleEngine` by a stale
reconnect takes a drop, a missed renewal and an adoption; three faults allow it to
happen in any order, and its mutant (a pending reconnect does not count as alive)
is found within them.  In `EngineLifecycle` an overlap needs two flows; three flows
let a third act while two wait, and four engine names cover one registered, one
being torn down, one being launched and one being replaced.  Five requests in `Controls` are a start, a deletion, a creation under the
name, a second start and a logout, the shortest sequence in which an engine of the deleted session meets one of its successor.
In `Batches`, `Items = 3` with `SaveEvery = 2` has an item before, at and after a
progress write, and one slot makes the second batch wait for the first.
In `Ingress` two attempts and two replays have a first, non-final and a final one, and with sweeps of one row the older row, enabled or not, decides
whether the younger one is looked at.
In `Messages` three events make a receipt meet a reaction and a second reaction of the same chain, and one
message is enough because no statement touches the row of another.  In `Webhooks` a slot passes, a delivery parks and one is
refused, and two faults make a job stall twice or echo and crash.  In `Connection` six faults go through drop, doubled
close, refused attempt, failing load and unlink in one behaviour; three names cover the socket held, the one a logout
captured and the next.  In `Plugins` three generations are an old, a new and a rolled back one.
Every property has a mutant of the code (in the modules, marked as such) that makes its
run fail.

**Why some runs leave faults out.**  `SingleEngine` holds without requests, failed
launches and lapses of healthy claims; with them it does not (section 5), and healing
(`OwnedLossHeals`) is what the code offers instead.  `SoleEngine` (`Tracked` and `OneEngine`) holds when
either no reconnect attempt or no operator's request overlaps the other (section 5 has the overlap), hence two runs, and two theorems;
both leave out the `early` engine, whose registration an older flow may overwrite (`CatchReapsOwn`, `TimeoutEvictsOwn`).
`CredentialsSpared` excepts a deletion's own purge and the time in which an engine of a deleted session is about (`Orphan`), and is
not claimed with the stuck-authentication recovery.  `OneEngine` is per session id.

**Fairness.**  `SessionOwnership`: timers fire and awaited work returns (weak
fairness of each flow, of the heartbeat, of the sweep), and an unrenewed
lease runs out (strong, because heartbeats of others in flight disable it again and again).
No operator, fault, boot or outcome of a launch is fair.  `EngineLifecycle`: flows
continue, armed timers fire, removals end: every await there has a deadline in the
code.  `BulkBatches`: drivers and reapers continue, a process that is down is started
again (Electron restarts a server two seconds after it exits), but no outcome of a
send is fair.  `IngressDelivery`: flows
continue, the worker takes jobs, the reconciler's interval ticks, the grace period after an attempt passes, the process
is restarted; neither Redis nor the plugin is fair, and nobody enables an instance.  `OutgoingMessages`: a send, an echo, a retry of a receipt and the
reaper's interval end; the second save of a receipt is the acknowledgement's retry after 750 ms.
`WebhookDelivery`: `WEBHOOK_TIMEOUT` bounds a POST, the worker takes jobs, an empty drain ends, the process is restarted.
`BaileysConnection`: an attempt ends, the timer fires, a socket opens or is refused, the unlink request times out, a removal ends;
a QR is rendered in less than the second of the first backoff.
`PluginRuntime`: lifecycle and hook calls time out, `terminate()` ends a worker, the process is restarted; whether a call times out
or answers is not fair.

## 4. The proofs

Eight modules hold proofs, checked to the last leaf by `tlapm <module>.tla`: `SessionOwnershipProofs`,
`EngineLifecycleProofs`, `BulkBatchesProofs`, `IngressDeliveryProofs`, `OutgoingMessagesProofs`, `WebhookDeliveryProofs`,
`BaileysConnectionProofs` and `PluginRuntimeProofs`.  They hold for every size of the constants and every budget.  Their assumptions are those of the modules (`OwnershipAssumption`,
`LifecycleAssumption` and so on: the constants have their types, `NoRow` is no row, and in `IngressAssumption` the names of flows and of jobs are apart) and, where
the table names one, a hypothesis on the kinds of requests and faults.  Each hypothesis covers the instance of the run that checks the
same property, and the text below says what TLC finds without it.

| theorem | states |
|---|---|
| `TypeCorrect` | `Spec => []TypeOK`: types, and a row nobody holds has no lease |
| `LeaseImplemented` | `Spec => LeaseRefined`: the cluster implements `Lease` |
| `EngineRestsOnClaim` | `LeftAlone`: `Spec => []SingleEngineInv` |
| `SingleEngineHolds` | `LeftAlone`: `Spec => []SingleEngine` |
| `OneWhileStarting` | `NoReconnects`: `Spec => []SoleEngine` |
| `OneWhileReconnecting` | `OneStart`: `Spec => []SoleEngine` |
| `SparedWhileStarting` | `NoReconnects`: `Spec => CredentialsSpared` |
| `SparedWhileReconnecting` | `OneStart`, no stuck-authentication recovery: `Spec => CredentialsSpared` |
| `StopsStick` | `Spec => []StopSticks`, for any requests and faults |
| `NeverRearmed`, `Typed` | `NoRearm`, types of `EngineLifecycle`, for any requests and faults |
| `CopiesAreOne`, `ContentsAreKept`, `FailuresAreTrue`, `OnlyMergesRegress`, `Typed` | `OneCopy`, `ContentKept`, `FailedIsTrue`, `OnlyMergeRegresses`, types of `OutgoingMessages` |
| `SlotsAreReturned`, `AccountsAddUp`, `CancelsStick`, `CancelsStop`, `Typed` | `SlotsReturned`, `Accounted`, `CancelSticks`, `CancelStops`, types of `BulkBatches` |
| `DeliveriesAreKept`, `SettledStays` | `Kept`, `StaysSettled` of `IngressDelivery` |
| `SocketIsOne`, `StopIsFinal`, `ReadyOverOpen`, `CredentialsAreKept`, `AlwaysPursued`, `LogoutIsComplete`, `TerminalIsFinal`, `ConnectionTypes` | `OneSocket`, `StopHolds`, `ReadyIsOpen`, `CredentialsKept`, `Pursued`, `LogoutMeansIt`, `TerminalSticks`, types |
| `SlotsAreKept`, `AllAccounted`, `AnswersAreFinal`, `Typed` | `SlotsKept`, `Accounted`, `AnswerIsFinal`, types of `WebhookDelivery` |
| `NothingStays`, `EventsCounted`, `InSync`, `StaysThere`, `EnabledLives`, `AsDecided`, `Resumes`, `Typed` | `NothingLeft`, `CallsLive`, `Synced`, `NeverVanishes`, `EnabledIsLive`, `OnlyAsDecided`, `UpdateResumes`, types of `PluginRuntime` |

**`TypeCorrect`** is inductive as it stands.  The lemmas `StartUpdates` .. `ShutdownUpdates` say that
each update a handler makes to a memory yields a memory; `NodeTypes`, `StartTypes` and
`ControlTypes` and their neighbours go through the actions.

**`LeaseImplemented`** needs no more than the types as an invariant; what it takes is that every step of the cluster is, row by row, a step that the lease
allows the very node whose statement it executes.  Few actions write the claim columns (`RequestStart`, `QueuedStart`, `ReleaseRow`, `ControlRecord`,
`RenewUpdate`, `ShutdownRelease`, the two lapses); each takes its statement out of `sent`, and its WHERE clause is what the lease asks.  The others
must be shown to tell nobody that a session is theirs (`Told`), since only `Acquire` may.  A
release in flight may reach the table after the lease has lapsed and another holder has come; it then leaves the row alone.

**`SingleEngineHolds`** is about a cluster left to itself: `Requests = {}` and no faults but crashes,
failed heartbeats and dropped connections, any number of each.  `SingleEngine` is far from inductive.  A process may
be alive in a session without an engine, for instance between the teardown of a
dead engine and the launch of the next, and another process that claimed the row at that moment
would make two.  `SingleEngineInv` therefore says of everything a process can have of a session (an engine, a start, an
attempt, an armed timer, a release in flight: `Engaged`, `releasing`) that the row names this process and the
lease has not lapsed (`Backed`).  Two processes cannot both be named.  To be inductive it needs, per memory
(`Coherent`):

- *owned if and only if engaged*, up to the answer of the claim: this is what makes the heartbeat cover
  every engaged session, so that `UnrenewedLapse` cannot strike one;
- how far a start, an attempt, an engine and a reconnect state may be apart: an attempt in `clearing`
  has no engine but is `running`, which is what keeps it visible to `isEngineActive()`;
- what a heartbeat in flight has listed is not lapsed and not newly claimed, and what its SELECT
  found gone is no longer engaged: hence `RenewConclude` never tears down anything here;
- an entry queued by the boot scan or the sweep is not engaged: a start from a stale list goes
  through the claim like any other.

`NothingElse` discharges the handlers with nothing to do in such a cluster.  The proof has one lemma per remaining
action (`EnterUpheld`, .. `LapseUpheld`); `MemoryStep`, `SessionMemoryStep` and `RowStep` carry what
they share.  `SingleEngineInv` was model-checked on the instance of `Failover` first.  The hypothesis is not a convenience: with start requests on
two sessions, with launches that fail, with terminal engine errors or exhausted reconnect budgets, or with a shutdown, TLC finds two
engines of one session: a release UPDATE lands after the session was claimed again, a claim without an engine lapses
under an attempt that is still on its way, or the drain frees the rows under an engine that came late (section 5).

**`EngineLifecycleProofs`.**  Every engine object a flow holds is one of its session, an engine whose launch has not begun and that is registered was
only built, and no two flows launch the same one (`Shaped`).  With the types this is inductive, and a launch is then of an engine
that was built and is registered: `NeverRearmed`.  Everything else rests on `Shaped` and one further invariant each, with a
lemma per action.

- *`StopsStick`*: `Watched` says that if an engine is registered for a marked session then some flow will still look at the mark or take that
  engine out (`Watches`): a stop that captured it or has yet to, a start or an attempt before its last look at the mark, a deletion that is to
  purge.  `StopSticks` is the case in which no flow is left.  It speaks of the sessions a control has gone on to take down (`stopped`), and needs no hypothesis; of every
  marked session it would be false, since a stop or a deletion refused at its entry leaves its mark on an engine it did not touch (`MarkMeansStopped`, section 5).
- *`OneWhileStarting`*, under `NoReconnects` (no drop, unlink or stuck authentication, hence no attempt): `Alone` says that an engine
  that was launched and not torn down is the registered one of its session, that the flows of kind `start` on one session are one, and that such a
  start finds the registry empty until it registers its own engine.  What makes it inductive is that the fences and the hooks of a start are awaits during which
  nobody else may register, because the reservation of `start()` turns every other start away.
- *`SparedWhileStarting`* adds `Fenced`: ids that share the name are present one at a time, an engine whose removal is pending is not registered or
  is the one registered, and a start of its session is either waiting for that very removal or past registering.  Between the end of its fence and its
  registration no removal of its session may begin, since no engine is registered that could be logged out.
- *`OneWhileReconnecting`*, under `OneStart` (a single start request, whose launch does not drop before it returns): `Turns` says that the start, the
  attempts, the handling of a drop and the armed timer take turns.  At most one flow may act on the engine; while one does, nothing is armed and nothing runs
  (`Resting`); and what a flow finds registered is nothing or its own engine (`Finds`).  With a second start, or a stop followed by one, two flows launch at once
  (`Tracked` in section 5); with a launch that drops before `initialize()` returns and then hangs, the handler arms a timer
  under a start that is still on its way, whose deadline later evicts the engine of the attempt (`TimeoutEvictsOwn`).
- *`SparedWhileReconnecting`* adds `Waited`: no removal is pending while an engine is built, launching or up, nor past the fence of the flow that is
  to build it.  The stuck-authentication recovery is excluded because its removal is not fenced (section 5).

`Watched`, `Alone` and `Turns` were model-checked on the instances of `Stops`, `Controls` and `Reconnects` first.

**`OutgoingMessagesProofs`.**  One invariant, local to a message (`Fine`), carries all four properties; `OthersSame` says that no step touches a second
message.  `RequestFine` says where the sender's row is at each place of the request; `RaceFine` that the two rows never both carry
the engine's id, so that `Holder` is unambiguous, and that a merge is only on its way where the echo's row exists; `FailedFine` for what reason a row may be
FAILED; `ChainFine` that what the head of the chain has read is what it will find when it writes, unless a merge crossed it; `SoundFine` that a message no fault struck is in the
table from its echo on, with its bytes.  `OneCopy` and `ContentKept` are what `SoundFine` and `RaceFine` say once the sender is done, and
`OnlyMergesRegress` follows from the invariant by the guards of the receipts (`AckFrom`) and of the reaper.

**`BulkBatchesProofs`.**  What a row claims is written from three kinds of stale reads: the counters a driver carries
across its awaits, the progress a cancel read before its UPDATE, and the whole row a reaper read.  `IInv` says that each of them adds
up and claims no message that was not sent (`DriverFine`, `CallFine`, `ReapFine`), that no row but a cancelled or removed one counts
cancelled messages (otherwise the reconciliation at the end would drop them), and that a flag is on under a driver at work only; the slots
are a cardinality argument.  `CancelsStick` then needs the guards of the writes alone.  `CancelStops` needs a second invariant: after a
peer's cancel the driver has sent at most the items since its last write (`Pos`, a remainder by `SaveEvery`, which grows by one where
nothing is written: `PosGrows`), and from the moment a cancel of this process has read the row its flag is off or its driver has ended
(`Reached`), so that no further item starts after the UPDATE.  Both invariants were model-checked on the instance of `Batches` first.

**`IngressDeliveryProofs`.**  `Kept` is not inductive.  A letter is closed on the word of a job queued before, and that job may have ended
since and left a letter of its own, which another redrive closed on the word of another job, and so on.  What ends the chain is that a new letter
is numbered above all of its delivery (`Saves`): `IInv` says that a delivery whose job exists under the id of letter *n* is handled, forsaken, still tried by a worker, or has an
open letter numbered above *n* (`Covered(e, n)`; 0 for the other jobs and for a row that is no longer pending), and the same of the letter a redrive replays from the moment its
replay is accepted (`FlowFine`).  `Steady` says that a step uncovers nothing, and has a proof of its own for the steps
that take something away: the end of a job, a restart, the two closings of letters.  The invariant was model-checked on the instance of `Ingress` first.
`SettledStays` needs only that a flow works on items that fit it.  `MaxLetters` is a guard of `Save`; on the instance of `Ingress` it never holds a step back (with 9
in place of 8 the states are the same).

**`BaileysConnectionProofs`.**  The invariant ties the latch, the timer, the attempt and the socket together: a timer is set only
when nothing is connected and no attempt runs, unless a close was doubled; an attempt started before a stop finds the latch
when it resumes; whoever removes credentials is the logout that was acknowledged or a close that said the device is unlinked.
`OneSocket` needs all of it, because an attempt creates a socket without looking for another.

**`WebhookDeliveryProofs`.**  Two halves.  `SlotsKept` is inductive with the types (`Limits`): the lemmas follow what each kind of step
does to the set of deliveries that hold a slot (`Held`) and to the queue, by the cardinality of sets that gain or lose one element and by
what `Head`, `Tail` and `Append` do to a sequence without repetitions (`TailSet`, `AppendSet`).  `Fine(d)` is local to one delivery: what is over and not
`Given` has a live job; a delivery that is not echoed has no job before it left the process and was not answered while its job may
be tried again; a parked delivery rejected at close is booked.  `FineApart` carries it over to the deliveries a step is not about.  The halves meet in
`DrainedGives`: a drain ends with `active = 0`, so no slot is held, so (a delivery parks only while every slot is taken, and there is one)
none is parked, and what is left is a lookup or a refusal.

**`PluginRuntimeProofs`.**  The invariant says for each place of an operation what is on the disk, in the loader's map, in the registries and running,
and for each generation that its in-flight count is the number of events open on it (again a cardinality argument), which is what
lets a host be dropped.  A crash in the middle of a rename is a case of its own in `NeverVanishes`.

**What only TLC checks.**  Liveness (`Healing`, `DeadEngineLeaves`, `ProcessingEnds`, the two `Concludes`, `Resolves`, `ReadShown`, `Progress`,
`EverythingEnds`) and
whatever depends on `ENABLED` is out of the prover's reach, as is induction over data
and everything that reaches a RECURSIVE operator; no module here declares one.
Every invariant and every action property that a run checks is proved, those of `EngineLifecycle` under
the hypotheses above: `SoleEngine` and `CredentialsSpared` do not hold for requests mixed with reconnects (section 5), where `NoRearm` and
`StopSticks` are what is left to say.

## 5. Where the code does something else than it says

The modules state claims of comments and documents, in their last section, that no run
lists because the code does not keep them.  TLC refutes each with the constants given:

| claim | says | `Requests`, `Faults` | bounds |
|---|---|---|---|
| `ReleaseSparesEngine` | `stop()` does not release a claim under a start in flight | start, stop | 2, 0 |
| `SweepSparesStopped` | a takeover does not restart what the operator stopped | stop; crash | 1, 1 |
| `CleanStopReleases` | a cleanly stopped session is never lapsed | start, stop | 2, 0 |
| `ShutdownReleasesDown` | claims are released once the engines are down | start, shutdown | 2, 0 |
| `ActivityCoversAttempt` | `isEngineActive()` while an attempt runs | drop, launch | 0, 2 |
| `DeleteSparesPeer` | a delete does not remove the row a peer runs | start, delete | 2, 0 |
| `DeletedHasNoEngine` | a delete that races a launch leaks no engine | start, delete | 2, 0 |
| `LossHeals` | a lost claim's engine goes at the next heartbeat | start; lapse | 1, 1 |
| `StopHasLastWord` | the stop is the last to write the status | start, stop | 2, 0 |
| `CatchReapsOwn` | the catch of `start()` reaps its own engine | start; early | 1, 1 |
| `TimeoutEvictsOwn` | a launch deadline evicts its own engine | start; early, hang | 1, 2 |
| `DeletedLeavesNothing` | no credentials, and no engine, outlive the row | start, delete; hang | 2, 1 |
| `Tracked` | every engine that runs is in the registry | start, stop; drop | 3, 1 |
| `CredentialsSpared` | with the stuck-authentication recovery | start, stop; stuck | 3, 1 |
| `DeadEngineLeaves` | when the read of the session fails during a drop | start; drop, query | 1, 2 |
| `DeadEngineLeaves` | when a deletion is refused half way | start, delete; unlink, slow | 2, 1 |
| `MarkMeansStopped` | a session marked as stopped has no engine | start, stop; query | 2, 1 |
| `DeletedStaysGone` | the batches of a deleted session are removed for good | stop, delete | 2, 0 |
| `NeverLost` | an acknowledged delivery is handled or kept | query; or none, with 2 instances | 0, 1; 0, 0 |
| `NeverStarved` | a pending row of an enabled instance is replayed | reject | 0, 0 |

(`LossHeals`, `DeletedHasNoEngine`, `DeadEngineLeaves` and `NeverStarved` under `FairSpec`; 2 processes and 1 session
for the first eight, 1 session and up to 3 flows and 4 engines for the next nine, 1 batch, and 1 delivery id for the last
two: `Earlier` is empty for `NeverLost`; for `NeverStarved` there are 2 instances, a row of the one lies before the
other's, and a sweep takes one row.)  In more words:

- `Tracked`: a stop and a start during the teardown of a reconnect attempt that already
  fired leave two flows launching (`session/session-engine-lifecycle.service.ts:534`, against the comment at
  `session/session-engine-controls.ts:176`); the later registration overwrites the earlier engine, which then runs
  without being in the registry.
- `CredentialsSpared` with neither recovery nor reconnect, but for its last exception (`Orphan`): a deletion that commits while a start is past its last look at
  the row (`session/session-engine-controls.ts:506`) leaves the engine that start builds under a name that may now be created and started again; the two engines share one directory, and a
  logout of the successor removes it under the engine of the deleted session.
- `MarkMeansStopped`: a stop and a deletion mark the session first (`session/session.service.ts:373` and `:328`), and the fence (`:374`, `:329`) or
  `requireSession` (`session/session-engine-controls.ts:260`, `:416`) behind the mark may reject.  The comment calls the mark
  "harmless", "cleared by the next `start()`" (`session/session.service.ts:326`): but the engine runs on, its next drop is
  not reconnected, and a `start()` before the drop is refused because the engine is registered.  `StopSticks` therefore speaks of
  the stops that got past both (`stopped`).
- `NeverStarved`: a sweep takes the oldest rows up to its batch size (`integration/ingress-reconciler.service.ts:107`), and then skips those of
  disabled or deleted instances, and those without a payload, as they are (`:122`): they hold their places until the
  retention deletes them, and while they fill the batch no row behind them is replayed.  The comment at `:113` bounds only the
  rows that cool down.  `Concludes` exempts a delivery behind such a row.
- `DeletedStaysGone`: the batch of a session deleted while it sends re-inserts its own row at the end
  (`message/bulk-message.service.ts:590`, against `session/session-engine-controls.ts:490`).
- `NeverLost`: a replay of the reconciler retires the only dead letter although the queue ignored its job, whose id
  it keeps for a day (`integration/ingress-reconciler.service.ts:185`); and two instances that receive the same delivery
  id share a job id, so that one delivery is dropped (`integration/ingress-enqueue.service.ts:105`).

Met while modelling, and visible in the models:

- *Baileys*: a doubled close arms a second timer whose attempt later tears down the socket that works (`doubled`); a terminal close
  (401, 440, 403) neither sets the latch nor clears a timer, so a second close with a transient code arms one after a close that is called terminal (`DropsAgain`); a QR that is rendered after a stop sets `QR_READY`.
- *Messages*: the merge writes the sender's status over the one a receipt had advanced (`OnlyMergeRegresses` names it, `ReadShown` says it heals
  when a read receipt comes after).
- *Plugins*: a plugin in ERROR that the operator had enabled stays off after an update until the next boot; a crash while a new version hangs in `onEnable` leaves the new version, because
  the boot drops the backup.

Met while modelling, and abstracted from:

- *Plugins*: stored state (`key-*.json`) is copied after the swap, so a crash between loses it; the recursive removal of a rollback or at the
  end of an update is not atomic, and a crash in it leaves a partial tree that the boot takes for the plugin, or a removal that fails triggers a rollback onto a half-deleted backup; the removal and the rename of a rollback may fail themselves, and do not in the model; the
  disable at shutdown is outside `serialize()`; a capability call that outlives its hook is no longer guarded against re-entrancy, and one that times out may land late.
- *CRM server*: the handover flag is read once at the start of a flow (`src/electron/crm-server/routes/automations.js:90`), so a flow that waits goes on after an agent took the chat; its run count is
  written from an old copy; a toggle that sends only `enabled` drops the rest of an automation; a broadcast poll never counts cancelled messages, so a cancelled batch never completes, a stale poll can take `completed`
  back, and a crash between the send and the save of its id leaves it pending; a send that times out is marked failed while the gateway runs it; a store that cannot be read is treated as empty and then written.
- *Import*: an import of a dump replaces tables under running sessions (`infra/infra-data.controller.ts:705`), and two sends may both read the count below a cap
  (`message/send-pacing.service.ts:316`).

The properties the runs check leave these cases out, and say so where they do (`CredentialsSpared`, `Kept`,
`OwnedLossHeals`, `StopSticks`, `Concludes`).  `Kept` names the four ways
a delivery is forsaken: the shared job id, the retired letter, a worker that cannot save its letter
(`queue/processors/ingress.processor.ts:76`), and a job that stalls once too often, for which no letter is
written.

Ingress is at-least-once: a plugin may see a delivery twice, and nothing here says
otherwise.  PENDING batches of a process that died are not resumed; `ProcessingEnds` speaks of PROCESSING.

## 6. What is not modelled

`PROJECT.json` has every part with its status and reason.  In short:

- *Planned* (section 7): the CRM server's automations and broadcasts.  Their store is read and rewritten in one
  turn, so what is left to check are the flows across waits and polls, most of which section 5 already answers in the negative.
- *Outside the steps that are modelled*: the mapping of messages, contacts and groups by the adapters, edits, revocations
  and inbound messages, the administration of webhooks and plugins, capability calls and stored state.
- *Left out of modelled parts*: the suspension of loss detection during a data import, HTTP draining, daily send caps, the
  watchdog's count of failed probes, ingress retention and its per-conversation lock, the browser.
- *No protocol to check*: groups, contacts, labels, templates, statistics (one call or query per request);
  authentication, audit and throttling (checks per request); real-time events (fire and forget); search (queries); storage,
  media and configuration (I/O); migrations; the user interfaces, SDKs, charts and scripts.
- *Elsewhere*: the Electron shell restarts a server that exits, which is the crash and the restart of three modules.

## 7. Plan

Modules, in order:

1. Capability calls of a plugin (`core/plugins/sandbox/capability-router.ts`): a call settles exactly once, whatever exits; composed with `PluginRuntime`.
2. `CrmAutomations` (`src/electron/crm-server/`): waits, handover and resume, broadcasts over the JSON store.
3. `BaileysConnection` composed with `EngineLifecycle`, whose drops and unlinks it refines.
4. The history and inbound paths of `messages` beside `OutgoingMessages`.

Theorems, in order: `SingleEngine` of `SessionOwnership` with start requests for a single session; `SoleEngine` of `EngineLifecycle` with stops of a
session that reconnects, but no second start.  Abstract specifications worth stating next, and proving implemented: a slot pool for the
drivers and the limiter, an inbox (received, then handled or kept) that `IngressDelivery` implements, and a session (down, coming, up) that
`EngineLifecycle` implements.
