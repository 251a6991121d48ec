--------------------------- MODULE IngressDelivery ---------------------------
(***************************************************************************)
(* Inbound deliveries of the integration fabric, from the ingress_events   *)
(* row persisted before the provider is answered to the plugin that        *)
(* handles them: the live path, the BullMQ queue and its worker, the       *)
(* dispatch inline when the queue is off or refuses, the reconciler of     *)
(* stranded rows, the dead letters and their redrive.                      *)
(*                                                                         *)
(* The live path, the reconciler and a redrive are flows that share        *)
(* enqueue(); an action is the code of a flow between two awaits.          *)
(***************************************************************************)
EXTENDS Naturals, FiniteSets

CONSTANTS Instance,    \* plugin instances
          Delivery,    \* the ids providers give: retries of one delivery share it
          Earlier,     \* deliveries of an earlier run, of instances disabled since
          Sweep,       \* the reconciler's flow
          MaxTries,    \* INGRESS_MAX_ATTEMPTS
          MaxReplays,  \* INGRESS_RECONCILE_MAX_ATTEMPTS
          SweepSize,   \* INGRESS_RECONCILE_BATCH_SIZE
          BatchSize,   \* REDRIVE_BATCH_SIZE
          MaxStalls,   \* how often BullMQ gives a stalled job back to a worker
          MaxLetters,  \* bound on the dead letters of a delivery
          Requests,    \* what operators do
          Faults,      \* what may go wrong
          MaxRequests, \* bound on the requests of a behaviour
          MaxFaults    \* bound on its faults

\* The dedup key of ingress_events (the plugin is part of the instance).
Event  == Instance \X Delivery
\* Rows of integration_delivery_failures; their ids are minted in order.
Letter == Event \X (1..MaxLetters)
\* Job ids: the provider's delivery id, or `redrive:<letter>`.
JobId  == Delivery \cup Letter
Actor  == Event \cup {Sweep} \cup Instance

ASSUME IngressAssumption ==
    /\ IsFiniteSet(Instance) /\ IsFiniteSet(Delivery) /\ Earlier \subseteq Event
    /\ MaxTries \in Nat \ {0} /\ MaxReplays \in Nat \ {0}
    /\ SweepSize \in Nat \ {0} /\ BatchSize \in Nat \ {0} /\ MaxStalls \in Nat
    /\ MaxLetters \in Nat \ {0} /\ MaxRequests \in Nat /\ MaxFaults \in Nat
    /\ Requests \subseteq {"redrive", "toggle"}
    /\ Faults \subseteq {"reject", "echo", "query", "unsaved", "crash"}
    /\ Sweep \notin Event \cup Instance /\ Event \cap Instance = {} /\ Delivery \cap Letter = {}

VARIABLES
    row,       \* ingress_events: dispatchState and dispatchAttempts, the rows that are older
               \* (createdAt), the last attempt within the grace period; a payload while pending
    letters,   \* integration_delivery_failures
    open,      \* those not redriven
    job,       \* the ingress queue in Redis
    flow,      \* what each flow is doing
    enabled,   \* instances not disabled
    up,        \* the process runs
    handled,   \* ghost: deliveries the plugin handled, as far as the host was told
    forsaken,  \* ghost: deliveries given up in one of the four ways Kept excuses
    requests, faults

store == <<row, letters, open>>
ghost == <<handled, forsaken>>
bound == <<requests, faults>>
vars  == <<row, letters, open, job, flow, enabled, up, handled, forsaken, requests, faults>>

State == {"absent", "pending", "dispatched", "failed"}
PC    == {"idle", "next", "add", "inline", "queued", "dispatched", "failed", "letter", "retire",
          "exhaust"}
Todo  == [event : Event, attempts : 0..MaxReplays + 1, letter : 0..MaxLetters]
NoJob == [state |-> "none"]
Idle  == [pc |-> "idle"]

TypeOK ==
    /\ row \in [Event -> [state : State, attempts : 0..MaxReplays + 1,
                         older : SUBSET Event, cooling : BOOLEAN]]
    /\ letters \subseteq Letter /\ open \subseteq letters
    /\ job \in [JobId -> {NoJob} \cup
                         [state : {"waiting", "active", "lettered", "ended"},
                          event : Event, tries : 0..MaxTries - 1, stalls : 0..MaxStalls]]
    /\ flow \in [Actor -> {Idle} \cup [pc : {"next"}, todo : SUBSET Todo]
                             \cup [pc : PC \ {"idle", "next"}, work : Todo, todo : SUBSET Todo]]
    /\ enabled \subseteq Instance /\ up \in BOOLEAN
    /\ handled \subseteq Event /\ forsaken \subseteq Event
    /\ requests \in 0..MaxRequests /\ faults \in 0..MaxFaults

\* The orders in which the rows of the earlier run may have been created.
Orders == {o \in [Event -> SUBSET Earlier] :
             /\ \A e \in Event \ Earlier : o[e] = {}
             /\ \A e, d \in Earlier : (d \in o[e]) = (e # d /\ e \notin o[d])
             /\ \A e \in Earlier : \A d \in o[e] : o[d] \subseteq o[e]}

\* The earlier run handled some of its deliveries and left the others pending.
Init ==
    /\ \E o \in Orders, left \in SUBSET Earlier :
         /\ row = [e \in Event |->
                     [state |-> IF e \in left THEN "pending"
                                ELSE IF e \in Earlier THEN "dispatched" ELSE "absent",
                      attempts |-> 0, older |-> o[e], cooling |-> FALSE]]
         /\ handled = Earlier \ left
    /\ letters = {} /\ open = {}
    /\ job = [k \in JobId |-> NoJob]
    /\ flow = [a \in Actor |-> Idle]
    /\ enabled = Instance \ {e[1] : e \in Earlier} /\ up = TRUE
    /\ forsaken = {}
    /\ requests = MaxRequests /\ faults = MaxFaults

-----------------------------------------------------------------------------
\* What the flows share.

Request(r) == r \in Requests /\ requests > 0 /\ requests' = requests - 1 /\ UNCHANGED faults
Fault(x)   == x \in Faults /\ faults > 0 /\ faults' = faults - 1 /\ UNCHANGED requests

Work(a)  == flow[a].work
At(a, pc) == up /\ flow[a].pc = pc
Goto(a, pc) == flow' = [flow EXCEPT ![a].pc = pc]
\* A flow enqueues w; it is left with these rows of its batch, or ends.
Begin(a, w, rest) == flow' = [flow EXCEPT ![a] = [pc |-> "add", work |-> w, todo |-> rest]]
Rest(a, rest) == flow' = [flow EXCEPT ![a] = IF rest = {} THEN Idle
                                             ELSE [pc |-> "next", todo |-> rest]]
Leave(a) == Rest(a, flow[a].todo)

LettersOf(e) == {l \in letters : l[1] = e}
NewLetter(e) == <<e, Cardinality(LettersOf(e)) + 1>>
\* failures.save(): a dead letter that may be redriven. MaxLetters bounds them.
Save(e) == /\ Cardinality(LettersOf(e)) < MaxLetters
           /\ letters' = letters \cup {NewLetter(e)} /\ open' = open \cup {NewLetter(e)}

-----------------------------------------------------------------------------
\* enqueue().

\* The id of the job: a redrive mints its own, the others take the provider's.
KeyOf(a) == LET w == Work(a) IN IF a \in Instance THEN <<w.event, w.letter>> ELSE w.event[2]

\* Queue.add(): BullMQ ignores an id it has, also that of an ended job until it evicts
\* it (removeOnComplete, removeOnFail).
Put(a) ==
    LET k == KeyOf(a)  e == Work(a).event IN
    \/ /\ job[k].state \in {"none", "ended"}
       /\ job' = [job EXCEPT ![k] = [state |-> "waiting", event |-> e, tries |-> 0, stalls |-> 0]]
       /\ UNCHANGED ghost
    \/ /\ job[k].state # "none"
       /\ forsaken' = IF job[k].event # e THEN forsaken \cup {e} ELSE forsaken
       /\ UNCHANGED <<job, handled>>

Add(a) ==
    /\ At(a, "add") /\ Put(a) /\ Goto(a, "queued")
    /\ UNCHANGED <<store, enabled, up, bound>>

\* Redis is unreachable for as long as it likes, or the queue is off.
Outage == "reject" \in Faults

\* add() rejects, before it wrote the job or after.
AddRejected(a) ==
    /\ At(a, "add") /\ Goto(a, "inline")
    /\ \/ Outage /\ UNCHANGED <<job, ghost, bound>>
       \/ Fault("echo") /\ Put(a)
    /\ UNCHANGED <<store, enabled, up>>

\* The inline dispatch: the plugin's worker may be gone, fail, or time out.
Inline(a) ==
    /\ At(a, "inline")
    /\ \/ Goto(a, "dispatched") /\ handled' = handled \cup {Work(a).event}
       \/ Goto(a, "failed") /\ UNCHANGED handled
    /\ UNCHANGED <<store, job, enabled, up, forsaken, bound>>

Accepted(a) == At(a, "queued") \/ At(a, "dispatched")

-----------------------------------------------------------------------------
\* The live path.

\* A delivery that passed the checks is persisted, unless its key is there already.
Receive(e) ==
    /\ up /\ e[1] \in enabled /\ row[e].state = "absent"
    /\ row' = [row EXCEPT ![e].state = "pending",
                          ![e].older = {d \in Event : row[d].state # "absent"}]
    /\ Begin(e, [event |-> e, attempts |-> 0, letter |-> 0], {})
    /\ UNCHANGED <<letters, open, job, enabled, up, ghost, bound>>

\* Mutant: the payload is retired whatever the outcome.
MarksRetiring(e) ==
    \/ /\ Accepted(e)
       /\ row' = [row EXCEPT ![e].state = "dispatched"]
       /\ Leave(e)
    \/ /\ At(e, "failed")
       /\ row' = [row EXCEPT ![e].state = "dispatched"]
       /\ Goto(e, "letter")

\* markDispatchOutcome(): a failure leaves the row pending, with its payload.
Marks(e) ==
    \/ /\ Accepted(e)
       /\ row' = [row EXCEPT ![e].state = "dispatched"]
       /\ Leave(e)
    \/ /\ At(e, "failed")
       /\ row' = [row EXCEPT ![e].attempts = @ + 1, ![e].cooling = TRUE]
       /\ Goto(e, "letter")

Mark(e) == Marks(e) /\ UNCHANGED <<letters, open, job, enabled, up, ghost, bound>>

DeadLetter(e) ==
    /\ At(e, "letter") /\ Save(e) /\ Leave(e)
    /\ UNCHANGED <<row, job, enabled, up, ghost, bound>>

\* Both writes are best-effort.
LiveWriteFails(e) ==
    /\ Fault("query")
    /\ \/ Accepted(e) /\ Leave(e)
       \/ At(e, "failed") /\ Goto(e, "letter")
       \/ At(e, "letter") /\ Leave(e)
    /\ UNCHANGED <<store, job, enabled, up, ghost>>

-----------------------------------------------------------------------------
\* The worker of the queue.

\* A job that ended, completed or failed, is kept under its id.
Ended(k) == [state |-> "ended", event |-> job[k].event, tries |-> 0, stalls |-> 0]
End(k)   == job' = [job EXCEPT ![k] = Ended(k)]

Take(k) ==
    /\ up /\ job[k].state = "waiting"
    /\ job' = [job EXCEPT ![k].state = "active"]
    /\ UNCHANGED <<store, flow, enabled, up, ghost, bound>>

JobDone(k) ==
    /\ up /\ job[k].state = "active"
    /\ End(k)
    /\ handled' = handled \cup {job[k].event}
    /\ UNCHANGED <<store, flow, enabled, up, forsaken, bound>>

Final(k) == job[k].tries + 1 >= MaxTries

\* A failed attempt goes back to the queue, after its backoff.
JobRetried(k) ==
    /\ up /\ job[k].state = "active" /\ ~Final(k)
    /\ job' = [job EXCEPT ![k].state = "waiting", ![k].tries = @ + 1]
    /\ UNCHANGED <<store, flow, enabled, up, ghost, bound>>

\* The final attempt failed: the dead letter is saved, then BullMQ fails the job.
JobLettered(k) ==
    /\ up /\ job[k].state = "active" /\ Final(k)
    /\ Save(job[k].event)
    /\ job' = [job EXCEPT ![k].state = "lettered"]
    /\ UNCHANGED <<row, flow, enabled, up, ghost, bound>>

JobFailed(k) ==
    /\ up /\ job[k].state = "lettered" /\ End(k)
    /\ UNCHANGED <<store, flow, enabled, up, ghost, bound>>

\* The dead letter could not be saved.
JobUnlettered(k) ==
    /\ up /\ job[k].state = "active" /\ Final(k) /\ Fault("unsaved")
    /\ End(k)
    /\ forsaken' = forsaken \cup {job[k].event}
    /\ UNCHANGED <<store, flow, enabled, up, handled>>

Worker(k) == Take(k) \/ JobDone(k) \/ JobRetried(k) \/ JobLettered(k) \/ JobFailed(k)

-----------------------------------------------------------------------------
\* The reconciler.

\* Mutant: rows that were given up are swept as well.
StaleOrFailed == {e \in Event : row[e].state \in {"pending", "failed"} /\ flow[e] = Idle}

\* Rows past the grace period, which is long enough for the live path to be over.
Stale == {e \in Event : row[e].state = "pending" /\ flow[e] = Idle}

\* What one sweep loads: the oldest SweepSize of them.
Oldest == {e \in Stale : Cardinality(row[e].older \cap Stale) < SweepSize}

\* A row that is cooling down is skipped, and has had its place in the batch.
SweepStart ==
    /\ At(Sweep, "idle") /\ Oldest # {}
    /\ Rest(Sweep, {[event |-> e, attempts |-> row[e].attempts, letter |-> 0] :
                       e \in {d \in Oldest : ~row[d].cooling}})
    /\ UNCHANGED <<store, job, enabled, up, ghost, bound>>

\* The grace period since the last attempt passes.
CoolsDown(e) ==
    /\ row[e].cooling
    /\ row' = [row EXCEPT ![e].cooling = FALSE]
    /\ UNCHANGED <<letters, open, job, flow, enabled, up, ghost, bound>>

\* The next row of the batch; one whose instance is gone or disabled is skipped.
SweepNext ==
    /\ At(Sweep, "next")
    /\ \E w \in flow[Sweep].todo :
          LET rest == flow[Sweep].todo \ {w} IN
          IF w.event[1] \in enabled THEN Begin(Sweep, w, rest) ELSE Rest(Sweep, rest)
    /\ UNCHANGED <<store, job, enabled, up, ghost, bound>>

Replays == Work(Sweep).attempts + 1
Terminal == Replays >= MaxReplays

\* reconcileRow() after enqueue().
SweepMarks ==
    /\ Accepted(Sweep)
    /\ row' = [row EXCEPT ![Work(Sweep).event].state = "dispatched"]
    /\ Goto(Sweep, "retire")
    /\ UNCHANGED <<letters, open, job, enabled, up, ghost, bound>>

\* The letters of the live path, as delivered by the replay; and, if the replay was
\* queued, the letter of a job that has failed since or had already.
SweepRetires ==
    /\ At(Sweep, "retire")
    /\ LET e == Work(Sweep).event IN
       /\ open' = open \ LettersOf(e)
       /\ forsaken' = IF open' # open /\ e \notin handled THEN forsaken \cup {e} ELSE forsaken
    /\ Leave(Sweep)
    /\ UNCHANGED <<row, letters, job, enabled, up, handled, bound>>

\* Mutant: the replay is not counted.
SweepBacksOffUncounted == At(Sweep, "failed") /\ ~Terminal /\ Leave(Sweep)
                          /\ UNCHANGED <<store, job, enabled, up, ghost, bound>>

SweepBacksOff ==
    /\ At(Sweep, "failed") /\ ~Terminal
    /\ row' = [row EXCEPT ![Work(Sweep).event].attempts = Replays,
                          ![Work(Sweep).event].cooling = TRUE]
    /\ Leave(Sweep)
    /\ UNCHANGED <<letters, open, job, enabled, up, ghost, bound>>

\* ensureDeadLetterRow(): one only if there is none yet.
SweepLetters ==
    /\ At(Sweep, "failed") /\ Terminal
    /\ IF LettersOf(Work(Sweep).event) = {} THEN Save(Work(Sweep).event)
       ELSE UNCHANGED <<letters, open>>
    /\ Goto(Sweep, "exhaust")
    /\ UNCHANGED <<row, job, enabled, up, ghost, bound>>

SweepExhausts ==
    /\ At(Sweep, "exhaust")
    /\ row' = [row EXCEPT ![Work(Sweep).event].state = "failed",
                          ![Work(Sweep).event].attempts = Replays]
    /\ Leave(Sweep)
    /\ UNCHANGED <<letters, open, job, enabled, up, ghost, bound>>

\* A query that fails ends the row's turn, and leaves the row as it is.
SweepQueryFails ==
    /\ Accepted(Sweep) \/ At(Sweep, "retire") \/ At(Sweep, "failed") \/ At(Sweep, "exhaust")
    /\ Fault("query") /\ Leave(Sweep)
    /\ UNCHANGED <<store, job, enabled, up, ghost>>

-----------------------------------------------------------------------------
\* A redrive of an instance's dead letters.

\* As many as a batch takes; which come first is left open.
Batches(S) == {B \in SUBSET S : Cardinality(B) = IF Cardinality(S) < BatchSize
                                                 THEN Cardinality(S) ELSE BatchSize}

RedriveStart(i) ==
    /\ Request("redrive") /\ At(i, "idle") /\ (\E l \in open : l[1][1] = i)
    /\ \E batch \in Batches({l \in open : l[1][1] = i}) :
          Rest(i, {[event |-> l[1], attempts |-> 0, letter |-> l[2]] : l \in batch})
    /\ UNCHANGED <<store, job, enabled, up, ghost>>

RedriveNext(i) ==
    /\ At(i, "next")
    /\ \E w \in flow[i].todo : Begin(i, w, flow[i].todo \ {w})
    /\ UNCHANGED <<store, job, enabled, up, ghost, bound>>

\* The event's row first, if the reconciler has not closed it; then the letter.
RedriveMarks(i) ==
    /\ Accepted(i)
    /\ LET e == Work(i).event IN
       row' = IF row[e].state = "pending" THEN [row EXCEPT ![e].state = "dispatched"] ELSE row
    /\ Goto(i, "retire")
    /\ UNCHANGED <<letters, open, job, enabled, up, ghost, bound>>

RedriveRetires(i) ==
    /\ At(i, "retire")
    /\ open' = open \ {<<Work(i).event, Work(i).letter>>}
    /\ Leave(i)
    /\ UNCHANGED <<row, letters, job, enabled, up, ghost, bound>>

\* A replay that failed leaves its letter open (its attempts only order the next batch).
RedriveFails(i) ==
    /\ At(i, "failed") /\ Leave(i)
    /\ UNCHANGED <<store, job, enabled, up, ghost, bound>>

\* A query that fails ends the whole batch.
RedriveQueryFails(i) ==
    /\ Accepted(i) \/ At(i, "failed") \/ At(i, "retire")
    /\ Fault("query") /\ flow' = [flow EXCEPT ![i] = Idle]
    /\ UNCHANGED <<store, job, enabled, up, ghost>>

-----------------------------------------------------------------------------
\* Instances and the process.

SetEnabled(i) ==
    /\ up
    /\ Request("toggle")
    /\ enabled' = IF i \in enabled THEN enabled \ {i} ELSE enabled \cup {i}
    /\ UNCHANGED <<store, job, flow, up, ghost>>

\* The flows are lost; Redis and the database are not.
Crash ==
    /\ up /\ Fault("crash")
    /\ up' = FALSE /\ flow' = [a \in Actor |-> Idle]
    /\ UNCHANGED <<store, job, enabled, ghost>>

\* A worker finds the jobs its predecessor held: stalled, given back or given up.
Held(k) == job[k].state \in {"active", "lettered"}
GivenUp(k) == Held(k) /\ job[k].stalls = MaxStalls

Restart ==
    /\ ~up /\ up' = TRUE
    /\ job' = [k \in JobId |->
                 IF GivenUp(k) THEN Ended(k)
                 ELSE IF Held(k) THEN [job[k] EXCEPT !.state = "waiting", !.stalls = @ + 1]
                 ELSE job[k]]
    /\ forsaken' = forsaken \cup {job[k].event : k \in {h \in JobId : GivenUp(h) /\ job[h].state = "active"}}
    /\ UNCHANGED <<store, flow, enabled, handled, bound>>

-----------------------------------------------------------------------------
Live(e) == Mark(e) \/ DeadLetter(e)
Sweeps == \/ SweepNext \/ SweepMarks \/ SweepRetires
          \/ SweepBacksOff \/ SweepLetters \/ SweepExhausts
Redrives(i) == RedriveNext(i) \/ RedriveMarks(i) \/ RedriveRetires(i) \/ RedriveFails(i)

Next ==
    \/ \E a \in Actor : Add(a) \/ AddRejected(a) \/ Inline(a)
    \/ \E e \in Event : Receive(e) \/ Live(e) \/ LiveWriteFails(e) \/ CoolsDown(e)
    \/ \E k \in JobId : Worker(k) \/ JobUnlettered(k)
    \/ SweepStart \/ Sweeps \/ SweepQueryFails
    \/ \E i \in Instance : RedriveStart(i) \/ Redrives(i) \/ RedriveQueryFails(i) \/ SetEnabled(i)
    \/ Crash \/ Restart

Spec == Init /\ [][Next]_vars

\* Awaited work returns, the worker takes jobs, time passes, the reconciler's timer fires,
\* and a process that stopped is started again.
FairSpec ==
    /\ Spec
    /\ \A a \in Actor : WF_vars(Add(a) \/ Inline(a))
    /\ \A e \in Event : WF_vars(Live(e)) /\ WF_vars(CoolsDown(e))
    /\ \A k \in JobId : WF_vars(Worker(k))
    /\ WF_vars(SweepStart) /\ WF_vars(Sweeps)
    /\ \A i \in Instance : WF_vars(Redrives(i))
    /\ WF_vars(Restart)

-----------------------------------------------------------------------------
\* Properties.

Queued(e) == \E k \in JobId : job[k] # NoJob /\ job[k].event = e
                                /\ job[k].state \in {"waiting", "active", "lettered"}

\* Where an acknowledged delivery may still be got from, if it was not handled yet.
Recoverable(e) == \/ row[e].state = "pending"
                  \/ Queued(e)
                  \/ \E l \in open : l[1] = e

\* A delivery the provider was acknowledged is handled, or kept where some retry
\* finds it, whatever crashes and failed writes interrupt its flows - but for four
\* ways to lose it: its job id is taken by another instance's delivery, a replay
\* retires the letter of the job it queued, the worker cannot save its letter, or
\* the job stalls once too often.
Kept == \A e \in Event : row[e].state # "absent" =>
            e \in handled \/ Recoverable(e) \/ e \in forsaken

\* What a flow is working on, or is about to.
Works(a) == IF flow[a] = Idle THEN {}
            ELSE IF flow[a].pc = "next" THEN flow[a].todo ELSE {Work(a)} \cup flow[a].todo
Busy(e) == \E a \in Actor : \E w \in Works(a) : w.event = e

\* A delivery that is settled - no row to sweep, no job, no letter to redrive and
\* no flow at work on it - stays so: the provider's retries, the sweeps and the
\* redrives of others never bring it back.
Settled(e) == row[e].state \in {"dispatched", "failed"} /\ ~Recoverable(e) /\ ~Busy(e)

StaysSettled == [][\A e \in Event : Settled(e) => Settled(e)']_vars

\* Rows of disabled instances are skipped as they are, and keep their places: as many
\* as a batch takes keep a younger row from ever being looked at.
Crowded(e) == Cardinality({d \in row[e].older : row[d].state = "pending" /\ d[1] \notin enabled})
                  >= SweepSize

\* No delivery is retried for ever, although its plugin may fail for ever: its row
\* leaves `pending`, and its jobs end, as long as its instance is enabled and the
\* rows of disabled ones leave it a place in the batch.
Moving(e) == (row[e].state = "pending" /\ e[1] \in enabled /\ ~Crowded(e)) \/ Queued(e)

Concludes == \A e \in Event : Moving(e) ~> ~Moving(e)

-----------------------------------------------------------------------------
\* What comments say of the program, and the program does not do.

\* ingress_events: an acknowledged delivery is owned by its row, its job or a letter.
NeverLost == \A e \in Event : row[e].state # "absent" => e \in handled \/ Recoverable(e)

\* The reconciler: every sweep takes the oldest pending rows, so none of an enabled
\* instance waits for ever.
NeverStarved == \A e \in Event : (row[e].state = "pending" /\ e[1] \in enabled)
                                 ~> (row[e].state # "pending" \/ e[1] \notin enabled)
=============================================================================
