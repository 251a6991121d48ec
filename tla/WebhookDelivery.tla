-------------------------- MODULE WebhookDelivery ---------------------------
(***************************************************************************)
(* One process delivering events to the webhooks that subscribe to them.   *)
(*                                                                         *)
(* A delivery (one event for one webhook) passes a limiter with a bounded  *)
(* queue, is built under the plugins' hook, and is then handed to Redis as *)
(* a job, or POSTed with retries where no queue is configured or its add   *)
(* was rejected.  What cannot be delivered is recorded in a failure row.   *)
(* A shutdown closes the limiter and drains for a bounded time.            *)
(***************************************************************************)
EXTENDS Naturals, Sequences, FiniteSets, SequencesExt

CONSTANTS Delivery,
          MaxActive, Places,      \* the limiter's slots; what its queue may be configured to hold
          Retries,                \* webhook.retryCount
          Modes,                  \* "direct", "queued": QUEUE_ENABLED
          Faults, MaxFaults,      \* what may go wrong, and how often
          MaxStops                \* how often the process is shut down

ASSUME WebhookAssumption ==
    /\ IsFiniteSet(Delivery)
    /\ MaxActive \in Nat \ {0} /\ Places \subseteq Nat /\ Places # {} /\ Retries \in Nat \ {0}
    /\ Modes \subseteq {"direct", "queued"} /\ Modes # {}
    /\ Faults \subseteq {"add", "echo", "query", "insert", "touch", "crash"}
    /\ MaxFaults \in Nat /\ MaxStops \in Nat

VARIABLES
    mode, places,   \* the configuration: with or without the queue, the limiter's places
    life,           \* the process: "up", "draining", "down"
    flow, try,      \* where each delivery is, and the attempt of a direct POST
    active, waiters, closed,   \* the ConcurrencyLimiter
    booked,         \* pendingBookkeeping: rejected by close(), not yet recorded
    job,            \* the jobs in Redis
    seen, again,    \* ghost: deliveries answered 2xx; those POSTed or recorded after it
    letters,        \* the deliveries with a failure row
    waived,         \* ghost: the deliveries given up in a way that leaves no row
    echoed,         \* ghost: the deliveries whose rejected add reached Redis
    faults, stops   \* the budgets that remain

config  == <<mode, places>>
limiter == <<active, waiters, closed>>
record  == <<seen, again, letters, waived, echoed, faults>>
vars == <<mode, places, life, flow, try, active, waiters, closed, booked, job, seen, again,
          letters, waived, echoed, faults, stops>>

Flow == {"idle", "lookup", "parked", "running", "enqueue", "post", "backoff",
         "record", "refused", "note", "done"}
Holding == {"running", "enqueue", "post", "backoff", "record"}   \* in a limiter task
Job == [state : {"none", "waiting", "active", "answered", "lettering", "throwing",
                 "completed", "failed"},
        tries : 0..Retries, stalls : 0..2]
InHand == {"active", "answered", "lettering", "throwing"}   \* with the worker
NoJob == [state |-> "none", tries |-> 0, stalls |-> 0]

At(d, f) == flow[d] = f
Goto(d, f) == flow' = [flow EXCEPT ![d] = f]
Waive(d) == waived' = waived \cup {d}
Repeated(d) == again' = IF d \in seen THEN again \cup {d} ELSE again
Fault(kind) == faults > 0 /\ kind \in Faults /\ faults' = faults - 1

Init == /\ mode \in Modes /\ places \in Places /\ life = "up"
        /\ flow = [d \in Delivery |-> "idle"] /\ try = [d \in Delivery |-> 1]
        /\ active = 0 /\ waiters = <<>> /\ closed = FALSE /\ booked = {}
        /\ job = [d \in Delivery |-> NoJob]
        /\ seen = {} /\ again = {} /\ letters = {}
        /\ waived = {} /\ echoed = {}
        /\ faults = MaxFaults /\ stops = MaxStops

-----------------------------------------------------------------------------
(* The limiter (common/utils/concurrency-limiter.ts).                      *)

\* Mutant: the slot is freed and the waiter woken takes one of its own.
FinishFreeing(d, f) ==
    /\ active' = active - 1
    /\ waiters' = IF waiters = <<>> THEN <<>> ELSE Tail(waiters)
    /\ flow' = [e \in Delivery |-> IF e = d THEN f
                  ELSE IF waiters # <<>> /\ e = Head(waiters) THEN "running" ELSE flow[e]]
    /\ UNCHANGED closed

\* A task ends: its slot passes to the first waiter, or is released.
Finish(d, f) ==
    /\ IF waiters = <<>>
         THEN /\ active' = active - 1
              /\ Goto(d, f) /\ UNCHANGED waiters
         ELSE /\ flow' = [flow EXCEPT ![d] = f, ![Head(waiters)] = "running"]
              /\ waiters' = Tail(waiters) /\ UNCHANGED active
    /\ UNCHANGED closed

\* run(): refused when closed or full, started on a free slot, parked otherwise.
Admit(d) ==
    \/ /\ closed
       /\ Goto(d, "note") /\ booked' = booked \cup {d} /\ UNCHANGED limiter
    \/ /\ ~closed /\ active < MaxActive
       /\ Goto(d, "running") /\ active' = active + 1 /\ UNCHANGED <<waiters, closed, booked>>
    \/ /\ ~closed /\ active >= MaxActive /\ Len(waiters) >= places
       /\ Goto(d, "refused") /\ UNCHANGED <<limiter, booked>>
    \/ /\ ~closed /\ active >= MaxActive /\ Len(waiters) < places
       /\ Goto(d, "parked") /\ waiters' = Append(waiters, d)
       /\ UNCHANGED <<active, closed, booked>>

-----------------------------------------------------------------------------
(* A delivery in the process (webhook.service.ts).                         *)

Running == life # "down"

\* An event happens: dispatch() looks the webhooks up.
Dispatch(d) ==
    /\ Running /\ At(d, "idle")
    /\ Goto(d, "lookup")
    /\ UNCHANGED <<config, stops, life, try, limiter, booked, job, record>>

\* A failing lookup is logged, a webhook that does not match is left out; the
\* others enter the limiter.
LookedUp(d) ==
    /\ Running /\ At(d, "lookup")
    /\ \/ Admit(d) /\ UNCHANGED <<waived, faults>>
       \/ /\ Goto(d, "done") /\ Waive(d) /\ UNCHANGED <<limiter, booked>>
          /\ UNCHANGED faults \/ Fault("query")
    /\ UNCHANGED <<config, stops, life, try, job, seen, again, letters, echoed>>

\* preflightDelivery: a plugin may cancel; a payload that cannot be built or is too
\* large is recorded as undelivered.
Preflight(d) ==
    /\ Running /\ At(d, "running")
    /\ \/ /\ Goto(d, IF mode = "queued" THEN "enqueue" ELSE "post")
          /\ UNCHANGED <<limiter, waived>>
       \/ Goto(d, "record") /\ UNCHANGED <<limiter, waived>>
       \/ Finish(d, "done") /\ Waive(d)
    /\ UNCHANGED <<config, stops, life, try, booked, job, seen, again, letters, echoed, faults>>

\* enqueueWithFallback: a rejected add falls back to a direct POST, and (echo) the
\* job may be in Redis all the same.
Enqueue(d) ==
    /\ Running /\ At(d, "enqueue")
    /\ \/ /\ job' = [job EXCEPT ![d].state = "waiting"]
          /\ Finish(d, "done") /\ UNCHANGED <<echoed, faults>>
       \/ /\ Fault("add")
          /\ Goto(d, "post") /\ UNCHANGED <<limiter, job, echoed>>
       \/ /\ Fault("echo")
          /\ job' = [job EXCEPT ![d].state = "waiting"]
          /\ Goto(d, "post") /\ echoed' = echoed \cup {d} /\ UNCHANGED limiter
    /\ UNCHANGED <<config, stops, life, try, booked, seen, again, letters, waived>>

\* Mutant: a failing write of lastTriggeredAt counts as a failing delivery.
AnsweredTouching(d) ==
    \/ /\ seen' = seen \cup {d} /\ try' = [try EXCEPT ![d] = 1]
       /\ Finish(d, "done") /\ UNCHANGED faults
    \/ /\ Fault("touch")
       /\ seen' = seen \cup {d}
       /\ Goto(d, "backoff") /\ UNCHANGED <<try, limiter>>

\* A 2xx settles the delivery, whether or not lastTriggeredAt can be written.
Answered(d) == /\ seen' = seen \cup {d} /\ try' = [try EXCEPT ![d] = 1]
               /\ Finish(d, "done") /\ UNCHANGED faults

\* Mutant: the attempt is not counted.
RefusedUncounted(d) ==
    Goto(d, IF try[d] < Retries THEN "backoff" ELSE "record") /\ UNCHANGED try

\* An answer other than 2xx, or none in time (the receiver may have got the request),
\* is retried after a pause and recorded after the last attempt.
Refused(d) ==
    IF try[d] < Retries
      THEN Goto(d, "backoff") /\ try' = [try EXCEPT ![d] = @ + 1]
      ELSE Goto(d, "record") /\ try' = [try EXCEPT ![d] = 1]

\* deliverWebhook: one attempt of a direct delivery.
Post(d) ==
    /\ Running /\ At(d, "post")
    /\ \/ Answered(d)
       \/ Refused(d) /\ UNCHANGED <<limiter, seen, faults>>
    /\ Repeated(d)
    /\ UNCHANGED <<config, stops, life, booked, job, letters, waived, echoed>>

Backoff(d) ==
    /\ Running /\ At(d, "backoff")
    /\ Goto(d, "post")
    /\ UNCHANGED <<config, stops, life, try, limiter, booked, job, record>>

\* recordWebhookDeliveryFailure: best effort.
Letter(d) == /\ Repeated(d)
             /\ \/ letters' = letters \cup {d} /\ UNCHANGED <<waived, faults>>
                \/ Fault("insert") /\ Waive(d) /\ UNCHANGED letters

\* The row of a delivery that failed in its task, which then ends.
Record(d) ==
    /\ Running /\ At(d, "record")
    /\ Letter(d) /\ Finish(d, "done")
    /\ UNCHANGED <<config, stops, life, try, booked, job, seen, echoed>>

\* The row of a delivery that the limiter refused or gave up at close().
Note(d) ==
    /\ Running /\ flow[d] \in {"refused", "note"}
    /\ Letter(d) /\ Goto(d, "done") /\ booked' = booked \ {d}
    /\ UNCHANGED <<config, stops, life, try, limiter, job, seen, echoed>>

-----------------------------------------------------------------------------
(* A delivery in the queue (queue/processors/webhook.processor.ts).        *)

Settled(d) == job[d].state \in {"none", "completed", "failed"}
SetJob(d, s) == job' = [job EXCEPT ![d].state = s]

TakeJob(d) ==
    /\ Running /\ job[d].state = "waiting"
    /\ SetJob(d, "active")
    /\ UNCHANGED <<config, stops, life, flow, try, limiter, booked, record>>

Final(d) == job[d].tries + 1 >= Retries

\* What becomes of a job whose attempt failed.
NextState(d) == IF Final(d) THEN "lettering" ELSE "waiting"

\* process(): one attempt.  The last one to fail is recorded before it is thrown.
ProcessJob(d) ==
    /\ Running /\ job[d].state = "active"
    /\ Repeated(d)
    /\ \/ seen' = seen \cup {d} /\ SetJob(d, "answered")
       \/ /\ job' = [job EXCEPT ![d].state = NextState(d),
                                ![d].tries = IF Final(d) THEN @ ELSE @ + 1]
          /\ UNCHANGED seen
    /\ UNCHANGED <<config, stops, life, flow, try, limiter, booked, letters, waived, echoed, faults>>

\* The failure row of the last attempt, or of a job that stalled too often.
LetterJob(d) ==
    /\ Running /\ job[d].state = "lettering"
    /\ Letter(d) /\ SetJob(d, IF job[d].stalls = 2 THEN "failed" ELSE "throwing")
    /\ UNCHANGED <<config, stops, life, flow, try, limiter, booked, seen, echoed>>

\* process() has returned or thrown: BullMQ settles the job.
SettleJob(d) ==
    /\ Running /\ job[d].state \in {"answered", "throwing"}
    /\ SetJob(d, IF job[d].state = "answered" THEN "completed" ELSE "failed")
    /\ UNCHANGED <<config, stops, life, flow, try, limiter, booked, record>>

-----------------------------------------------------------------------------
(* Shutdown, crash, restart.                                               *)

\* Mutant: the deliveries rejected by close() are not waited for.
CloseUntracked == /\ flow' = [d \in Delivery |-> IF At(d, "parked") THEN "note" ELSE flow[d]]
                  /\ waiters' = <<>> /\ closed' = TRUE
                  /\ UNCHANGED <<active, booked>>

\* close(): every parked delivery is rejected, and its row is awaited.
Close == /\ flow' = [d \in Delivery |-> IF At(d, "parked") THEN "note" ELSE flow[d]]
         /\ booked' = booked \cup ToSet(waiters)
         /\ waiters' = <<>> /\ closed' = TRUE
         /\ UNCHANGED active

\* onModuleDestroy: direct deliveries are cut off, queued ones still enter Redis.
Shutdown ==
    /\ life = "up" /\ stops > 0
    /\ life' = "draining" /\ stops' = stops - 1
    /\ IF mode = "direct" THEN Close ELSE UNCHANGED <<flow, booked, limiter>>
    /\ UNCHANGED <<config, try, job, record>>

\* The worker is recording a job that BullMQ has failed already.
Orphaned(d) == job[d].state = "lettering" /\ job[d].stalls = 2

\* What the process held in memory is gone; a job it was running stalls.  `given' are
\* the deliveries that leave no row.
Vanish(given) ==
    /\ life' = "down"
    /\ flow' = [d \in Delivery |-> IF At(d, "idle") THEN "idle" ELSE "done"]
    /\ try' = [d \in Delivery |-> 1]
    /\ active' = 0 /\ waiters' = <<>> /\ closed' = FALSE /\ booked' = {}
    /\ waived' = waived \cup given \cup {d \in Delivery : Orphaned(d)}
    /\ UNCHANGED <<config, stops, job, seen, again, letters, echoed>>

\* The drain is over: no slot is held and no rejected delivery is unrecorded.  An
\* event still being looked up, or refused for want of a place, is not waited for.
Drained ==
    /\ life = "draining" /\ active = 0 /\ booked = {}
    /\ Vanish({d \in Delivery : flow[d] \in {"lookup", "refused"}})
    /\ UNCHANGED faults

InMemory == {d \in Delivery : flow[d] \notin {"idle", "done"}}

\* The drain's deadline passed: what holds a slot is named in the log, the rest gone.
DrainExpires ==
    /\ life = "draining" /\ (active > 0 \/ booked # {})
    /\ Vanish(InMemory)
    /\ UNCHANGED faults

Crash ==
    /\ Running /\ Fault("crash")
    /\ Vanish(InMemory)

\* BullMQ's stalled check: back to waiting once, then failed without process(),
\* which onWorkerFailed records (once: the event is not repeated).
Stalled(j) ==
    IF j.state = "lettering" /\ j.stalls = 2 THEN [j EXCEPT !.state = "failed"]
    ELSE IF j.state \in InHand
      THEN [j EXCEPT !.stalls = @ + 1, !.state = IF j.stalls = 0 THEN "waiting" ELSE "lettering"]
      ELSE j

Restart ==
    /\ life = "down"
    /\ life' = "up"
    /\ job' = [d \in Delivery |-> Stalled(job[d])]
    /\ UNCHANGED <<config, stops, flow, try, limiter, booked, record>>

Step(d) == \/ LookedUp(d) \/ Preflight(d) \/ Enqueue(d) \/ Post(d) \/ Backoff(d)
           \/ Record(d) \/ Note(d)
JobStep(d) == TakeJob(d) \/ ProcessJob(d) \/ LetterJob(d) \/ SettleJob(d)

Next == \/ \E d \in Delivery : Dispatch(d) \/ Step(d) \/ JobStep(d)
        \/ Shutdown \/ Drained \/ DrainExpires \/ Crash \/ Restart

Spec == Init /\ [][Next]_vars

\* Every await ends (WEBHOOK_TIMEOUT bounds a POST), the worker takes the jobs,
\* and a process that is down is started again.
FairSpec == /\ Spec
            /\ \A d \in Delivery : WF_vars(Step(d)) /\ WF_vars(JobStep(d))
            /\ WF_vars(Drained) /\ WF_vars(Restart)

-----------------------------------------------------------------------------
(* Properties.                                                             *)

\* Every variable keeps to its range.
TypeOK ==
    /\ mode \in Modes /\ places \in Places /\ life \in {"up", "draining", "down"}
    /\ flow \in [Delivery -> Flow] /\ try \in [Delivery -> 1..Retries]
    /\ active \in 0..MaxActive /\ closed \in BOOLEAN
    /\ ToSet(waiters) \subseteq Delivery /\ booked \subseteq Delivery
    /\ job \in [Delivery -> Job]
    /\ seen \subseteq Delivery /\ again \subseteq seen /\ letters \subseteq Delivery
    /\ waived \subseteq Delivery /\ echoed \subseteq Delivery
    /\ faults \in 0..MaxFaults /\ stops \in 0..MaxStops

\* The limiter's books are right whatever ends, parks or is rejected at close: the
\* count is the number of tasks running, a delivery parks only while every slot is
\* taken, no more park than there are places, and none is parked twice or forgotten.
SlotsKept ==
    /\ active = Cardinality({d \in Delivery : flow[d] \in Holding})
    /\ active <= MaxActive /\ Len(waiters) <= places
    /\ waiters # <<>> => active = MaxActive
    /\ ToSet(waiters) = {d \in Delivery : At(d, "parked")} /\ IsInjective(waiters)

\* A delivery that is over was answered 2xx, or has a failure row, or was given up in
\* a named way: not matched or its lookup failed (LookedUp), cancelled by a plugin
\* (Preflight), its row failed (Letter), cut off by a crash or an expired drain, or
\* still outside the limiter and its books when a drained process exited (Drained).
Accounted ==
    \A d \in Delivery :
        At(d, "done") /\ Settled(d)
        => d \in seen \/ d \in letters \/ d \in waived

\* A delivery that was answered 2xx is neither POSTed again nor recorded as failed,
\* unless its job is in Redis behind an add that was rejected, or had been answered
\* but not settled when its worker died.
AnswerIsFinal == \A d \in again : d \in echoed \/ job[d].stalls > 0

\* An event that is dispatched comes to its end: no delivery is parked, retried or
\* stalled for ever.
Concludes ==
    \A d \in Delivery :
        At(d, "lookup") ~> At(d, "done") /\ Settled(d)
=============================================================================
