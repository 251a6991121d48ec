----------------------------- MODULE BulkBatches -----------------------------
(***************************************************************************)
(* Bulk batches of one session: processBatch() drives each created batch   *)
(* through its items in the background, while cancelBatch() (of this       *)
(* process or of a peer on the same database), the removal of the session, *)
(* a crash, and the reapers of interrupted batches write the same row.     *)
(*                                                                         *)
(* One process is modelled, each of its actions being the code between two *)
(* awaits; its peers appear by what they do to the rows and the session.   *)
(***************************************************************************)
EXTENDS Naturals, FiniteSets

CONSTANTS Batch,
          StopOnError,    \* the batches that stop at their first failure
          Items,          \* messages of a batch
          SaveEvery,      \* items between two writes of the progress
          MaxConcurrent,  \* BULK_MAX_CONCURRENT_BATCHES, 0 for no limit
          Threshold,      \* consecutive failures that open the breaker
          Requests,       \* what operators and peers may do
          Faults,         \* what may go wrong
          MaxRequests,    \* bound on the requests of a behaviour
          MaxFaults       \* bound on its faults

ASSUME BulkAssumption ==
    /\ IsFiniteSet(Batch) /\ StopOnError \subseteq Batch
    /\ Items \in Nat \ {0} /\ SaveEvery \in Nat \ {0} /\ Threshold \in Nat \ {0}
    /\ MaxConcurrent \in Nat /\ MaxRequests \in Nat /\ MaxFaults \in Nat
    /\ Requests \subseteq {"cancel", "stop", "delete", "peer"}
    /\ Faults \subseteq {"refuse", "fail", "query", "crash", "lapse"}

VARIABLES
    row,       \* message_batches: status, counters and currentIndex
    driver,    \* processBatch(), for each batch
    flag,      \* processingBatches: no entry, on, or off
    inFlight,  \* inFlightBatches
    breaker,   \* consecutive failures of the session, Threshold when it is open
    process,   \* down, boot or up
    engine,    \* the session's engine is registered here
    peer,      \* a peer holds the session
    cancels,   \* cancelBatch() calls between their read and their UPDATE
    reaps,     \* batches a reaper has read as PROCESSING and not saved yet
    sends,     \* ghost: messages the engine accepted, for each batch
    late,      \* ghost: who cancelled the row, and the messages accepted while it is so
    requests, faults

ram   == <<driver, flag, inFlight, breaker>>
site  == <<process, engine, peer>>
calls == <<cancels, reaps>>
ghost == <<sends, late>>
bound == <<requests, faults>>
vars  == <<row, driver, flag, inFlight, breaker, process, engine, peer, cancels, reaps,
           sends, late, requests, faults>>

Progress == [sent : 0..Items, failed : 0..Items, pending : 0..Items, cancelled : 0..Items]
Status   == {"absent", "pending", "processing", "completed", "cancelled", "failed", "gone"}
Over     == {"completed", "cancelled", "failed"}
PC       == {"none", "saving", "pickup", "start", "noengine", "top", "gate", "sending", "progress",
             "reread", "final", "done", "threw", "crashed", "left"}
Idle     == {"none", "done", "threw", "crashed", "left"}

Fresh    == [sent |-> 0, failed |-> 0, pending |-> Items, cancelled |-> 0]
NoDriver == [pc |-> "none", index |-> 0, progress |-> Fresh, stopped |-> FALSE,
             lost |-> FALSE, cancelled |-> FALSE, verdict |-> "processing"]

TypeOK ==
    /\ row \in [Batch -> [status : Status, progress : Progress, index : 0..Items]]
    /\ driver \in [Batch -> [pc : PC, index : 0..Items, progress : Progress, stopped : BOOLEAN, lost : BOOLEAN, cancelled : BOOLEAN,
                             verdict : Over \cup {"processing"}]]
    /\ flag \in [Batch -> {"none", "on", "off"}]
    /\ inFlight \in Nat /\ breaker \in 0..Threshold
    /\ process \in {"down", "boot", "up"} /\ engine \in BOOLEAN /\ peer \in BOOLEAN
    /\ cancels \in SUBSET [batch : Batch, local : BOOLEAN, progress : Progress]
    /\ reaps \in SUBSET [batch : Batch, local : BOOLEAN, progress : Progress, index : 0..Items]
    /\ sends \in [Batch -> 0..Items]
    /\ late \in [Batch -> [by : {"nobody", "local", "peer"}, sends : 0..Items]]
    /\ requests \in Nat /\ faults \in Nat

Init ==
    /\ row = [b \in Batch |-> [status |-> "absent", progress |-> Fresh, index |-> 0]]
    /\ driver = [b \in Batch |-> NoDriver]
    /\ flag = [b \in Batch |-> "none"]
    /\ inFlight = 0 /\ breaker = 0
    /\ process = "up" /\ engine = TRUE /\ peer = FALSE
    /\ cancels = {} /\ reaps = {}
    /\ sends = [b \in Batch |-> 0]
    /\ late = [b \in Batch |-> [by |-> "nobody", sends |-> 0]]
    /\ requests = MaxRequests /\ faults = MaxFaults

-----------------------------------------------------------------------------
\* What the handlers share.

Request(r) == r \in Requests /\ requests > 0 /\ requests' = requests - 1 /\ UNCHANGED faults
Fault(x)   == x \in Faults /\ faults > 0 /\ faults' = faults - 1 /\ UNCHANGED requests

Exists(b)  == row[b].status \notin {"absent", "gone"}

\* A guarded UPDATE of b matches: the row is there, and not cancelled.
Guard(b) == Exists(b) /\ row[b].status # "cancelled"

Goto(b, pc) == driver' = [driver EXCEPT ![b].pc = pc]

\* processBatch() leaves, whatever the way: its finally; the flag stays if the row was
\* never read.
Leave(b, pc, read) ==
    /\ driver' = [driver EXCEPT ![b] = [NoDriver EXCEPT !.pc = pc]]
    /\ inFlight' = inFlight - 1
    /\ flag' = IF read THEN [flag EXCEPT ![b] = "none"] ELSE flag

Outcome(p, o) == [p EXCEPT ![o] = p[o] + 1, !.pending = p.pending - 1]

\* Mutant: the pending messages of a cancelled batch are counted twice.
CancelledTwice(p) == [p EXCEPT !.cancelled = p.pending]

Cancelled(p)  == [p EXCEPT !.cancelled = p.pending, !.pending = 0]

\* resolveFinalBatchStatus().
Verdict(cancelled, stopped, p) ==
    IF cancelled THEN "cancelled"
    ELSE IF stopped \/ (p.failed > 0 /\ p.sent = 0) THEN "failed" ELSE "completed"

\* The item at the index of driver d of b ends with outcome o: the batch stops, or the
\* index moves on and the progress is written every SaveEvery items and after the last.
Done(b, o) ==
    LET d == driver[b]
        p == Outcome(d.progress, o)
        last == d.index = Items - 1
    IN  driver' = [driver EXCEPT ![b] =
            IF o = "failed" /\ b \in StopOnError
            THEN [d EXCEPT !.progress = p, !.stopped = TRUE, !.pc = "reread"]
            ELSE [d EXCEPT !.progress = p, !.index = d.index + 1,
                           !.pc = IF d.index % SaveEvery = 0 \/ last THEN "progress" ELSE "top"]]

-----------------------------------------------------------------------------
\* createBatch() and processBatch() up to the first item.

\* The slot is reserved in the turn that checks the cap; the row is saved next.
Create(b) ==
    /\ process = "up" /\ engine
    /\ row[b].status = "absent" /\ driver[b].pc = "none"
    /\ MaxConcurrent > 0 => inFlight < MaxConcurrent
    /\ inFlight' = inFlight + 1
    /\ Goto(b, "saving")
    /\ UNCHANGED <<row, flag, breaker, site, calls, ghost, bound>>

Saved(b) ==
    /\ driver[b].pc = "saving" /\ row[b].status = "absent"
    /\ row' = [row EXCEPT ![b].status = "pending"]
    /\ Goto(b, "pickup")
    /\ UNCHANGED <<flag, inFlight, breaker, site, calls, ghost, bound>>

\* The INSERT fails: the slot is given back.
SaveFails(b) ==
    /\ driver[b].pc = "saving" /\ Fault("query")
    /\ Goto(b, "none")
    /\ inFlight' = inFlight - 1
    /\ UNCHANGED <<row, flag, breaker, site, calls, ghost>>

\* The row is read: gone or cancelled meanwhile, nothing is sent.
Pickup(b) ==
    /\ driver[b].pc = "pickup"
    /\ IF ~Exists(b) \/ flag[b] = "off" \/ row[b].status = "cancelled"
       THEN Leave(b, "done", Exists(b))
       ELSE Goto(b, "start") /\ flag' = [flag EXCEPT ![b] = "on"] /\ UNCHANGED inFlight
    /\ UNCHANGED <<row, breaker, site, calls, ghost, bound>>

\* Mutant: the start overwrites a cancel.
StartUnguarded(b) ==
    /\ driver[b].pc = "start"
    /\ row' = IF Exists(b) THEN [row EXCEPT ![b].status = "processing"] ELSE row
    /\ Goto(b, "top")
    /\ UNCHANGED <<flag, inFlight, breaker, site, calls, ghost, bound>>

\* The guarded UPDATE to PROCESSING; with no engine the batch fails.
MarkProcessing(b) ==
    /\ driver[b].pc = "start"
    /\ IF Guard(b)
       THEN /\ row' = [row EXCEPT ![b].status = "processing"]
            /\ driver' = [driver EXCEPT ![b].pc = IF engine THEN "top" ELSE "noengine",
                                        ![b].lost = FALSE]
            /\ UNCHANGED <<flag, inFlight>>
       ELSE Leave(b, "done", TRUE) /\ UNCHANGED row
    /\ UNCHANGED <<breaker, site, calls, ghost, bound>>

FailWithoutEngine(b) ==
    /\ driver[b].pc = "noengine"
    /\ row' = IF Guard(b) THEN [row EXCEPT ![b].status = "failed"] ELSE row
    /\ Leave(b, "done", TRUE)
    /\ UNCHANGED <<breaker, site, calls, ghost, bound>>

-----------------------------------------------------------------------------
\* One item.

\* Mutant: the flag is read before the first item only.
NextItemUnflagged(b) ==
    LET d == driver[b] IN
    /\ d.pc = "top"
    /\ IF d.index = Items \/ (d.index = 0 /\ flag[b] # "on") THEN Goto(b, "reread")
       ELSE Goto(b, "gate")
    /\ UNCHANGED <<row, flag, inFlight, breaker, site, calls, ghost, bound>>

\* Past the delay: the end, a cancel of this process, an open breaker, or the gate.
NextItem(b) ==
    LET d == driver[b] IN
    /\ d.pc = "top"
    /\ IF d.index = Items \/ flag[b] # "on" THEN Goto(b, "reread")
       ELSE IF breaker = Threshold THEN Done(b, "failed")
       ELSE Goto(b, "gate")
    /\ UNCHANGED <<row, flag, inFlight, breaker, site, calls, ghost, bound>>

\* The breaker's cooldown passes.
CoolDown ==
    /\ breaker = Threshold
    /\ breaker' = 0
    /\ UNCHANGED <<row, driver, flag, inFlight, site, calls, ghost, bound>>

\* The allowance and the plugins let the item pass, or refuse it: the engine is not asked.
Gated(b) ==
    /\ driver[b].pc = "gate"
    /\ \/ Goto(b, "sending") /\ UNCHANGED bound
       \/ Fault("refuse") /\ Done(b, "failed")
    /\ UNCHANGED <<row, flag, inFlight, breaker, site, calls, ghost>>

\* The engine accepts: the streak of failures ends.
Sent(b) ==
    /\ driver[b].pc = "sending" /\ ~driver[b].lost
    /\ Done(b, "sent")
    /\ breaker' = 0
    /\ sends' = [sends EXCEPT ![b] = sends[b] + 1]
    /\ late' = [late EXCEPT ![b].sends =
                   IF row[b].status = "cancelled" THEN late[b].sends + 1 ELSE late[b].sends]
    /\ UNCHANGED <<row, flag, inFlight, site, calls, bound>>

\* The engine refuses, or the one taken at the start is gone (not held against the account).
SendFails(b) ==
    /\ driver[b].pc = "sending"
    /\ Done(b, "failed")
    /\ IF driver[b].lost THEN UNCHANGED <<breaker, bound>>
       ELSE /\ Fault("fail")
            /\ breaker' = IF breaker = Threshold THEN Threshold ELSE breaker + 1
    /\ UNCHANGED <<row, flag, inFlight, site, calls, ghost>>

\* Mutant: the progress is written whatever the status, and the loop goes on.
SaveProgressUnguarded(b) ==
    LET d == driver[b] IN
    /\ d.pc = "progress"
    /\ row' = IF Exists(b) THEN [row EXCEPT ![b].progress = d.progress, ![b].index = d.index] ELSE row
    /\ Goto(b, "top")
    /\ UNCHANGED <<flag, inFlight, breaker, site, calls, ghost, bound>>

\* The guarded write of the progress: no row matched is taken for a cancel.
SaveProgress(b) ==
    LET d == driver[b] IN
    /\ d.pc = "progress"
    /\ IF Guard(b)
       THEN /\ row' = [row EXCEPT ![b].progress = d.progress, ![b].index = d.index]
            /\ Goto(b, "top")
       ELSE /\ driver' = [driver EXCEPT ![b] =
                 [d EXCEPT !.pc = "final", !.cancelled = TRUE, !.verdict = "cancelled",
                           !.progress = Cancelled(d.progress)]]
            /\ UNCHANGED row
    /\ UNCHANGED <<flag, inFlight, breaker, site, calls, ghost, bound>>

-----------------------------------------------------------------------------
\* finalizeBatch().

\* The status is read once more, and the verdict fixed.
Reread(b) ==
    LET d == driver[b]
        cancelled == row[b].status = "cancelled" \/ flag[b] # "on"
    IN  /\ d.pc = "reread"
        /\ driver' = [driver EXCEPT ![b] =
             [d EXCEPT !.pc = "final", !.cancelled = cancelled,
                       !.verdict = Verdict(cancelled, d.stopped, d.progress),
                       !.progress = IF cancelled THEN Cancelled(d.progress) ELSE d.progress]]
        /\ UNCHANGED <<row, flag, inFlight, breaker, site, calls, ghost, bound>>

\* What the last write stores.
Final(d) == [status |-> d.verdict, progress |-> d.progress, index |-> d.index]

\* Mutant: the last write is not guarded.
FinalizeUnguarded(b) ==
    /\ driver[b].pc = "final"
    /\ row' = [row EXCEPT ![b] = Final(driver[b])]
    /\ Leave(b, "done", TRUE)
    /\ UNCHANGED <<breaker, site, calls, ghost, bound>>

\* CANCELLED is saved unconditionally (a row that is gone is inserted again), any other
\* verdict through a guarded UPDATE.
Finalize(b) ==
    LET d == driver[b] IN
    /\ d.pc = "final"
    /\ row' = IF d.verdict = "cancelled" \/ Guard(b) THEN [row EXCEPT ![b] = Final(d)] ELSE row
    /\ Leave(b, "done", TRUE)
    /\ UNCHANGED <<breaker, site, calls, ghost, bound>>

\* Mutant: a failed query leaves the slot taken.
ThrowsKeepingSlot(b) ==
    /\ driver[b].pc \in {"pickup", "start", "noengine", "progress", "reread", "final"}
    /\ Fault("query")
    /\ Goto(b, "threw")
    /\ UNCHANGED <<row, flag, inFlight, breaker, site, calls, ghost>>

\* A query of processBatch() fails: it ends there.
Throws(b) ==
    /\ driver[b].pc \in {"pickup", "start", "noengine", "progress", "reread", "final"}
    /\ Fault("query")
    /\ Leave(b, "threw", driver[b].pc # "pickup")
    /\ UNCHANGED <<row, breaker, site, calls, ghost>>

-----------------------------------------------------------------------------
\* cancelBatch().

\* The row is read; this process's flag goes off before the UPDATE is sent.
Cancel(b, local) ==
    /\ Request("cancel")
    /\ local => process = "up"
    /\ row[b].status \in {"pending", "processing"}
    /\ cancels' = cancels \cup {[batch |-> b, local |-> local, progress |-> Cancelled(row[b].progress)]}
    /\ flag' = IF local THEN [flag EXCEPT ![b] = "off"] ELSE flag
    /\ UNCHANGED <<row, driver, inFlight, breaker, site, reaps, ghost>>

\* The guarded UPDATE: 200, or 400 for a batch that is over.
CancelCommits(c) ==
    /\ c \in cancels
    /\ cancels' = cancels \ {c}
    /\ IF row[c.batch].status \in {"pending", "processing"}
       THEN /\ row' = [row EXCEPT ![c.batch].status = "cancelled", ![c.batch].progress = c.progress]
            /\ late' = [late EXCEPT ![c.batch].by = IF c.local THEN "local" ELSE "peer"]
       ELSE UNCHANGED <<row, late>>
    /\ UNCHANGED <<ram, site, reaps, sends, bound>>

CancelFails(c) ==
    /\ c \in cancels /\ Fault("query")
    /\ cancels' = cancels \ {c}
    /\ UNCHANGED <<row, ram, site, reaps, ghost>>

-----------------------------------------------------------------------------
\* The session and the process.

\* The session is stopped here, or its engine lost: the drivers keep the dead object, also
\* when it is started again (unless a peer has the session).
EngineStops ==
    /\ engine /\ Request("stop")
    /\ engine' = FALSE
    /\ driver' = [b \in Batch |-> IF driver[b].pc \in Idle THEN driver[b]
                                  ELSE [driver[b] EXCEPT !.lost = TRUE]]
    /\ UNCHANGED <<row, flag, inFlight, breaker, process, peer, calls, ghost>>

EngineStarts ==
    /\ process = "up" /\ ~engine /\ ~peer
    /\ \E b \in Batch : row[b].status # "gone"
    /\ engine' = TRUE
    /\ UNCHANGED <<row, ram, process, peer, calls, ghost, bound>>

\* The session is deleted: its engine is down, its batches are removed.
DeleteSession ==
    /\ Request("delete")
    /\ process = "up" /\ ~engine /\ ~peer
    /\ row' = [b \in Batch |-> [row[b] EXCEPT !.status = "gone"]]
    /\ UNCHANGED <<ram, site, calls, ghost>>

\* A reaper reads the PROCESSING batches.
ReapRead(local) ==
    reaps' = reaps \cup {[batch |-> b, local |-> local, progress |-> row[b].progress, index |-> row[b].index] :
                            b \in {b \in Batch : row[b].status = "processing"}}

\* A peer starts the stopped session, or adopts it from a lapsed holder (that may be
\* alive) and reaps its batches; and gives it back.
PeerStarts ==
    /\ Request("peer") /\ ~peer /\ ~engine
    /\ peer' = TRUE
    /\ UNCHANGED <<row, ram, process, engine, calls, ghost>>
PeerAdopts ==
    /\ Request("peer") /\ ~peer
    /\ process # "down" => "lapse" \in Faults
    /\ peer' = TRUE
    /\ ReapRead(FALSE)
    /\ UNCHANGED <<row, ram, process, engine, cancels, ghost>>
PeerStops ==
    /\ peer
    /\ peer' = FALSE
    /\ UNCHANGED <<row, ram, process, engine, calls, ghost, bound>>

\* failOrphanedBatch(): the whole entity is saved, as it was read.
Reap(r) ==
    /\ r \in reaps
    /\ reaps' = reaps \ {r}
    /\ row' = [row EXCEPT ![r.batch] = [status |-> "failed", progress |-> r.progress, index |-> r.index]]
    /\ UNCHANGED <<ram, site, cancels, ghost, bound>>

Crash ==
    /\ process # "down" /\ Fault("crash")
    /\ process' = "down" /\ engine' = FALSE
    /\ driver' = [b \in Batch |-> IF driver[b].pc \in Idle THEN driver[b]
                                  ELSE [NoDriver EXCEPT !.pc = "crashed"]]
    /\ flag' = [b \in Batch |-> "none"]
    /\ inFlight' = 0 /\ breaker' = 0
    /\ cancels' = {c \in cancels : ~c.local} /\ reaps' = {r \in reaps : ~r.local}
    /\ UNCHANGED <<row, peer, ghost>>

\* Mutant: the restart reaps nothing.
BootUnreaped ==
    /\ process = "down"
    /\ process' = "boot"
    /\ UNCHANGED <<row, ram, engine, peer, calls, ghost, bound>>

\* onApplicationBootstrap(): the PROCESSING batches of a session no peer holds; those of
\* a peer's session are left to it.
Boot ==
    /\ process = "down"
    /\ process' = "boot"
    /\ IF peer
       THEN /\ driver' = [b \in Batch |-> IF driver[b].pc = "crashed"
                                          THEN [driver[b] EXCEPT !.pc = "left"] ELSE driver[b]]
            /\ UNCHANGED reaps
       ELSE ReapRead(TRUE) /\ UNCHANGED driver
    /\ UNCHANGED <<row, flag, inFlight, breaker, engine, peer, cancels, ghost, bound>>

Listen ==
    /\ process = "boot" /\ \A r \in reaps : ~r.local
    /\ process' = "up"
    /\ UNCHANGED <<row, ram, engine, peer, calls, ghost, bound>>

-----------------------------------------------------------------------------
Drive(b) == \/ Saved(b) \/ Pickup(b) \/ MarkProcessing(b) \/ FailWithoutEngine(b)
            \/ NextItem(b) \/ Gated(b) \/ Sent(b) \/ SendFails(b) \/ SaveProgress(b)
            \/ Reread(b) \/ Finalize(b)

Next == \/ \E b \in Batch : \/ Create(b) \/ Drive(b) \/ SaveFails(b) \/ Throws(b)
                            \/ \E local \in BOOLEAN : Cancel(b, local)
        \/ \E c \in cancels : CancelCommits(c) \/ CancelFails(c)
        \/ \E r \in reaps : Reap(r)
        \/ CoolDown \/ EngineStops \/ EngineStarts \/ DeleteSession
        \/ PeerStarts \/ PeerAdopts \/ PeerStops \/ Crash \/ Boot \/ Listen

Spec == Init /\ [][Next]_vars

\* Queries return, engines answer, a process that is down is started again.
FairSpec == /\ Spec
            /\ \A b \in Batch : WF_vars(Drive(b))
            /\ WF_vars(\E r \in reaps : Reap(r))
            /\ WF_vars(Boot) /\ WF_vars(Listen)

-----------------------------------------------------------------------------
\* Properties.

\* inFlightBatches counts the batches this process is driving, whatever way they ended,
\* and stays within the cap; nothing but a driver at work keeps a flag on.
SlotsReturned ==
    /\ inFlight = Cardinality({b \in Batch : driver[b].pc \notin Idle})
    /\ MaxConcurrent > 0 => inFlight <= MaxConcurrent
    /\ \A b \in Batch : driver[b].pc \in Idle => flag[b] # "on"

\* The counters of a row always add up, claim no message that was not sent, and those of
\* a completed batch are exact.
Accounted == \A b \in Batch : Exists(b) =>
    LET p == row[b].progress IN
    /\ p.sent + p.failed + p.pending + p.cancelled = Items
    /\ p.sent <= sends[b]
    /\ row[b].status = "completed" => p.sent = sends[b] /\ p.pending = 0 /\ p.cancelled = 0

\* A cancelled batch stays cancelled, unless a reaper had read it before.
CancelSticks ==
    [][\A b \in Batch : row[b].status = "cancelled" /\ row'[b].status \notin {"cancelled", "gone"}
         => \E r \in reaps : r.batch = b]_vars

\* Once the cancel has been committed at most the item in flight is sent, or, when a peer
\* committed it, the items up to the next write of the progress (a cancel that a stale reaper
\* overwrites no longer counts).
CancelStops == \A b \in Batch : /\ late[b].by = "local" => late[b].sends <= 1
                                /\ late[b].sends <= SaveEvery

\* A batch does not stay PROCESSING, whatever crashes or takes over, unless a query of its
\* own failed or the restart left it to a peer.
ProcessingEnds == \A b \in Batch :
    row[b].status = "processing"
        ~> (row[b].status # "processing" \/ driver[b].pc \in {"threw", "left"})

-----------------------------------------------------------------------------
\* What a comment says of the program, and the program does not do.

\* delete(): the batches of a deleted session are removed for good (a batch that is
\* still sending saves its row once more).
DeletedStaysGone == [][\A b \in Batch : row[b].status = "gone" => row'[b].status = "gone"]_vars
=============================================================================
