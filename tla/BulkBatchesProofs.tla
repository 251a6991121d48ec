-------------------------- MODULE BulkBatchesProofs --------------------------
(***************************************************************************)
(* Proofs about BulkBatches, for any batches, items, limits and faults:    *)
(* the slots of inFlightBatches come back, the counters of a row always    *)
(* add up, and a cancelled row is overwritten by a stale reaper only.      *)
(*                                                                         *)
(* None of the three is inductive: what a driver carries between two       *)
(* awaits, and what a cancel or a reaper has read and not written yet, has *)
(* to add up as well. IInv says so; the lemmas take one action each, and   *)
(* the theorems at the end follow from it.                                 *)
(***************************************************************************)
EXTENDS BulkBatches, Integers, FiniteSetTheorems, TLAPS

\* The values a driver and a row range over (TypeOK).
Driver == [pc : PC, index : 0..Items, progress : Progress, stopped : BOOLEAN, lost : BOOLEAN,
           cancelled : BOOLEAN, verdict : Over \cup {"processing"}]
Row == [status : Status, progress : Progress, index : 0..Items]

\* The four counters of p are those of Items messages.
Adds(p) == p \in Progress /\ p.sent + p.failed + p.pending + p.cancelled = Items

\* The driver before its first item, and between the first and the verdict.
Early == {"none", "saving", "pickup", "start", "noengine"}
Going == {"top", "gate", "sending", "progress", "reread"}

\* What a saved row claims, and which rows hold no cancelled messages.
RowFine(b) ==
    /\ Adds(row[b].progress) /\ row[b].progress.sent <= sends[b]
    /\ row[b].status = "completed" => /\ driver[b].pc = "done"
                                      /\ row[b].progress.sent = sends[b]
                                      /\ row[b].progress.pending = 0
    /\ row[b].status \notin {"cancelled", "gone"} => row[b].progress.cancelled = 0

\* What the driver of b knows at each of its awaits: it counts every message the engine
\* accepted, its index is the number of items done, and its flag is on while it works.
DriverFine(b) ==
    LET d == driver[b] IN
    /\ Adds(d.progress)
    /\ d.pc \notin Idle \/ d.pc = "none" => d.progress.sent = sends[b]
    /\ d.pc \in Early => d.index = 0 /\ d.progress.pending = Items /\ ~d.stopped
    /\ d.pc \in Going => d.progress.cancelled = 0
    /\ d.pc \in Going \ {"reread"} => d.progress.pending = Items - d.index /\ ~d.stopped
    /\ d.pc \in {"gate", "sending"} => d.index < Items
    /\ d.pc = "reread" => d.stopped \/ d.progress.pending = 0 \/ flag[b] # "on"
    /\ d.pc = "final" /\ d.verdict # "cancelled" => d.progress.cancelled = 0
    /\ d.pc = "final" /\ d.verdict = "completed" => d.progress.pending = 0
    /\ d.pc \in Idle \cup {"saving", "pickup"} => flag[b] # "on"

\* What a cancel, and a reaper, has read and will write adds up too.
CallFine(c) == c.batch \in Batch /\ Adds(c.progress) /\ c.progress.sent <= sends[c.batch]

ReapFine(r) == CallFine(r) /\ r.index \in 0..Items /\ r.progress.cancelled = 0

\* The drivers that hold a slot.
Active == {b \in Batch : driver[b].pc \notin Idle}

Slots == /\ inFlight = Cardinality(Active)
         /\ MaxConcurrent > 0 => inFlight <= MaxConcurrent

\* The types the argument needs.
Types == /\ row \in [Batch -> Row] /\ driver \in [Batch -> Driver]
         /\ flag \in [Batch -> {"none", "on", "off"}] /\ sends \in [Batch -> 0..Items]

\* The inductive invariant.
IInv == /\ Types /\ Slots
        /\ \A b \in Batch : RowFine(b) /\ DriverFine(b)
        /\ \A c \in cancels : CallFine(c)
        /\ \A r \in reaps : ReapFine(r)

-----------------------------------------------------------------------------
\* The drivers at work are finitely many: they can be counted.
LEMMA ActiveFinite == IsFiniteSet(Active) /\ Cardinality(Active) \in Nat
<1>1. Active \subseteq Batch /\ IsFiniteSet(Batch)
  BY BulkAssumption, Zenon DEF Active, BulkAssumption
<1> QED BY <1>1, FS_Subset, FS_CardinalityType, Zenon

\* A step of b alone: the other batches, and the calls under way, are left as they are.
Apart(b) ==
    /\ Types' /\ cancels' = cancels /\ reaps' = reaps /\ sends'[b] >= sends[b]
    /\ \A e \in Batch \ {b} : /\ row'[e] = row[e] /\ driver'[e] = driver[e]
                              /\ flag'[e] = flag[e] /\ sends'[e] = sends[e]

\* Such a step keeps the invariant when it keeps what the invariant says of b.
LEMMA OneBatch ==
    ASSUME IInv, NEW b \in Batch, Apart(b), RowFine(b)', DriverFine(b)', Slots'
    PROVE  IInv'
<1>1. ASSUME NEW e \in Batch  PROVE RowFine(e)' /\ DriverFine(e)'
  <2>1. CASE e = b  BY <2>1
  <2>2. CASE e # b
    <3>1. row'[e] = row[e] /\ driver'[e] = driver[e] /\ flag'[e] = flag[e] /\ sends'[e] = sends[e]
      BY <2>2, Zenon DEF Apart
    <3>2. RowFine(e) /\ DriverFine(e)  BY Zenon DEF IInv
    <3>3. RowFine(e)'  BY <3>1, <3>2, Zenon DEF RowFine, Adds
    <3>4. DriverFine(e)'  BY <3>1, <3>2, Zenon DEF DriverFine, Adds
    <3> QED BY <3>3, <3>4
  <2> QED BY <2>1, <2>2
<1>2. \A e \in Batch : sends[e] <= sends'[e]
  <2>1. \A e \in Batch : sends[e] \in 0..Items /\ sends'[e] \in 0..Items
    BY Zenon DEF Apart, IInv, Types
  <2>2. \A e \in Batch \ {b} : sends'[e] = sends[e]  BY Zenon DEF Apart
  <2>3. sends'[b] >= sends[b]  BY Zenon DEF Apart
  <2> QED BY <2>1, <2>2, <2>3, SMT
<1>3. ASSUME NEW c, CallFine(c)  PROVE CallFine(c)'
  <2>1. c.batch \in Batch /\ Adds(c.progress) /\ c.progress.sent <= sends[c.batch]
    BY <1>3, Zenon DEF CallFine
  <2>2. c.progress.sent \in Nat  BY <2>1, SMT DEF Adds, Progress
  <2>3. sends[c.batch] \in Nat /\ sends'[c.batch] \in Nat
    BY <2>1, SMT DEF Apart, IInv, Types
  <2>4. c.progress.sent <= sends'[c.batch]  BY <1>2, <2>1, <2>2, <2>3, SMT
  <2> QED BY <2>1, <2>4, Zenon DEF CallFine, Adds
<1>4. Slots' /\ Types' /\ cancels' = cancels /\ reaps' = reaps  BY Zenon DEF Apart
<1>5. \A c \in cancels' : CallFine(c)'  BY <1>3, <1>4, Zenon DEF IInv
<1>6. \A r \in reaps' : ReapFine(r)'  BY <1>3, <1>4, Zenon DEF IInv, ReapFine
<1> QED BY <1>1, <1>4, <1>5, <1>6, Zenon DEF IInv

\* A step that leaves the driver at work, or at rest, leaves the slots as they were.
LEMMA SlotSame ==
    ASSUME IInv, NEW b \in Batch, Apart(b), inFlight' = inFlight,
           driver'[b].pc \in Idle <=> driver[b].pc \in Idle
    PROVE  Slots'
<1>1. Active' = Active  BY Zenon DEF Active, Apart
<1> QED BY <1>1, Zenon DEF IInv, Slots

\* A driver that stops gives one slot back.
LEMMA SlotFreed ==
    ASSUME IInv, NEW b \in Batch, Apart(b), inFlight' = inFlight - 1,
           driver[b].pc \notin Idle, driver'[b].pc \in Idle
    PROVE  Slots'
<1>1. Active' = Active \ {b} /\ b \in Active  BY Zenon DEF Active, Apart
<1>2. Cardinality(Active') = Cardinality(Active) - 1
  BY <1>1, ActiveFinite, FS_RemoveElement, Zenon
<1>3. inFlight = Cardinality(Active)  BY Zenon DEF IInv, Slots
<1>4. inFlight' = Cardinality(Active')  BY <1>2, <1>3, Zenon
<1>5. inFlight \in Nat  BY <1>3, ActiveFinite, Zenon
<1>6. MaxConcurrent > 0 => inFlight' <= MaxConcurrent
  BY <1>5, BulkAssumption, SMT DEF IInv, Slots, BulkAssumption
<1> QED BY <1>4, <1>6, Zenon DEF Slots

\* A driver that starts takes one, under the cap createBatch() checks in the same turn.
LEMMA SlotTaken ==
    ASSUME IInv, NEW b \in Batch, Apart(b), inFlight' = inFlight + 1,
           MaxConcurrent > 0 => inFlight < MaxConcurrent,
           driver[b].pc \in Idle, driver'[b].pc \notin Idle
    PROVE  Slots'
<1>1. Active' = Active \cup {b} /\ b \notin Active  BY Zenon DEF Active, Apart
<1>2. Cardinality(Active') = Cardinality(Active) + 1
  BY <1>1, ActiveFinite, FS_AddElement, Zenon
<1>3. inFlight = Cardinality(Active)  BY Zenon DEF IInv, Slots
<1>4. inFlight' = Cardinality(Active')  BY <1>2, <1>3, Zenon
<1>5. inFlight \in Nat  BY <1>3, ActiveFinite, Zenon
<1>6. MaxConcurrent > 0 => inFlight' <= MaxConcurrent
  BY <1>5, BulkAssumption, SMT DEF BulkAssumption
<1> QED BY <1>4, <1>6, Zenon DEF Slots

\* A move of one driver to another await changes nothing else of it.
LEMMA ToPc ==
    ASSUME Types, NEW b \in Batch, NEW pc \in PC, Goto(b, pc)
    PROVE  /\ driver' \in [Batch -> Driver]
           /\ driver'[b].pc = pc /\ driver'[b].index = driver[b].index
           /\ driver'[b].progress = driver[b].progress /\ driver'[b].stopped = driver[b].stopped
           /\ driver'[b].verdict = driver[b].verdict
           /\ \A e \in Batch \ {b} : driver'[e] = driver[e]
<1>1. driver[b] \in Driver  BY Zenon DEF Types
<1>2. PICK d : d = [driver[b] EXCEPT !.pc = pc]  OBVIOUS
<1>3. d \in Driver /\ d.pc = pc /\ d.index = driver[b].index /\ d.progress = driver[b].progress
      /\ d.stopped = driver[b].stopped /\ d.verdict = driver[b].verdict
  BY <1>1, <1>2, Zenon DEF Driver
<1>4. driver' = [driver EXCEPT ![b] = d]  BY <1>2, SMT DEF Goto
<1>5. driver'[b] = d /\ driver' \in [Batch -> Driver] /\ \A e \in Batch \ {b} : driver'[e] = driver[e]
  BY <1>3, <1>4, Zenon DEF Types
<1> QED BY <1>3, <1>5, Zenon

\* The counters of a new batch add up.
LEMMA FreshAdds ==
    /\ Adds(Fresh) /\ Fresh.sent = 0 /\ Fresh.failed = 0 /\ Fresh.pending = Items
    /\ Fresh.cancelled = 0
<1>1. Fresh \in Progress
  BY BulkAssumption, SMT DEF Fresh, Progress, BulkAssumption
<1> QED BY <1>1, BulkAssumption, SMT DEF Fresh, Adds, BulkAssumption

\* What a driver that left is reset to.
LEMMA NoDriverIs ==
    /\ NoDriver \in Driver /\ NoDriver.index = 0 /\ NoDriver.progress = Fresh /\ NoDriver.stopped = FALSE
    /\ NoDriver.verdict = "processing"
<1>1. Fresh \in Progress  BY FreshAdds, Zenon DEF Adds
<1>2. 0 \in 0..Items  BY BulkAssumption, SMT DEF BulkAssumption
<1>3. "none" \in PC  BY SMT DEF PC
<1>4. "processing" \in Over \cup {"processing"}  BY SMT
<1> QED BY <1>1, <1>2, <1>3, <1>4, Zenon DEF NoDriver, Driver

\* Whatever way processBatch() leaves, its slot is given back and its flag is not on.
LEMMA Leaves ==
    ASSUME IInv, NEW b \in Batch, NEW pc \in {"done", "threw"}, NEW read, driver[b].pc \notin Idle,
           read \/ driver[b].pc = "pickup", Leave(b, pc, read),
           row' \in [Batch -> Row], sends' = sends, cancels' = cancels, reaps' = reaps,
           \A e \in Batch \ {b} : row'[e] = row[e]
    PROVE  Apart(b) /\ DriverFine(b)' /\ Slots' /\ driver'[b].pc = pc
<1>1. pc \in PC /\ pc \in Idle /\ pc # "none" /\ pc \notin Early \cup Going \cup {"final"}
  BY SMT DEF PC, Idle, Early, Going
<1>2. PICK d : d = [NoDriver EXCEPT !.pc = pc]  OBVIOUS
<1>3. d \in Driver /\ d.pc = pc /\ d.progress = Fresh
  BY <1>1, <1>2, NoDriverIs, Zenon DEF Driver
<1>4. driver' = [driver EXCEPT ![b] = d]  BY <1>2, Zenon DEF Leave
<1>5. driver'[b] = d /\ driver' \in [Batch -> Driver] /\ \A e \in Batch \ {b} : driver'[e] = driver[e]
  BY <1>3, <1>4, Zenon DEF IInv, Types
<1>6. /\ flag' \in [Batch -> {"none", "on", "off"}] /\ \A e \in Batch \ {b} : flag'[e] = flag[e]
      /\ flag'[b] # "on"
  <2>1. CASE read
    <3>1. flag' = [flag EXCEPT ![b] = "none"]  BY <2>1, Zenon DEF Leave
    <3> QED BY <3>1, SMT DEF IInv, Types
  <2>2. CASE ~read
    <3>1. flag' = flag /\ driver[b].pc = "pickup"  BY <2>2, Zenon DEF Leave
    <3>2. flag[b] # "on"  BY <3>1, Zenon DEF IInv, DriverFine
    <3> QED BY <3>1, <3>2, Zenon DEF IInv, Types
  <2> QED BY <2>1, <2>2
<1>7. sends[b] \in 0..Items  BY Zenon DEF IInv, Types
<1>8. sends'[b] >= sends[b]  BY <1>7, SMT
<1>9. Apart(b)  BY <1>5, <1>6, <1>8, Zenon DEF Apart, IInv, Types
<1>10. DriverFine(b)'
  BY <1>1, <1>3, <1>5, <1>6, FreshAdds, Zenon DEF DriverFine, Adds
<1>11. inFlight' = inFlight - 1  BY Zenon DEF Leave
<1>12. Slots'  BY <1>1, <1>3, <1>5, <1>9, <1>11, SlotFreed, Zenon
<1> QED BY <1>3, <1>5, <1>9, <1>10, <1>12, Zenon

\* A row that is saved whole.
LEMMA RowSet ==
    ASSUME Types, NEW b \in Batch, NEW r \in Row, row' = [row EXCEPT ![b] = r]
    PROVE  row' \in [Batch -> Row] /\ row'[b] = r /\ \A e \in Batch \ {b} : row'[e] = row[e]
  BY Zenon DEF Types

\* A row whose status alone is written.
LEMMA RowStatus ==
    ASSUME Types, NEW b \in Batch, NEW st \in Status, row' = [row EXCEPT ![b].status = st]
    PROVE  /\ row' \in [Batch -> Row] /\ \A e \in Batch \ {b} : row'[e] = row[e]
           /\ row'[b].status = st /\ row'[b].progress = row[b].progress
<1>1. row[b] \in Row  BY Zenon DEF Types
<1>2. PICK r : r = [row[b] EXCEPT !.status = st]  OBVIOUS
<1>3. r \in Row /\ r.status = st /\ r.progress = row[b].progress  BY <1>1, <1>2, Zenon DEF Row
<1>4. row' = [row EXCEPT ![b] = r]  BY <1>2, SMT
<1> QED BY <1>3, <1>4, RowSet, Zenon

\* A row that is not written stays as good as it was, unless it was completed and its
\* driver goes on.
LEMMA RowKept ==
    ASSUME NEW b \in Batch, RowFine(b), row'[b] = row[b], sends'[b] = sends[b],
           row[b].status # "completed" \/ driver'[b].pc = "done"
    PROVE  RowFine(b)'
  BY Zenon DEF RowFine, Adds

\* While a driver has not ended, its row is not completed.
LEMMA DriveRow ==
    ASSUME IInv, NEW b \in Batch, driver[b].pc # "done"
    PROVE  row[b].status # "completed"
  BY Zenon DEF IInv, RowFine

\* A move from one await to the next keeps the slots.
LEMMA PcMoves ==
    ASSUME IInv, NEW b \in Batch, NEW pc \in PC, Goto(b, pc), driver[b].pc \notin Idle, pc \notin Idle,
           UNCHANGED <<inFlight, sends, cancels, reaps>>,
           row' \in [Batch -> Row], \A e \in Batch \ {b} : row'[e] = row[e],
           flag' \in [Batch -> {"none", "on", "off"}], \A e \in Batch \ {b} : flag'[e] = flag[e]
    PROVE  Apart(b) /\ Slots'
<1>1. sends[b] \in 0..Items  BY Zenon DEF IInv, Types
<1>2. sends'[b] >= sends[b]  BY <1>1, SMT
<1>3. Apart(b)  BY <1>2, ToPc, Zenon DEF Apart, IInv, Types
<1>4. driver[b].pc \notin Idle /\ driver'[b].pc \notin Idle
  <2>1. driver'[b].pc = pc  BY ToPc, Zenon DEF IInv
  <2> QED BY <2>1, Zenon
<1>5. inFlight' = inFlight  OBVIOUS
<1> QED BY <1>3, <1>4, <1>5, SlotSame, Zenon

-----------------------------------------------------------------------------
\* createBatch() keeps the invariant.
LEMMA CreateKeeps ==
    ASSUME IInv, NEW b \in Batch, Create(b)
    PROVE  IInv'
<1>1. "saving" \in PC /\ "saving" \notin Idle /\ "none" \in Idle  BY SMT DEF PC, Idle
<1>2. /\ driver[b].pc = "none" /\ Goto(b, "saving") /\ inFlight' = inFlight + 1
      /\ MaxConcurrent > 0 => inFlight < MaxConcurrent
      /\ UNCHANGED <<row, flag, cancels, reaps, sends>>
  BY Zenon DEF Create, calls, ghost
<1>3. sends'[b] >= sends[b]
  <2>1. sends[b] \in 0..Items  BY Zenon DEF IInv, Types
  <2> QED BY <1>2, <2>1, SMT
<1>4. /\ driver' \in [Batch -> Driver]
      /\ driver'[b].pc = "saving" /\ driver'[b].index = driver[b].index
      /\ driver'[b].progress = driver[b].progress /\ driver'[b].stopped = driver[b].stopped
      /\ \A e \in Batch \ {b} : driver'[e] = driver[e]
  BY <1>1, <1>2, ToPc, Zenon DEF IInv
<1>5. Apart(b)  BY <1>2, <1>3, <1>4, Zenon DEF Apart, IInv, Types
<1>6. Slots'  BY <1>1, <1>2, <1>4, <1>5, SlotTaken, Zenon
<1>7. row[b].status # "completed"  BY <1>2, DriveRow, SMT
<1>8. RowFine(b)'  BY <1>2, <1>7, RowKept, Zenon DEF IInv
<1>9. DriverFine(b)'  BY <1>2, <1>4, SMT DEF IInv, DriverFine, Early, Going, Idle, Adds
<1> QED BY <1>5, <1>6, <1>8, <1>9, OneBatch

\* The INSERT keeps the invariant.
LEMMA SavedKeeps ==
    ASSUME IInv, NEW b \in Batch, Saved(b)
    PROVE  IInv'
<1>1. "pickup" \in PC /\ "pickup" \notin Idle /\ "saving" \notin Idle /\ "pending" \in Status
  BY SMT DEF PC, Idle, Status
<1>2. /\ driver[b].pc = "saving" /\ row[b].status = "absent"
      /\ Goto(b, "pickup") /\ row' = [row EXCEPT ![b].status = "pending"]
      /\ UNCHANGED <<flag, inFlight, cancels, reaps, sends>>
  BY Zenon DEF Saved, calls, ghost
<1>3. /\ row' \in [Batch -> Row] /\ \A e \in Batch \ {b} : row'[e] = row[e]
      /\ row'[b].status = "pending" /\ row'[b].progress = row[b].progress
  BY <1>1, <1>2, RowStatus, Zenon DEF IInv
<1>4. Apart(b) /\ Slots'
  BY <1>1, <1>2, <1>3, PcMoves, Zenon DEF IInv, Types
<1>5. /\ driver'[b].pc = "pickup" /\ driver'[b].index = driver[b].index
      /\ driver'[b].progress = driver[b].progress /\ driver'[b].stopped = driver[b].stopped
  BY <1>1, <1>2, ToPc, Zenon DEF IInv
<1>6. RowFine(b)'  BY <1>2, <1>3, SMT DEF IInv, RowFine, Adds
<1>7. DriverFine(b)'  BY <1>2, <1>5, SMT DEF IInv, DriverFine, Early, Going, Idle, Adds
<1> QED BY <1>4, <1>6, <1>7, OneBatch

\* Its failure keeps the invariant: the slot is given back.
LEMMA SaveFailsKeeps ==
    ASSUME IInv, NEW b \in Batch, SaveFails(b)
    PROVE  IInv'
<1>1. "none" \in PC /\ "none" \in Idle /\ "saving" \notin Idle  BY SMT DEF PC, Idle
<1>2. /\ driver[b].pc = "saving" /\ Goto(b, "none") /\ inFlight' = inFlight - 1
      /\ UNCHANGED <<row, flag, cancels, reaps, sends>>
  BY Zenon DEF SaveFails, calls, ghost
<1>3. sends'[b] >= sends[b]
  <2>1. sends[b] \in 0..Items  BY Zenon DEF IInv, Types
  <2> QED BY <1>2, <2>1, SMT
<1>4. /\ driver' \in [Batch -> Driver]
      /\ driver'[b].pc = "none" /\ driver'[b].index = driver[b].index
      /\ driver'[b].progress = driver[b].progress /\ driver'[b].stopped = driver[b].stopped
      /\ \A e \in Batch \ {b} : driver'[e] = driver[e]
  BY <1>1, <1>2, ToPc, Zenon DEF IInv
<1>5. Apart(b)  BY <1>2, <1>3, <1>4, Zenon DEF Apart, IInv, Types
<1>6. Slots'  BY <1>1, <1>2, <1>4, <1>5, SlotFreed, Zenon
<1>7. row[b].status # "completed"  BY <1>2, DriveRow, SMT
<1>8. RowFine(b)'  BY <1>2, <1>7, RowKept, Zenon DEF IInv
<1>9. DriverFine(b)'  BY <1>2, <1>4, SMT DEF IInv, DriverFine, Early, Going, Idle, Adds
<1> QED BY <1>5, <1>6, <1>8, <1>9, OneBatch

\* Leaving without a write keeps the invariant.
LEMMA LeaveKeeps ==
    ASSUME IInv, NEW b \in Batch, NEW pc \in {"done", "threw"}, NEW read, driver[b].pc \notin Idle,
           read \/ driver[b].pc = "pickup", Leave(b, pc, read), UNCHANGED <<row, sends, cancels, reaps>>
    PROVE  IInv'
<1>1. Apart(b) /\ DriverFine(b)' /\ Slots'  BY Leaves, Zenon DEF IInv, Types
<1>2. "done" \in Idle  BY SMT DEF Idle
<1>3. row[b].status # "completed"  BY <1>2, DriveRow, Zenon
<1>4. RowFine(b)'  BY <1>3, RowKept, Zenon DEF IInv
<1> QED BY <1>1, <1>4, OneBatch

\* The first read keeps the invariant.
LEMMA PickupKeeps ==
    ASSUME IInv, NEW b \in Batch, Pickup(b)
    PROVE  IInv'
<1>1. "start" \in PC /\ "start" \notin Idle /\ "pickup" \notin Idle  BY SMT DEF PC, Idle
<1>2. driver[b].pc = "pickup" /\ UNCHANGED <<row, cancels, reaps, sends>>
  BY Zenon DEF Pickup, calls, ghost
<1>3. CASE Leave(b, "done", Exists(b))
  BY <1>1, <1>2, <1>3, LeaveKeeps, Zenon
<1>4. CASE Goto(b, "start") /\ flag' = [flag EXCEPT ![b] = "on"] /\ UNCHANGED inFlight
  <2>1. flag' \in [Batch -> {"none", "on", "off"}] /\ \A e \in Batch \ {b} : flag'[e] = flag[e]
    BY <1>4, SMT DEF IInv, Types
  <2>2. Apart(b) /\ Slots'
    BY <1>1, <1>2, <1>4, <2>1, PcMoves, Zenon DEF IInv, Types
  <2>3. /\ driver'[b].pc = "start" /\ driver'[b].index = driver[b].index
        /\ driver'[b].progress = driver[b].progress /\ driver'[b].stopped = driver[b].stopped
    BY <1>1, <1>4, ToPc, Zenon DEF IInv
  <2>4. row[b].status # "completed"  BY <1>2, DriveRow, SMT
  <2>5. RowFine(b)'  BY <1>2, <2>4, RowKept, Zenon DEF IInv
  <2>6. DriverFine(b)'  BY <1>2, <2>3, SMT DEF IInv, DriverFine, Early, Going, Idle, Adds
  <2> QED BY <2>2, <2>5, <2>6, OneBatch
<1> QED BY <1>3, <1>4, Zenon DEF Pickup

\* The UPDATE to PROCESSING keeps the invariant.
LEMMA MarkProcessingKeeps ==
    ASSUME IInv, NEW b \in Batch, MarkProcessing(b)
    PROVE  IInv'
<1>1. driver[b].pc = "start" /\ "start" \notin Idle /\ UNCHANGED <<cancels, reaps, sends>>
  BY SMT DEF MarkProcessing, Idle, calls, ghost
<1>2. CASE Leave(b, "done", TRUE) /\ UNCHANGED row
  BY <1>1, <1>2, LeaveKeeps, Zenon
<1>3. CASE /\ Guard(b) /\ row' = [row EXCEPT ![b].status = "processing"]
           /\ driver' = [driver EXCEPT ![b].pc = IF engine THEN "top" ELSE "noengine", ![b].lost = FALSE]
           /\ UNCHANGED <<flag, inFlight>>
  <2>1. PICK pc : pc = IF engine THEN "top" ELSE "noengine"  OBVIOUS
  <2>2. pc \in {"top", "noengine"} /\ pc \in PC /\ pc \notin Idle  BY <2>1, SMT DEF PC, Idle
  <2>3. PICK d0 : d0 = [driver[b] EXCEPT !.pc = pc]  OBVIOUS
  <2>4. driver[b] \in Driver  BY Zenon DEF IInv, Types
  <2>5. PICK d : d = [d0 EXCEPT !.lost = FALSE]  OBVIOUS
  <2>6. /\ d \in Driver /\ d.pc = pc /\ d.index = driver[b].index
        /\ d.progress = driver[b].progress /\ d.stopped = driver[b].stopped
    <3>1. /\ d0 \in Driver /\ d0.pc = pc /\ d0.index = driver[b].index
          /\ d0.progress = driver[b].progress /\ d0.stopped = driver[b].stopped
      BY <2>2, <2>3, <2>4, Zenon DEF Driver
    <3>2. FALSE \in BOOLEAN  OBVIOUS
    <3> QED BY <2>5, <3>1, <3>2, Zenon DEF Driver
  <2>7. driver' = [driver EXCEPT ![b] = d]  BY <1>3, <2>1, <2>3, <2>5
  <2>8. driver'[b] = d /\ driver' \in [Batch -> Driver] /\ \A e \in Batch \ {b} : driver'[e] = driver[e]
    BY <2>6, <2>7, Zenon DEF IInv, Types
  <2>9. /\ row' \in [Batch -> Row] /\ \A e \in Batch \ {b} : row'[e] = row[e]
        /\ row'[b].status = "processing" /\ row'[b].progress = row[b].progress
    <3>1. "processing" \in Status  BY SMT DEF Status
    <3> QED BY <1>3, <3>1, RowStatus, Zenon DEF IInv
  <2>10. sends'[b] >= sends[b]
    <3>1. sends[b] \in 0..Items  BY Zenon DEF IInv, Types
    <3> QED BY <1>1, <3>1, SMT
  <2>11. Apart(b)  BY <1>1, <1>3, <2>8, <2>9, <2>10, Zenon DEF Apart, IInv, Types
  <2>12. Slots'
    <3>1. driver[b].pc \notin Idle /\ driver'[b].pc \notin Idle  BY <1>1, <2>2, <2>6, <2>8, Zenon
    <3>2. inFlight' = inFlight  BY <1>3
    <3> QED BY <2>11, <3>1, <3>2, SlotSame, Zenon
  <2>13. RowFine(b)'  BY <1>1, <1>3, <2>9, SMT DEF IInv, RowFine, Adds, Guard, Exists
  <2>14. DriverFine(b)'
    <3>1. /\ driver[b].index = 0 /\ driver[b].progress.pending = Items /\ ~driver[b].stopped
          /\ Adds(driver[b].progress) /\ driver[b].progress.sent = sends[b]
      BY <1>1, SMT DEF IInv, DriverFine, Early
    <3>2. driver[b].progress.cancelled = 0 /\ Items = Items - 0
      BY <3>1, BulkAssumption, SMT DEF Adds, Progress, BulkAssumption
    <3>3. /\ driver'[b].pc \in {"top", "noengine"} /\ driver'[b].index = driver[b].index
          /\ driver'[b].progress = driver[b].progress /\ driver'[b].stopped = driver[b].stopped
      BY <2>2, <2>6, <2>8, Zenon
    <3> QED BY <1>1, <3>1, <3>2, <3>3, SMT DEF DriverFine, Early, Going, Idle, Adds
  <2> QED BY <2>11, <2>12, <2>13, <2>14, OneBatch
<1> QED BY <1>2, <1>3, Zenon DEF MarkProcessing

\* One more outcome is one pending message less.
LEMMA OutcomeAdds ==
    ASSUME NEW p, Adds(p), p.pending > 0, NEW o \in {"sent", "failed"}
    PROVE  /\ Adds(Outcome(p, o)) /\ Outcome(p, o).pending = p.pending - 1
           /\ Outcome(p, o).cancelled = p.cancelled
           /\ Outcome(p, o).sent = IF o = "sent" THEN p.sent + 1 ELSE p.sent
<1>1. p \in Progress /\ p.sent + p.failed + p.pending + p.cancelled = Items  BY Zenon DEF Adds
<1>2. /\ p.sent \in 0..Items /\ p.failed \in 0..Items /\ p.pending \in 0..Items
      /\ p.cancelled \in 0..Items
  BY <1>1, Zenon DEF Progress
<1>3. Items \in Nat  BY BulkAssumption, SMT DEF BulkAssumption
<1>4. p.pending - 1 \in 0..Items /\ p.sent + 1 \in 0..Items /\ p.failed + 1 \in 0..Items
  BY <1>1, <1>2, <1>3, SMT
<1>5. CASE o = "sent"
  <2>1. PICK q : q = [[p EXCEPT !.sent = p.sent + 1] EXCEPT !.pending = p.pending - 1]  OBVIOUS
  <2>2. q = Outcome(p, o)  BY <1>5, <2>1 DEF Outcome
  <2>3. PICK h : h = [p EXCEPT !.sent = p.sent + 1]  OBVIOUS
  <2>4. h \in Progress /\ h.sent = p.sent + 1 /\ h.failed = p.failed /\ h.cancelled = p.cancelled
    BY <1>1, <1>4, <2>3, Zenon DEF Progress
  <2>5. q = [h EXCEPT !.pending = p.pending - 1]  BY <2>1, <2>3, Zenon
  <2>6. /\ q \in Progress /\ q.sent = p.sent + 1 /\ q.failed = p.failed
        /\ q.cancelled = p.cancelled /\ q.pending = p.pending - 1
    BY <1>4, <2>4, <2>5, Zenon DEF Progress
  <2>7. Adds(q)
    <3>1. q.sent + q.failed + q.pending + q.cancelled = Items
      BY <1>1, <1>2, <1>3, <2>6, SMT
    <3> QED BY <2>6, <3>1, Zenon DEF Adds
  <2> QED BY <1>5, <2>2, <2>6, <2>7, Zenon
<1>6. CASE o = "failed"
  <2>1. PICK q : q = [[p EXCEPT !.failed = p.failed + 1] EXCEPT !.pending = p.pending - 1]  OBVIOUS
  <2>2. q = Outcome(p, o)  BY <1>6, <2>1 DEF Outcome
  <2>3. PICK h : h = [p EXCEPT !.failed = p.failed + 1]  OBVIOUS
  <2>4. h \in Progress /\ h.failed = p.failed + 1 /\ h.sent = p.sent /\ h.cancelled = p.cancelled
    BY <1>1, <1>4, <2>3, Zenon DEF Progress
  <2>5. q = [h EXCEPT !.pending = p.pending - 1]  BY <2>1, <2>3, Zenon
  <2>6. /\ q \in Progress /\ q.failed = p.failed + 1 /\ q.sent = p.sent
        /\ q.cancelled = p.cancelled /\ q.pending = p.pending - 1
    BY <1>4, <2>4, <2>5, Zenon DEF Progress
  <2>7. Adds(q)
    <3>1. q.sent + q.failed + q.pending + q.cancelled = Items
      BY <1>1, <1>2, <1>3, <2>6, SMT
    <3> QED BY <2>6, <3>1, Zenon DEF Adds
  <2>8. o # "sent"  BY <1>6, SMT
  <2> QED BY <2>2, <2>6, <2>7, <2>8, Zenon
<1> QED BY <1>5, <1>6, Zenon

\* Counting the pending messages as cancelled loses none, when none was so counted before.
LEMMA CancelledAdds ==
    ASSUME NEW p, Adds(p), p.cancelled = 0
    PROVE  Adds(Cancelled(p)) /\ Cancelled(p).sent = p.sent
<1>1. p \in Progress /\ p.sent + p.failed + p.pending + p.cancelled = Items  BY Zenon DEF Adds
<1>2. /\ p.sent \in 0..Items /\ p.failed \in 0..Items /\ p.pending \in 0..Items
      /\ p.cancelled \in 0..Items
  BY <1>1, Zenon DEF Progress
<1>3. Items \in Nat  BY BulkAssumption, SMT DEF BulkAssumption
<1>4. PICK h : h = [p EXCEPT !.cancelled = p.pending]  OBVIOUS
<1>5. /\ h \in Progress /\ h.sent = p.sent /\ h.failed = p.failed /\ h.pending = p.pending
      /\ h.cancelled = p.pending
  BY <1>1, <1>2, <1>4, Zenon DEF Progress
<1>6. PICK q : q = [h EXCEPT !.pending = 0]  OBVIOUS
<1>7. 0 \in 0..Items  BY <1>3, SMT
<1>8. /\ q \in Progress /\ q.sent = p.sent /\ q.failed = p.failed /\ q.pending = 0
      /\ q.cancelled = p.pending
  BY <1>5, <1>6, <1>7, Zenon DEF Progress
<1>9. q.sent + q.failed + q.pending + q.cancelled = Items
  BY <1>1, <1>2, <1>3, <1>8, SMT
<1>10. q = Cancelled(p)  BY <1>4, <1>6 DEF Cancelled
<1> QED BY <1>8, <1>9, <1>10, Zenon DEF Adds

\* What an outcome does to the driver: it stops, or goes on to the next item, saving its
\* progress every SaveEvery items.
LEMMA DoneIs ==
    ASSUME Types, NEW b \in Batch, driver[b].index < Items, ~driver[b].stopped, NEW o, Done(b, o),
           NEW q \in Progress, q = Outcome(driver[b].progress, o)
    PROVE  \E e \in Driver :
               /\ driver' = [driver EXCEPT ![b] = e] /\ e.progress = q
               /\ \/ e.pc = "reread" /\ e.stopped
                  \/ /\ e.pc \in {"progress", "top"} /\ e.index = driver[b].index + 1 /\ ~e.stopped
                     /\ e.pc = "top" => driver[b].index % SaveEvery # 0
<1>1. PICK d : d = driver[b]  OBVIOUS
<1>2. d \in Driver /\ d.index \in 0..Items /\ d.index < Items /\ ~d.stopped
  BY <1>1, Zenon DEF Types, Driver
<1>3. PICK h : h = [d EXCEPT !.progress = q]  OBVIOUS
<1>4. h \in Driver /\ h.progress = q /\ h.index = d.index /\ h.stopped = d.stopped
  BY <1>2, <1>3, Zenon DEF Driver
<1>5. CASE o = "failed" /\ b \in StopOnError
  <2>1. PICK g : g = [h EXCEPT !.stopped = TRUE]  OBVIOUS
  <2>2. g \in Driver /\ g.progress = q /\ g.stopped
    <3>1. TRUE \in BOOLEAN  OBVIOUS
    <3> QED BY <1>4, <2>1, <3>1, Zenon DEF Driver
  <2>3. PICK e : e = [g EXCEPT !.pc = "reread"]  OBVIOUS
  <2>4. e \in Driver /\ e.progress = q /\ e.stopped /\ e.pc = "reread"
    <3>1. "reread" \in PC  BY SMT DEF PC
    <3> QED BY <2>2, <2>3, <3>1, Zenon DEF Driver
  <2>5. driver' = [driver EXCEPT ![b] = e]
    BY <1>1, <1>3, <1>5, <2>1, <2>3 DEF Done
  <2> QED BY <2>4, <2>5, Zenon
<1>6. CASE ~(o = "failed" /\ b \in StopOnError)
  <2>1. PICK i : i = d.index + 1  OBVIOUS
  <2>2. i \in 0..Items  BY <1>2, <2>1, BulkAssumption, SMT DEF BulkAssumption
  <2>3. PICK g : g = [h EXCEPT !.index = i]  OBVIOUS
  <2>4. g \in Driver /\ g.progress = q /\ g.stopped = d.stopped /\ g.index = i
    BY <1>4, <2>2, <2>3, Zenon DEF Driver
  <2>5. PICK pc : pc = IF d.index % SaveEvery = 0 \/ d.index = Items - 1 THEN "progress" ELSE "top"
    OBVIOUS
  <2>6. pc \in {"progress", "top"} /\ pc \in PC /\ (pc = "top" => d.index % SaveEvery # 0)
    <3>1. {"progress", "top"} \subseteq PC /\ "progress" # "top"  BY SMT DEF PC
    <3> QED BY <2>5, <3>1, Zenon
  <2>7. PICK e : e = [g EXCEPT !.pc = pc]  OBVIOUS
  <2>8. e \in Driver /\ e.progress = q /\ e.stopped = d.stopped /\ e.index = i /\ e.pc = pc
    BY <2>4, <2>6, <2>7, Zenon DEF Driver
  <2>9. driver' = [driver EXCEPT ![b] = e]
    BY <1>1, <1>3, <1>6, <2>1, <2>3, <2>5, <2>7 DEF Done
  <2> QED BY <1>1, <1>2, <2>1, <2>6, <2>8, <2>9, Zenon
<1> QED BY <1>5, <1>6

\* The end of an item keeps the invariant: a message the engine accepted is counted.
LEMMA DoneFine ==
    ASSUME IInv, NEW b \in Batch, driver[b].pc \in {"top", "gate", "sending"}, driver[b].index < Items,
           NEW o \in {"sent", "failed"}, Done(b, o), flag' = flag,
           sends' = IF o = "sent" THEN [sends EXCEPT ![b] = sends[b] + 1] ELSE sends,
           UNCHANGED <<row, inFlight, cancels, reaps>>
    PROVE  IInv'
<1>1. PICK d : d = driver[b]  OBVIOUS
<1>2. /\ d \in Driver /\ Adds(d.progress) /\ d.progress.sent = sends[b] /\ d.progress.cancelled = 0
      /\ d.progress.pending = Items - d.index /\ ~d.stopped /\ d.index < Items
      /\ d.pc \in {"top", "gate", "sending"} /\ d.pc \notin Idle
  <2>1. d \in Driver /\ DriverFine(b)  BY <1>1, Zenon DEF IInv, Types
  <2> QED BY <1>1, <2>1, SMT DEF DriverFine, Going, Idle
<1>3. Items \in Nat /\ d.index \in 0..Items /\ sends[b] \in 0..Items
  <2>1. Items \in Nat  BY BulkAssumption, SMT DEF BulkAssumption
  <2>2. d.index \in 0..Items  BY <1>2, Zenon DEF Driver
  <2>3. sends[b] \in 0..Items  BY Zenon DEF IInv, Types
  <2> QED BY <2>1, <2>2, <2>3
<1>4. d.progress.pending > 0  BY <1>2, <1>3, SMT
<1>5. PICK q : q = Outcome(d.progress, o)  OBVIOUS
<1>6. /\ Adds(q) /\ q.pending = d.progress.pending - 1 /\ q.cancelled = 0
      /\ q.sent = IF o = "sent" THEN d.progress.sent + 1 ELSE d.progress.sent
  BY <1>2, <1>4, <1>5, OutcomeAdds, Zenon
<1>7. q \in Progress  BY <1>6, Zenon DEF Adds
<1>8. /\ sends' \in [Batch -> 0..Items] /\ sends'[b] = q.sent /\ sends'[b] >= sends[b]
      /\ \A e \in Batch \ {b} : sends'[e] = sends[e]
  <2>1. q.sent \in 0..Items  BY <1>7, Zenon DEF Progress
  <2>2. sends \in [Batch -> 0..Items]  BY Zenon DEF IInv, Types
  <2> QED BY <1>2, <1>3, <1>6, <2>1, <2>2, SMT
<1>9. PICK e \in Driver : /\ driver' = [driver EXCEPT ![b] = e] /\ e.progress = q
                          /\ \/ e.pc = "reread" /\ e.stopped
                             \/ e.pc \in {"progress", "top"} /\ e.index = d.index + 1 /\ ~e.stopped
  <2>1. /\ Types /\ driver[b].index < Items /\ ~driver[b].stopped /\ q \in Progress
        /\ q = Outcome(driver[b].progress, o)
    BY <1>1, <1>2, <1>5, <1>7, Zenon DEF IInv
  <2>2. PICK e \in Driver :
            /\ driver' = [driver EXCEPT ![b] = e] /\ e.progress = q
            /\ \/ e.pc = "reread" /\ e.stopped
               \/ /\ e.pc \in {"progress", "top"} /\ e.index = driver[b].index + 1 /\ ~e.stopped
                  /\ e.pc = "top" => driver[b].index % SaveEvery # 0
    BY <2>1, DoneIs
  <2> QED BY <1>1, <2>2, Zenon
<1>10. driver'[b] = e /\ driver' \in [Batch -> Driver] /\ \A x \in Batch \ {b} : driver'[x] = driver[x]
  BY <1>9, Zenon DEF IInv, Types
<1>11. e.pc \in {"reread", "progress", "top"}  BY <1>9, SMT
<1>12. Apart(b)  BY <1>8, <1>10, Zenon DEF Apart, IInv, Types
<1>13. Slots'
  <2>1. driver[b].pc \notin Idle /\ driver'[b].pc \notin Idle
    BY <1>1, <1>2, <1>10, <1>11, SMT DEF Idle
  <2> QED BY <1>12, <2>1, SlotSame, Zenon
<1>14. RowFine(b)'
  <2>1. RowFine(b) /\ row' = row  BY Zenon DEF IInv
  <2>2. row[b].status # "completed"
    <3>1. driver[b].pc # "done"  BY <1>1, <1>2, SMT
    <3> QED BY <3>1, DriveRow, Zenon
  <2>3. row[b].progress.sent \in 0..Items  BY <2>1, Zenon DEF RowFine, Adds, Progress
  <2>4. sends'[b] \in 0..Items  BY <1>8, Zenon
  <2>5. row[b].progress.sent <= sends'[b]
    BY <1>3, <1>8, <2>1, <2>3, <2>4, SMT DEF RowFine
  <2> QED BY <2>1, <2>2, <2>5, Zenon DEF RowFine, Adds
<1>15. DriverFine(b)'
  <2>1. driver'[b].pc \in Going /\ driver'[b].pc \notin Early \cup Idle \cup {"saving", "pickup", "final"}
    BY <1>10, <1>11, SMT DEF Going, Early, Idle
  <2>2. driver'[b].progress = q /\ Adds(q) /\ q.sent = sends'[b] /\ q.cancelled = 0
    BY <1>6, <1>8, <1>9, <1>10, Zenon
  <2>3. CASE e.pc = "reread" /\ e.stopped
    BY <1>10, <2>1, <2>2, <2>3, SMT DEF DriverFine, Adds
  <2>4. CASE e.pc \in {"progress", "top"} /\ e.index = d.index + 1 /\ ~e.stopped
    <3>1. q.pending = Items - e.index  BY <1>2, <1>3, <1>6, <2>4, SMT
    <3> QED BY <1>10, <2>1, <2>2, <2>4, <3>1, SMT DEF DriverFine, Adds
  <2> QED BY <1>9, <2>3, <2>4
<1> QED BY <1>12, <1>13, <1>14, <1>15, OneBatch

\* Failing the batch without an engine keeps the invariant.
LEMMA FailWithoutEngineKeeps ==
    ASSUME IInv, NEW b \in Batch, FailWithoutEngine(b)
    PROVE  IInv'
<1>1. /\ driver[b].pc \notin Idle /\ driver[b].pc # "done"
      /\ row' = (IF Guard(b) THEN [row EXCEPT ![b].status = "failed"] ELSE row)
      /\ Leave(b, "done", TRUE) /\ UNCHANGED <<cancels, reaps, sends>>
  <2>1. "noengine" \notin Idle /\ "noengine" # "done"  BY SMT DEF Idle
  <2> QED BY <2>1, Zenon DEF FailWithoutEngine, calls, ghost
<1>2. row[b].status # "completed"  BY <1>1, DriveRow, Zenon
<1>3. /\ row' \in [Batch -> Row] /\ \A e \in Batch \ {b} : row'[e] = row[e]
      /\ row'[b].progress = row[b].progress
      /\ row'[b].status = row[b].status \/ (Guard(b) /\ row'[b].status = "failed")
  <2>1. CASE Guard(b)
    <3>1. "failed" \in Status  BY SMT DEF Status
    <3> QED BY <1>1, <2>1, <3>1, RowStatus, Zenon DEF IInv
  <2>2. CASE ~Guard(b)
    <3>1. row' = row  BY <1>1, <2>2, Zenon
    <3> QED BY <3>1, Zenon DEF IInv, Types
  <2> QED BY <2>1, <2>2
<1>4. Apart(b) /\ DriverFine(b)' /\ Slots'  BY <1>1, <1>3, Leaves, Zenon
<1>5. RowFine(b)'  BY <1>1, <1>2, <1>3, SMT DEF IInv, RowFine, Adds, Guard, Exists
<1> QED BY <1>4, <1>5, OneBatch

\* A driver that goes to its next await, or to its end when no item is left, keeps it.
LEMMA GotoFine ==
    ASSUME IInv, NEW b \in Batch, NEW pc \in Going, Goto(b, pc), driver[b].pc \in Going \ {"reread"},
           pc \in {"gate", "sending"} => driver[b].index < Items,
           pc = "reread" => driver[b].index = Items \/ flag[b] # "on",
           UNCHANGED <<row, flag, inFlight, sends, cancels, reaps>>
    PROVE  IInv'
<1>1. pc \in PC /\ pc \notin Idle /\ driver[b].pc \notin Idle /\ driver[b].pc # "done"
  BY SMT DEF Going, PC, Idle
<1>2. /\ driver'[b].pc = pc /\ driver'[b].index = driver[b].index
      /\ driver'[b].progress = driver[b].progress /\ driver'[b].stopped = driver[b].stopped
  BY <1>1, ToPc, Zenon DEF IInv
<1>3. Apart(b) /\ Slots'  BY <1>1, PcMoves, Zenon DEF IInv, Types
<1>4. row[b].status # "completed"  BY <1>1, DriveRow, Zenon
<1>5. RowFine(b)'  BY <1>4, RowKept, Zenon DEF IInv
<1>6. /\ Adds(driver[b].progress) /\ driver[b].progress.sent = sends[b]
      /\ driver[b].progress.cancelled = 0 /\ driver[b].progress.pending = Items - driver[b].index
      /\ ~driver[b].stopped
  BY <1>1, SMT DEF IInv, DriverFine
<1>7. Items \in Nat  BY BulkAssumption, SMT DEF BulkAssumption
<1>8. DriverFine(b)'
  <2>1. pc \notin Early \cup {"final", "saving", "pickup", "none"}  BY SMT DEF Going, Early
  <2>2. driver[b].index = Items => driver[b].progress.pending = 0  BY <1>6, <1>7, SMT
  <2> QED BY <1>1, <1>2, <1>6, <2>1, <2>2, SMT DEF DriverFine, Adds
<1> QED BY <1>3, <1>5, <1>8, OneBatch

\* The entry of an item keeps the invariant.
LEMMA NextItemKeeps ==
    ASSUME IInv, NEW b \in Batch, NextItem(b)
    PROVE  IInv'
<1>1. /\ driver[b].pc = "top" /\ driver[b].pc \in Going \ {"reread"}
      /\ "reread" \in Going /\ "gate" \in Going
      /\ UNCHANGED <<row, flag, inFlight, sends, cancels, reaps>>
  BY SMT DEF NextItem, Going, calls, ghost
<1>2. CASE (driver[b].index = Items \/ flag[b] # "on") /\ Goto(b, "reread")
  BY <1>1, <1>2, GotoFine, SMT
<1>3. ASSUME ~(driver[b].index = Items)  PROVE driver[b].index < Items
  <2>1. driver[b].index \in 0..Items  BY Zenon DEF IInv, Types, Driver
  <2> QED BY <1>3, <2>1, BulkAssumption, SMT DEF BulkAssumption
<1>4. CASE ~(driver[b].index = Items) /\ Done(b, "failed")
  <2>1. "failed" # "sent"  BY SMT
  <2> QED BY <1>1, <1>3, <1>4, <2>1, DoneFine, Zenon
<1>5. CASE ~(driver[b].index = Items) /\ Goto(b, "gate")
  <2>1. "gate" # "reread"  BY SMT
  <2> QED BY <1>1, <1>3, <1>5, <2>1, GotoFine, Zenon
<1> QED BY <1>2, <1>4, <1>5, Zenon DEF NextItem

\* Past the entry an item is left.
LEMMA InItem ==
    ASSUME IInv, NEW b \in Batch, driver[b].pc \in {"gate", "sending"}
    PROVE  driver[b].index < Items
  BY Zenon DEF IInv, DriverFine

\* The gate keeps the invariant.
LEMMA GatedKeeps ==
    ASSUME IInv, NEW b \in Batch, Gated(b)
    PROVE  IInv'
<1>1. /\ driver[b].pc = "gate" /\ driver[b].pc \in Going \ {"reread"} /\ "sending" \in Going
      /\ UNCHANGED <<row, flag, inFlight, sends, cancels, reaps>>
      /\ "sending" # "reread" /\ "failed" # "sent"
  BY SMT DEF Gated, Going, calls, ghost
<1>2. driver[b].index < Items  BY <1>1, InItem, Zenon
<1>3. CASE Goto(b, "sending")  BY <1>1, <1>2, <1>3, GotoFine, Zenon
<1>4. CASE Done(b, "failed")  BY <1>1, <1>2, <1>4, DoneFine, Zenon
<1> QED BY <1>3, <1>4, Zenon DEF Gated

\* An accepted message keeps the invariant.
LEMMA SentKeeps ==
    ASSUME IInv, NEW b \in Batch, Sent(b)
    PROVE  IInv'
<1>1. /\ driver[b].pc = "sending" /\ Done(b, "sent") /\ sends' = [sends EXCEPT ![b] = sends[b] + 1]
      /\ UNCHANGED <<row, flag, inFlight, cancels, reaps>>
  BY Zenon DEF Sent, calls
<1>2. driver[b].index < Items  BY <1>1, InItem, Zenon
<1> QED BY <1>1, <1>2, DoneFine, Zenon

\* A refused message keeps the invariant.
LEMMA SendFailsKeeps ==
    ASSUME IInv, NEW b \in Batch, SendFails(b)
    PROVE  IInv'
<1>1. /\ driver[b].pc = "sending" /\ Done(b, "failed") /\ "failed" # "sent"
      /\ UNCHANGED <<row, flag, inFlight, sends, cancels, reaps>>
  BY SMT DEF SendFails, calls, ghost
<1>2. driver[b].index < Items  BY <1>1, InItem, Zenon
<1> QED BY <1>1, <1>2, DoneFine, Zenon

\* Fixing a verdict keeps the invariant.
LEMMA ToFinal ==
    ASSUME IInv, NEW b \in Batch, driver[b].pc \in Going,
           NEW c \in BOOLEAN, NEW v \in Over \cup {"processing"}, NEW q, Adds(q), q.sent = sends[b],
           v # "cancelled" => q.cancelled = 0, v = "completed" => q.pending = 0,
           driver' = [driver EXCEPT ![b] =
               [driver[b] EXCEPT !.pc = "final", !.cancelled = c, !.verdict = v, !.progress = q]],
           UNCHANGED <<row, flag, inFlight, sends, cancels, reaps>>
    PROVE  IInv'
<1>1. driver[b].pc \notin Idle /\ driver[b].pc # "done" /\ "final" \in PC /\ "final" \notin Idle
  BY SMT DEF Going, Idle, PC
<1>2. driver[b] \in Driver /\ q \in Progress  BY Zenon DEF IInv, Types, Adds
<1>3. PICK f : f = [driver[b] EXCEPT !.pc = "final"]  OBVIOUS
<1>4. f \in Driver /\ f.pc = "final"  BY <1>1, <1>2, <1>3, Zenon DEF Driver
<1>5. PICK g : g = [f EXCEPT !.cancelled = c]  OBVIOUS
<1>6. g \in Driver /\ g.pc = "final"  BY <1>4, <1>5, Zenon DEF Driver
<1>7. PICK h : h = [g EXCEPT !.verdict = v]  OBVIOUS
<1>8. h \in Driver /\ h.pc = "final" /\ h.verdict = v  BY <1>6, <1>7, Zenon DEF Driver
<1>9. PICK d : d = [h EXCEPT !.progress = q]  OBVIOUS
<1>10. d \in Driver /\ d.pc = "final" /\ d.verdict = v /\ d.progress = q
  BY <1>2, <1>8, <1>9, Zenon DEF Driver
<1>11. driver' = [driver EXCEPT ![b] = d]  BY <1>3, <1>5, <1>7, <1>9
<1>12. driver'[b] = d /\ driver' \in [Batch -> Driver] /\ \A e \in Batch \ {b} : driver'[e] = driver[e]
  BY <1>10, <1>11, Zenon DEF IInv, Types
<1>13. sends'[b] >= sends[b]
  <2>1. sends[b] \in 0..Items  BY Zenon DEF IInv, Types
  <2> QED BY <2>1, SMT
<1>14. Apart(b)  BY <1>12, <1>13, Zenon DEF Apart, IInv, Types
<1>15. Slots'
  <2>1. driver[b].pc \notin Idle /\ driver'[b].pc \notin Idle  BY <1>1, <1>10, <1>12, Zenon
  <2>2. inFlight' = inFlight  OBVIOUS
  <2> QED BY <1>14, <2>1, <2>2, SlotSame, Zenon
<1>16. row[b].status # "completed"  BY <1>1, DriveRow, Zenon
<1>17. RowFine(b)'  BY <1>16, RowKept, Zenon DEF IInv
<1>18. DriverFine(b)'
  BY <1>10, <1>12, SMT DEF DriverFine, Adds, Early, Going, Idle
<1> QED BY <1>14, <1>15, <1>17, <1>18, OneBatch

\* The write of the progress keeps the invariant, whether it matches the row or not.
LEMMA SaveProgressKeeps ==
    ASSUME IInv, NEW b \in Batch, SaveProgress(b)
    PROVE  IInv'
<1>1. PICK d : d = driver[b]  OBVIOUS
<1>2. /\ d.pc = "progress" /\ d.pc \in Going \ {"reread"} /\ d.pc \notin Idle
      /\ UNCHANGED <<flag, inFlight, sends, cancels, reaps>>
  BY <1>1, SMT DEF SaveProgress, Going, Idle, calls, ghost
<1>3. /\ d \in Driver /\ Adds(d.progress) /\ d.progress.sent = sends[b] /\ d.progress.cancelled = 0
      /\ d.progress.pending = Items - d.index /\ ~d.stopped
  <2>1. d \in Driver /\ DriverFine(b)  BY <1>1, Zenon DEF IInv, Types
  <2> QED BY <1>1, <1>2, <2>1, SMT DEF DriverFine
<1>4. CASE Guard(b)
  <2>1. /\ row' = [row EXCEPT ![b].progress = d.progress, ![b].index = d.index]
        /\ Goto(b, "top")
    BY <1>1, <1>4 DEF SaveProgress
  <2>2. PICK s : s = [row[b] EXCEPT !.progress = d.progress]  OBVIOUS
  <2>3. row[b] \in Row /\ d.progress \in Progress /\ d.index \in 0..Items
    BY <1>3, Zenon DEF IInv, Types, Driver
  <2>4. s \in Row /\ s.progress = d.progress /\ s.status = row[b].status
    BY <2>2, <2>3, Zenon DEF Row
  <2>5. PICK r : r = [s EXCEPT !.index = d.index]  OBVIOUS
  <2>6. r \in Row /\ r.progress = d.progress /\ r.status = row[b].status
    BY <2>3, <2>4, <2>5, Zenon DEF Row
  <2>7. row' = [row EXCEPT ![b] = r]  BY <2>1, <2>2, <2>5
  <2>8. row' \in [Batch -> Row] /\ row'[b] = r /\ \A e \in Batch \ {b} : row'[e] = row[e]
    BY <2>6, <2>7, RowSet, Zenon DEF IInv
  <2>9. "top" \in PC /\ "top" \notin Idle  BY SMT DEF PC, Idle
  <2>10. Apart(b) /\ Slots'
    BY <1>1, <1>2, <2>1, <2>8, <2>9, PcMoves, Zenon DEF IInv, Types
  <2>11. /\ driver'[b].pc = "top" /\ driver'[b].index = d.index
         /\ driver'[b].progress = d.progress /\ driver'[b].stopped = d.stopped
    BY <1>1, <2>1, <2>9, ToPc, Zenon DEF IInv
  <2>12. row[b].status # "completed"
    <3>1. driver[b].pc # "done"  BY <1>1, <1>2, SMT
    <3> QED BY <3>1, DriveRow, Zenon
  <2>13. sends[b] \in 0..Items  BY Zenon DEF IInv, Types
  <2>14. RowFine(b)'
    BY <1>2, <1>3, <2>6, <2>8, <2>12, <2>13, BulkAssumption, SMT DEF RowFine, Adds, BulkAssumption
  <2>15. DriverFine(b)'
    BY <1>2, <1>3, <2>11, SMT DEF DriverFine, Adds, Early, Going, Idle
  <2> QED BY <2>10, <2>14, <2>15, OneBatch
<1>5. CASE ~Guard(b)
  <2>1. /\ driver' = [driver EXCEPT ![b] =
             [driver[b] EXCEPT !.pc = "final", !.cancelled = TRUE, !.verdict = "cancelled",
                               !.progress = Cancelled(d.progress)]]
        /\ UNCHANGED row
    BY <1>1, <1>5 DEF SaveProgress
  <2>2. Adds(Cancelled(d.progress)) /\ Cancelled(d.progress).sent = sends[b]
    BY <1>3, CancelledAdds, Zenon
  <2>3. "cancelled" \in Over \cup {"processing"} /\ "cancelled" # "completed"  BY SMT DEF Over
  <2>4. TRUE \in BOOLEAN  OBVIOUS
  <2> QED BY <1>1, <1>2, <2>1, <2>2, <2>3, <2>4, ToFinal, Zenon
<1> QED BY <1>4, <1>5

\* resolveFinalBatchStatus(): completed only when neither cancelled nor stopped.
LEMMA VerdictFine ==
    ASSUME NEW c \in BOOLEAN, NEW stopped \in BOOLEAN, NEW p
    PROVE  /\ Verdict(c, stopped, p) \in Over
           /\ Verdict(c, stopped, p) = "cancelled" <=> c
           /\ Verdict(c, stopped, p) = "completed" => ~c /\ ~stopped
<1>1. {"cancelled", "failed", "completed"} = Over /\ "failed" # "cancelled" /\ "completed" # "cancelled"
      /\ "completed" # "failed"
  BY SMT DEF Over
<1>2. PICK x : x = (p.failed > 0 /\ p.sent = 0)  OBVIOUS
<1>3. Verdict(c, stopped, p) = IF c THEN "cancelled" ELSE IF stopped \/ x THEN "failed" ELSE "completed"
  BY <1>2, Zenon DEF Verdict
<1>4. CASE c  BY <1>1, <1>3, <1>4, Zenon
<1>5. CASE ~c /\ (stopped \/ x)  BY <1>1, <1>3, <1>5, Zenon
<1>6. CASE ~c /\ ~(stopped \/ x)  BY <1>1, <1>3, <1>6, Zenon
<1> QED BY <1>4, <1>5, <1>6

\* The second read keeps the invariant.
LEMMA RereadKeeps ==
    ASSUME IInv, NEW b \in Batch, Reread(b)
    PROVE  IInv'
<1>1. PICK d : d = driver[b]  OBVIOUS
<1>2. PICK c : c = (row[b].status = "cancelled" \/ flag[b] # "on")  OBVIOUS
<1>3. c \in BOOLEAN  BY <1>2, Zenon
<1>4. PICK v : v = Verdict(c, d.stopped, d.progress)  OBVIOUS
<1>5. PICK q : q = IF c THEN Cancelled(d.progress) ELSE d.progress  OBVIOUS
<1>6. /\ d.pc = "reread" /\ d.pc \in Going
      /\ driver' = [driver EXCEPT ![b] =
             [driver[b] EXCEPT !.pc = "final", !.cancelled = c, !.verdict = v, !.progress = q]]
      /\ UNCHANGED <<row, flag, inFlight, sends, cancels, reaps>>
  <2>1. d.pc = "reread" /\ "reread" \in Going  BY <1>1, SMT DEF Reread, Going
  <2>2. driver' = [driver EXCEPT ![b] =
             [driver[b] EXCEPT !.pc = "final", !.cancelled = c, !.verdict = v, !.progress = q]]
    BY <1>1, <1>2, <1>4, <1>5 DEF Reread
  <2>3. UNCHANGED <<row, flag, inFlight, sends, cancels, reaps>>  BY Zenon DEF Reread, calls, ghost
  <2> QED BY <2>1, <2>2, <2>3, Zenon
<1>7. /\ d \in Driver /\ Adds(d.progress) /\ d.progress.sent = sends[b] /\ d.progress.cancelled = 0
      /\ d.stopped \/ d.progress.pending = 0 \/ flag[b] # "on"
  <2>1. d \in Driver /\ DriverFine(b)  BY <1>1, Zenon DEF IInv, Types
  <2>2. d.pc \notin Idle  BY <1>6, SMT DEF Idle
  <2> QED BY <1>1, <1>6, <2>1, <2>2, Zenon DEF DriverFine
<1>8. d.stopped \in BOOLEAN  BY <1>7, Zenon DEF Driver
<1>9. v \in Over /\ (v = "cancelled" <=> c) /\ (v = "completed" => ~c /\ ~d.stopped)
  BY <1>3, <1>4, <1>8, VerdictFine, Zenon
<1>10. Adds(q) /\ q.sent = sends[b]
  BY <1>5, <1>7, CancelledAdds, Zenon
<1>11. v # "cancelled" => q.cancelled = 0  BY <1>5, <1>7, <1>9, Zenon
<1>12. v = "completed" => q.pending = 0  BY <1>2, <1>5, <1>7, <1>9, Zenon
<1>13. v \in Over \cup {"processing"}  BY <1>9, Zenon
<1> QED BY <1>1, <1>3, <1>6, <1>10, <1>11, <1>12, <1>13, ToFinal, Zenon

\* The last write keeps the invariant.
LEMMA FinalizeKeeps ==
    ASSUME IInv, NEW b \in Batch, Finalize(b)
    PROVE  IInv'
<1>1. PICK d : d = driver[b]  OBVIOUS
<1>2. PICK r : r = Final(d)  OBVIOUS
<1>3. /\ d.pc = "final" /\ d.pc \notin Idle /\ d.pc # "done"
      /\ row' = (IF d.verdict = "cancelled" \/ Guard(b) THEN [row EXCEPT ![b] = r] ELSE row)
      /\ Leave(b, "done", TRUE) /\ UNCHANGED <<cancels, reaps, sends>>
  <2>1. "final" \notin Idle /\ "final" # "done"  BY SMT DEF Idle
  <2> QED BY <1>1, <1>2, <2>1, Zenon DEF Finalize, calls, ghost
<1>4. /\ d \in Driver /\ Adds(d.progress) /\ d.progress.sent = sends[b]
      /\ d.verdict # "cancelled" => d.progress.cancelled = 0
      /\ d.verdict = "completed" => d.progress.pending = 0
  <2>1. d \in Driver /\ DriverFine(b)  BY <1>1, Zenon DEF IInv, Types
  <2> QED BY <1>1, <1>3, <2>1, Zenon DEF DriverFine
<1>5. r \in Row /\ r.status = d.verdict /\ r.progress = d.progress
  <2>1. d.verdict \in Status /\ d.progress \in Progress /\ d.index \in 0..Items
    <3>1. Over \cup {"processing"} \subseteq Status  BY SMT DEF Over, Status
    <3> QED BY <1>4, <3>1, Zenon DEF Driver
  <2> QED BY <1>2, <2>1, Zenon DEF Final, Row
<1>6. row[b].status # "completed"  BY <1>1, <1>3, DriveRow, Zenon
<1>7. /\ row' \in [Batch -> Row] /\ \A e \in Batch \ {b} : row'[e] = row[e]
      /\ row'[b] = row[b] \/ row'[b] = r
  <2>1. CASE d.verdict = "cancelled" \/ Guard(b)
    <3>1. row' = [row EXCEPT ![b] = r]  BY <1>3, <2>1, Zenon
    <3> QED BY <1>5, <3>1, RowSet, Zenon DEF IInv
  <2>2. CASE ~(d.verdict = "cancelled" \/ Guard(b))  BY <1>3, <2>2, Zenon DEF IInv, Types
  <2> QED BY <2>1, <2>2
<1>8. Apart(b) /\ DriverFine(b)' /\ Slots' /\ driver'[b].pc = "done"
  BY <1>1, <1>3, <1>7, Leaves, Zenon
<1>9. RowFine(b)'
  <2>1. CASE row'[b] = row[b]
    <3>1. sends'[b] = sends[b] /\ RowFine(b)  BY <1>3, Zenon DEF IInv
    <3> QED BY <1>6, <2>1, <3>1, RowKept, Zenon
  <2>2. CASE row'[b] = r
    <3>1. sends[b] \in 0..Items /\ Items \in Nat  BY BulkAssumption, Zenon DEF IInv, Types, BulkAssumption
    <3>2. d.progress.sent <= sends[b]  BY <1>4, <3>1, SMT
    <3> QED BY <1>3, <1>4, <1>5, <1>8, <2>2, <3>2, Zenon DEF RowFine, Adds
  <2> QED BY <1>7, <2>1, <2>2
<1> QED BY <1>8, <1>9, OneBatch

\* A failed query keeps the invariant.
LEMMA ThrowsKeeps ==
    ASSUME IInv, NEW b \in Batch, Throws(b)
    PROVE  IInv'
<1>1. /\ driver[b].pc \notin Idle /\ Leave(b, "threw", driver[b].pc # "pickup")
      /\ UNCHANGED <<row, sends, cancels, reaps>>
  BY SMT DEF Throws, Idle, calls, ghost
<1> QED BY <1>1, LeaveKeeps, Zenon

-----------------------------------------------------------------------------
\* A step of a cancel or a reaper alone keeps the invariant when what it reads adds up.
LEMMA CallsMove ==
    ASSUME IInv, UNCHANGED <<row, driver, flag, inFlight, sends>>,
           \A c \in cancels' : CallFine(c), \A r \in reaps' : ReapFine(r)
    PROVE  IInv'
<1>1. Types' /\ Active' = Active  BY Zenon DEF IInv, Types, Active
<1>2. Slots'  BY <1>1, Zenon DEF IInv, Slots
<1>3. ASSUME NEW b \in Batch  PROVE RowFine(b)' /\ DriverFine(b)'
  <2>1. RowFine(b) /\ DriverFine(b)  BY Zenon DEF IInv
  <2> QED BY <2>1, Zenon DEF RowFine, DriverFine, Adds
<1>4. ASSUME NEW c, CallFine(c)  PROVE CallFine(c)'
  BY <1>4, Zenon DEF CallFine, Adds
<1>5. \A c \in cancels' : CallFine(c)'  BY <1>4, Zenon
<1>6. \A r \in reaps' : ReapFine(r)'  BY <1>4, Zenon DEF ReapFine
<1> QED BY <1>1, <1>2, <1>3, <1>5, <1>6, Zenon DEF IInv

\* So does one that writes a row without completing it.
LEMMA RowWrite ==
    ASSUME IInv, NEW b \in Batch, NEW r \in Row, row' = [row EXCEPT ![b] = r],
           Adds(r.progress), r.progress.sent <= sends[b], r.status # "completed",
           r.status # "cancelled" => r.progress.cancelled = 0,
           UNCHANGED <<driver, flag, inFlight, sends>>, cancels' \subseteq cancels, reaps' \subseteq reaps
    PROVE  IInv'
<1>1. row' \in [Batch -> Row] /\ row'[b] = r /\ \A e \in Batch \ {b} : row'[e] = row[e]
  BY RowSet, Zenon DEF IInv
<1>2. Types' /\ Active' = Active  BY <1>1, Zenon DEF IInv, Types, Active
<1>3. Slots'  BY <1>2, Zenon DEF IInv, Slots
<1>4. ASSUME NEW e \in Batch  PROVE RowFine(e)' /\ DriverFine(e)'
  <2>1. RowFine(e) /\ DriverFine(e)  BY Zenon DEF IInv
  <2>2. DriverFine(e)'  BY <2>1, Zenon DEF DriverFine, Adds
  <2>3. CASE e = b  BY <1>1, <2>2, <2>3, Zenon DEF RowFine, Adds
  <2>4. CASE e # b
    <3>1. row'[e] = row[e]  BY <1>1, <2>4, Zenon
    <3> QED BY <2>1, <2>2, <3>1, Zenon DEF RowFine, Adds
  <2> QED BY <2>3, <2>4
<1>5. ASSUME NEW c, CallFine(c)  PROVE CallFine(c)'
  BY <1>5, Zenon DEF CallFine, Adds
<1>6. \A c \in cancels' : CallFine(c)'  BY <1>5, Zenon DEF IInv
<1>7. \A x \in reaps' : ReapFine(x)'  BY <1>5, Zenon DEF IInv, ReapFine
<1> QED BY <1>2, <1>3, <1>4, <1>6, <1>7, Zenon DEF IInv

\* cancelBatch() up to its UPDATE keeps the invariant.
LEMMA CancelKeeps ==
    ASSUME IInv, NEW b \in Batch, NEW local \in BOOLEAN, Cancel(b, local)
    PROVE  IInv'
<1>1. PICK c : c = [batch |-> b, local |-> local, progress |-> Cancelled(row[b].progress)]  OBVIOUS
<1>2. /\ row[b].status \in {"pending", "processing"} /\ cancels' = cancels \cup {c}
      /\ flag' = (IF local THEN [flag EXCEPT ![b] = "off"] ELSE flag)
      /\ UNCHANGED <<row, driver, inFlight, reaps, sends>>
  BY <1>1, Zenon DEF Cancel, ghost
<1>3. CallFine(c)
  <2>1. RowFine(b)  BY Zenon DEF IInv
  <2>2. row[b].status \notin {"cancelled", "gone"}  BY <1>2, SMT
  <2>3. Adds(Cancelled(row[b].progress)) /\ Cancelled(row[b].progress).sent = row[b].progress.sent
    BY <2>1, <2>2, CancelledAdds, Zenon DEF RowFine
  <2>4. c.batch = b /\ c.progress = Cancelled(row[b].progress)  BY <1>1, Zenon
  <2> QED BY <2>1, <2>3, <2>4, Zenon DEF RowFine, CallFine
<1>4. /\ flag' \in [Batch -> {"none", "on", "off"}] /\ \A e \in Batch \ {b} : flag'[e] = flag[e]
      /\ flag'[b] = flag[b] \/ flag'[b] = "off"
  <2>1. flag \in [Batch -> {"none", "on", "off"}]  BY Zenon DEF IInv, Types
  <2>2. CASE local
    <3>1. flag' = [flag EXCEPT ![b] = "off"]  BY <1>2, <2>2, Zenon
    <3> QED BY <2>1, <3>1, SMT
  <2>3. CASE ~local
    <3>1. flag' = flag  BY <1>2, <2>3, Zenon
    <3> QED BY <2>1, <3>1, Zenon
  <2> QED BY <2>2, <2>3
<1>5. Types' /\ Active' = Active  BY <1>2, <1>4, Zenon DEF IInv, Types, Active
<1>6. Slots'  BY <1>2, <1>5, Zenon DEF IInv, Slots
<1>7. ASSUME NEW e \in Batch  PROVE RowFine(e)' /\ DriverFine(e)'
  <2>1. RowFine(e) /\ DriverFine(e)  BY Zenon DEF IInv
  <2>2. RowFine(e)'  BY <1>2, <2>1, Zenon DEF RowFine, Adds
  <2>3. flag'[e] = flag[e] \/ flag'[e] # "on"
    <3>1. "off" # "on"  BY SMT
    <3> QED BY <1>4, <3>1, Zenon
  <2>4. DriverFine(e)'  BY <1>2, <2>1, <2>3, Zenon DEF DriverFine, Adds
  <2> QED BY <2>2, <2>4
<1>8. ASSUME NEW x, CallFine(x)  PROVE CallFine(x)'
  BY <1>2, <1>8, Zenon DEF CallFine, Adds
<1>9. \A x \in cancels' : CallFine(x)'  BY <1>2, <1>3, <1>8, Zenon DEF IInv
<1>10. \A x \in reaps' : ReapFine(x)'  BY <1>2, <1>8, Zenon DEF IInv, ReapFine
<1> QED BY <1>5, <1>6, <1>7, <1>9, <1>10, Zenon DEF IInv

\* The UPDATE of the cancel keeps the invariant.
LEMMA CancelCommitsKeeps ==
    ASSUME IInv, NEW c \in cancels, CancelCommits(c)
    PROVE  IInv'
<1>1. /\ cancels' = cancels \ {c} /\ UNCHANGED <<driver, flag, inFlight, sends, reaps>>
      /\ CallFine(c)
  BY Zenon DEF CancelCommits, ram, IInv
<1>2. c.batch \in Batch /\ Adds(c.progress) /\ c.progress \in Progress /\ c.progress.sent <= sends[c.batch]
  BY <1>1, Zenon DEF CallFine, Adds
<1>3. CASE UNCHANGED row
  <2>1. \A x \in cancels' : CallFine(x)  BY <1>1, Zenon DEF IInv
  <2>2. \A r \in reaps' : ReapFine(r)  BY <1>1, Zenon DEF IInv
  <2> QED BY <1>1, <1>3, <2>1, <2>2, CallsMove, Zenon
<1>4. CASE row' = [row EXCEPT ![c.batch].status = "cancelled", ![c.batch].progress = c.progress]
  <2>1. row[c.batch] \in Row  BY <1>2, Zenon DEF IInv, Types
  <2>2. PICK s : s = [row[c.batch] EXCEPT !.status = "cancelled"]  OBVIOUS
  <2>3. "cancelled" \in Status /\ "cancelled" # "completed"  BY SMT DEF Status
  <2>4. s \in Row /\ s.status = "cancelled"  BY <2>1, <2>2, <2>3, Zenon DEF Row
  <2>5. PICK r : r = [s EXCEPT !.progress = c.progress]  OBVIOUS
  <2>6. r \in Row /\ r.status = "cancelled" /\ r.progress = c.progress
    BY <1>2, <2>4, <2>5, Zenon DEF Row
  <2>7. row' = [row EXCEPT ![c.batch] = r]  BY <1>4, <2>2, <2>5
  <2> QED BY <1>1, <1>2, <2>3, <2>6, <2>7, RowWrite, Zenon
<1> QED BY <1>3, <1>4, Zenon DEF CancelCommits

\* A reaper that saves what it read keeps the invariant, however stale it is.
LEMMA ReapKeeps ==
    ASSUME IInv, NEW r \in reaps, Reap(r)
    PROVE  IInv'
<1>1. PICK s : s = [status |-> "failed", progress |-> r.progress, index |-> r.index]  OBVIOUS
<1>2. /\ reaps' = reaps \ {r} /\ row' = [row EXCEPT ![r.batch] = s]
      /\ UNCHANGED <<driver, flag, inFlight, sends, cancels>> /\ ReapFine(r)
  BY <1>1, Zenon DEF Reap, ram, ghost, IInv
<1>3. /\ r.batch \in Batch /\ Adds(r.progress) /\ r.progress.sent <= sends[r.batch]
      /\ r.index \in 0..Items /\ r.progress.cancelled = 0 /\ r.progress \in Progress
  BY <1>2, Zenon DEF ReapFine, CallFine, Adds
<1>4. "failed" \in Status /\ "failed" # "completed"  BY SMT DEF Status
<1>5. s \in Row /\ s.status = "failed" /\ s.progress = r.progress
  BY <1>1, <1>3, <1>4, Zenon DEF Row
<1> QED BY <1>2, <1>3, <1>4, <1>5, RowWrite, Zenon

\* What a reaper reads adds up.
LEMMA ReapReadFine ==
    ASSUME IInv, NEW local \in BOOLEAN, ReapRead(local)
    PROVE  \A r \in reaps' : ReapFine(r)
<1> SUFFICES ASSUME NEW r \in reaps'  PROVE ReapFine(r)
  OBVIOUS
<1>1. CASE r \in reaps  BY <1>1, Zenon DEF IInv
<1>2. CASE r \notin reaps
  <2>1. PICK b \in Batch : /\ row[b].status = "processing"
                           /\ r = [batch |-> b, local |-> local, progress |-> row[b].progress,
                                   index |-> row[b].index]
    BY <1>2, Zenon DEF ReapRead
  <2>2. r.batch = b /\ r.progress = row[b].progress /\ r.index = row[b].index  BY <2>1, Zenon
  <2>3. row[b] \in Row /\ RowFine(b)  BY Zenon DEF IInv, Types
  <2>4. row[b].status \notin {"cancelled", "gone"}  BY <2>1, SMT
  <2> QED BY <2>2, <2>3, <2>4, Zenon DEF Row, RowFine, ReapFine, CallFine
<1> QED BY <1>1, <1>2

\* A step that moves drivers from crashed to left at most keeps the invariant.
LEMMA DriversMove ==
    ASSUME IInv, driver' \in [Batch -> Driver],
           \A b \in Batch :
               /\ driver'[b].pc = driver[b].pc \/ (driver[b].pc = "crashed" /\ driver'[b].pc = "left")
               /\ driver'[b].index = driver[b].index /\ driver'[b].progress = driver[b].progress
               /\ driver'[b].stopped = driver[b].stopped /\ driver'[b].verdict = driver[b].verdict,
           UNCHANGED <<row, flag, inFlight, sends, cancels, reaps>>
    PROVE  IInv'
<1>1. /\ "crashed" \in Idle /\ "left" \in Idle /\ "left" # "none" /\ "left" # "final" /\ "left" # "reread"
      /\ "left" \notin Early \cup Going \cup {"gate", "sending"} /\ "crashed" # "done"
  BY SMT DEF Idle, Early, Going
<1>2. \A b \in Batch : driver'[b].pc \in Idle <=> driver[b].pc \in Idle  BY <1>1, Zenon
<1>3. Active' = Active  BY <1>2, Zenon DEF Active
<1>4. Types' /\ Slots'  BY <1>3, Zenon DEF IInv, Types, Slots
<1>5. ASSUME NEW b \in Batch  PROVE RowFine(b)' /\ DriverFine(b)'
  <2>1. RowFine(b) /\ DriverFine(b)  BY Zenon DEF IInv
  <2>2. CASE driver'[b].pc = driver[b].pc
    <3>1. RowFine(b)'  BY <2>1, <2>2, Zenon DEF RowFine, Adds
    <3>2. DriverFine(b)'  BY <2>1, <2>2, Zenon DEF DriverFine, Adds
    <3> QED BY <3>1, <3>2
  <2>3. CASE driver[b].pc = "crashed" /\ driver'[b].pc = "left"
    <3>1. RowFine(b)'  BY <1>1, <2>1, <2>3, Zenon DEF RowFine, Adds
    <3>2. DriverFine(b)'  BY <1>1, <2>1, <2>3, Zenon DEF DriverFine, Adds
    <3> QED BY <3>1, <3>2
  <2> QED BY <2>2, <2>3
<1>6. ASSUME NEW x, CallFine(x)  PROVE CallFine(x)'
  BY <1>6, Zenon DEF CallFine, Adds
<1>7. \A x \in cancels' : CallFine(x)'  BY <1>6, Zenon DEF IInv
<1>8. \A x \in reaps' : ReapFine(x)'  BY <1>6, Zenon DEF IInv, ReapFine
<1> QED BY <1>4, <1>5, <1>7, <1>8, Zenon DEF IInv

\* The loss of the engine keeps the invariant.
LEMMA EngineStopsKeeps ==
    ASSUME IInv, EngineStops
    PROVE  IInv'
<1>1. /\ driver' = [b \in Batch |-> IF driver[b].pc \in Idle THEN driver[b]
                                    ELSE [driver[b] EXCEPT !.lost = TRUE]]
      /\ UNCHANGED <<row, flag, inFlight, sends, cancels, reaps>>
  BY Zenon DEF EngineStops, calls, ghost
<1>2. ASSUME NEW b \in Batch
      PROVE  /\ driver'[b] \in Driver /\ driver'[b].pc = driver[b].pc
             /\ driver'[b].index = driver[b].index /\ driver'[b].progress = driver[b].progress
             /\ driver'[b].stopped = driver[b].stopped /\ driver'[b].verdict = driver[b].verdict
  <2>1. driver[b] \in Driver  BY Zenon DEF IInv, Types
  <2>2. CASE driver[b].pc \in Idle
    <3>1. driver'[b] = driver[b]  BY <1>1, <2>2, Zenon
    <3> QED BY <2>1, <3>1, Zenon
  <2>3. CASE driver[b].pc \notin Idle
    <3>1. PICK d : d = [driver[b] EXCEPT !.lost = TRUE]  OBVIOUS
    <3>2. driver'[b] = d  BY <1>1, <2>3, <3>1, Zenon
    <3>3. TRUE \in BOOLEAN  OBVIOUS
    <3>4. d \in Driver  BY <2>1, <3>1, <3>3, Zenon DEF Driver
    <3>5. d.pc = driver[b].pc /\ d.index = driver[b].index /\ d.progress = driver[b].progress
      BY <2>1, <3>1, Zenon DEF Driver
    <3>6. d.stopped = driver[b].stopped /\ d.verdict = driver[b].verdict
      BY <2>1, <3>1, Zenon DEF Driver
    <3> QED BY <3>2, <3>4, <3>5, <3>6, Zenon
  <2> QED BY <2>2, <2>3
<1>3. driver' \in [Batch -> Driver]  BY <1>1, <1>2, Zenon
<1> QED BY <1>1, <1>2, <1>3, DriversMove, Zenon

\* The restart keeps the invariant.
LEMMA BootKeeps ==
    ASSUME IInv, Boot
    PROVE  IInv'
<1>1. UNCHANGED <<row, flag, inFlight, sends, cancels>>  BY Zenon DEF Boot, ghost
<1>2. CASE /\ driver' = [b \in Batch |-> IF driver[b].pc = "crashed"
                                         THEN [driver[b] EXCEPT !.pc = "left"] ELSE driver[b]]
           /\ UNCHANGED reaps
  <2>1. ASSUME NEW b \in Batch
        PROVE  /\ driver'[b] \in Driver
               /\ driver'[b].pc = driver[b].pc \/ (driver[b].pc = "crashed" /\ driver'[b].pc = "left")
               /\ driver'[b].index = driver[b].index /\ driver'[b].progress = driver[b].progress
               /\ driver'[b].stopped = driver[b].stopped /\ driver'[b].verdict = driver[b].verdict
    <3>1. driver[b] \in Driver  BY Zenon DEF IInv, Types
    <3>2. CASE driver[b].pc # "crashed"
      <4>1. driver'[b] = driver[b]  BY <1>2, <3>2, Zenon
      <4> QED BY <3>1, <4>1, Zenon
    <3>3. CASE driver[b].pc = "crashed"
      <4>1. PICK d : d = [driver[b] EXCEPT !.pc = "left"]  OBVIOUS
      <4>2. driver'[b] = d  BY <1>2, <3>3, <4>1, Zenon
      <4>3. "left" \in PC  BY SMT DEF PC
      <4>4. d \in Driver /\ d.pc = "left"  BY <3>1, <4>1, <4>3, Zenon DEF Driver
      <4>5. d.index = driver[b].index /\ d.progress = driver[b].progress
        BY <3>1, <4>1, Zenon DEF Driver
      <4>6. d.stopped = driver[b].stopped /\ d.verdict = driver[b].verdict
        BY <3>1, <4>1, Zenon DEF Driver
      <4> QED BY <3>3, <4>2, <4>4, <4>5, <4>6, Zenon
    <3> QED BY <3>2, <3>3
  <2>2. driver' \in [Batch -> Driver]  BY <1>2, <2>1, Zenon
  <2> QED BY <1>1, <1>2, <2>1, <2>2, DriversMove, Zenon
<1>3. CASE ReapRead(TRUE) /\ UNCHANGED driver
  <2>1. TRUE \in BOOLEAN  OBVIOUS
  <2>2. \A r \in reaps' : ReapFine(r)  BY <1>3, <2>1, ReapReadFine, Zenon
  <2>3. \A c \in cancels' : CallFine(c)  BY <1>1, Zenon DEF IInv
  <2> QED BY <1>1, <1>3, <2>2, <2>3, CallsMove, Zenon
<1> QED BY <1>2, <1>3, Zenon DEF Boot

\* A crash keeps the invariant: no slot is held and no flag is on.
LEMMA CrashKeeps ==
    ASSUME IInv, Crash
    PROVE  IInv'
<1>1. /\ driver' = [b \in Batch |-> IF driver[b].pc \in Idle THEN driver[b]
                                    ELSE [NoDriver EXCEPT !.pc = "crashed"]]
      /\ flag' = [b \in Batch |-> "none"] /\ inFlight' = 0
      /\ cancels' \subseteq cancels /\ reaps' \subseteq reaps /\ UNCHANGED <<row, sends>>
  BY Zenon DEF Crash, ghost
<1>2. "crashed" \in Idle /\ "crashed" \in PC /\ "crashed" \notin Early \cup Going \cup {"none", "final", "done", "gate", "sending"}
  BY SMT DEF Idle, PC, Early, Going
<1>3. PICK n : n = [NoDriver EXCEPT !.pc = "crashed"]  OBVIOUS
<1>4. n \in Driver /\ n.pc = "crashed" /\ Adds(n.progress)
  BY <1>2, <1>3, NoDriverIs, FreshAdds, Zenon DEF Driver
<1>5. ASSUME NEW b \in Batch  PROVE (driver'[b] = driver[b] /\ driver[b].pc \in Idle) \/ driver'[b] = n
  BY <1>1, <1>3, Zenon
<1>6. \A b \in Batch : driver'[b] \in Driver /\ driver'[b].pc \in Idle
  BY <1>2, <1>4, <1>5, Zenon DEF IInv, Types
<1>7. Types'
  <2>1. driver' \in [Batch -> Driver]  BY <1>1, <1>6, Zenon
  <2>2. flag' \in [Batch -> {"none", "on", "off"}]  BY <1>1, Zenon
  <2> QED BY <1>1, <2>1, <2>2, Zenon DEF IInv, Types
<1>8. Slots'
  <2>1. Active' = {}  BY <1>6, Zenon DEF Active
  <2>2. inFlight' = Cardinality(Active')  BY <1>1, <2>1, FS_EmptySet, Zenon
  <2>3. MaxConcurrent > 0 => inFlight' <= MaxConcurrent
    BY <1>1, BulkAssumption, SMT DEF BulkAssumption
  <2> QED BY <2>2, <2>3, Zenon DEF Slots
<1>9. ASSUME NEW b \in Batch  PROVE RowFine(b)' /\ DriverFine(b)'
  <2>1. RowFine(b) /\ DriverFine(b)  BY Zenon DEF IInv
  <2>2. flag'[b] # "on"
    <3>1. flag'[b] = "none" /\ "none" # "on"  BY <1>1, SMT
    <3> QED BY <3>1, Zenon
  <2>3. CASE driver'[b] = driver[b] /\ driver[b].pc \in Idle
    <3>1. RowFine(b)'  BY <1>1, <2>1, <2>3, Zenon DEF RowFine, Adds
    <3>2. DriverFine(b)'  BY <1>1, <2>1, <2>2, <2>3, Zenon DEF DriverFine, Adds
    <3> QED BY <3>1, <3>2
  <2>4. CASE driver[b].pc \notin Idle
    <3>1. row[b].status # "completed"
      <4>1. "done" \in Idle  BY SMT DEF Idle
      <4> QED BY <2>4, <4>1, DriveRow, Zenon
    <3>2. RowFine(b)'  BY <1>1, <2>1, <3>1, Zenon DEF RowFine, Adds
    <3>3. driver'[b] = n  BY <1>5, <2>4, Zenon
    <3>4. DriverFine(b)'  BY <1>2, <1>4, <2>2, <3>3, Zenon DEF DriverFine, Adds
    <3> QED BY <3>2, <3>4
  <2>5. CASE driver[b].pc \in Idle
    <3>1. driver'[b] = driver[b]  BY <1>1, <2>5, Zenon
    <3> QED BY <2>3, <2>5, <3>1, Zenon
  <2> QED BY <2>4, <2>5
<1>10. ASSUME NEW x, CallFine(x)  PROVE CallFine(x)'
  BY <1>1, <1>10, Zenon DEF CallFine, Adds
<1>11. \A x \in cancels' : CallFine(x)'  BY <1>1, <1>10, Zenon DEF IInv
<1>12. \A x \in reaps' : ReapFine(x)'  BY <1>1, <1>10, Zenon DEF IInv, ReapFine
<1> QED BY <1>7, <1>8, <1>9, <1>11, <1>12, Zenon DEF IInv

\* The removal of the session keeps the invariant.
LEMMA DeleteKeeps ==
    ASSUME IInv, DeleteSession
    PROVE  IInv'
<1>1. /\ row' = [b \in Batch |-> [row[b] EXCEPT !.status = "gone"]]
      /\ UNCHANGED <<driver, flag, inFlight, sends, cancels, reaps>>
  BY Zenon DEF DeleteSession, ram, calls, ghost
<1>2. "gone" \in Status /\ "gone" # "completed"  BY SMT DEF Status
<1>3. ASSUME NEW b \in Batch
      PROVE  row'[b] \in Row /\ row'[b].status = "gone" /\ row'[b].progress = row[b].progress
  <2>1. PICK r : r = [row[b] EXCEPT !.status = "gone"]  OBVIOUS
  <2>2. row[b] \in Row  BY Zenon DEF IInv, Types
  <2>3. row'[b] = r  BY <1>1, <2>1, Zenon
  <2> QED BY <1>2, <2>1, <2>2, <2>3, Zenon DEF Row
<1>4. row' \in [Batch -> Row]  BY <1>1, <1>3, Zenon
<1>5. Types' /\ Active' = Active  BY <1>1, <1>4, Zenon DEF IInv, Types, Active
<1>6. Slots'  BY <1>1, <1>5, Zenon DEF IInv, Slots
<1>7. ASSUME NEW b \in Batch  PROVE RowFine(b)' /\ DriverFine(b)'
  <2>1. RowFine(b) /\ DriverFine(b)  BY Zenon DEF IInv
  <2>2. RowFine(b)'  BY <1>1, <1>2, <1>3, <2>1, Zenon DEF RowFine, Adds
  <2>3. DriverFine(b)'  BY <1>1, <2>1, Zenon DEF DriverFine, Adds
  <2> QED BY <2>2, <2>3
<1>8. ASSUME NEW x, CallFine(x)  PROVE CallFine(x)'
  BY <1>1, <1>8, Zenon DEF CallFine, Adds
<1>9. \A x \in cancels' : CallFine(x)'  BY <1>1, <1>8, Zenon DEF IInv
<1>10. \A x \in reaps' : ReapFine(x)'  BY <1>1, <1>8, Zenon DEF IInv, ReapFine
<1> QED BY <1>5, <1>6, <1>7, <1>9, <1>10, Zenon DEF IInv

-----------------------------------------------------------------------------
\* The invariant holds at first.
LEMMA InitKeeps == Init => IInv
<1> SUFFICES ASSUME Init  PROVE IInv
  OBVIOUS
<1>1. PICK r : r = [status |-> "absent", progress |-> Fresh, index |-> 0]  OBVIOUS
<1>2. /\ row = [b \in Batch |-> r] /\ driver = [b \in Batch |-> NoDriver]
      /\ flag = [b \in Batch |-> "none"] /\ sends = [b \in Batch |-> 0]
      /\ inFlight = 0 /\ cancels = {} /\ reaps = {}
  BY <1>1, Zenon DEF Init
<1>3. Items \in Nat /\ 0 \in 0..Items  BY BulkAssumption, SMT DEF BulkAssumption
<1>4. Fresh \in Progress  BY FreshAdds, Zenon DEF Adds
<1>5. /\ "absent" \in Status /\ "absent" # "completed" /\ "none" \in Idle /\ "none" # "on"
      /\ "none" \notin Going \cup {"gate", "sending", "final", "reread"} /\ "none" \in Early
  BY SMT DEF Status, Idle, Going, Early
<1>6. r \in Row /\ r.status = "absent" /\ r.progress = Fresh
  BY <1>1, <1>3, <1>4, <1>5, Zenon DEF Row
<1>7. NoDriver.pc = "none"  BY Zenon DEF NoDriver
<1>8. Types  BY <1>2, <1>3, <1>6, NoDriverIs, Zenon DEF Types
<1>9. Slots
  <2>1. Active = {}  BY <1>2, <1>5, <1>7, Zenon DEF Active
  <2>2. inFlight = Cardinality(Active)  BY <1>2, <2>1, FS_EmptySet, Zenon
  <2>3. MaxConcurrent > 0 => inFlight <= MaxConcurrent
    BY <1>2, BulkAssumption, SMT DEF BulkAssumption
  <2> QED BY <2>2, <2>3, Zenon DEF Slots
<1>10. ASSUME NEW b \in Batch  PROVE RowFine(b) /\ DriverFine(b)
  <2>1. row[b] = r /\ driver[b] = NoDriver /\ flag[b] = "none" /\ sends[b] = 0  BY <1>2, Zenon
  <2>2. 0 <= 0  BY SMT
  <2>3. RowFine(b)  BY <1>5, <1>6, <2>1, <2>2, FreshAdds, Zenon DEF RowFine
  <2>4. DriverFine(b)
    BY <1>5, <1>7, <2>1, FreshAdds, NoDriverIs, Zenon DEF DriverFine
  <2> QED BY <2>3, <2>4
<1> QED BY <1>2, <1>8, <1>9, <1>10, Zenon DEF IInv

\* Every step keeps it.
LEMMA StepKeeps == IInv /\ [Next]_vars => IInv'
<1> SUFFICES ASSUME IInv, [Next]_vars  PROVE IInv'
  OBVIOUS
<1>1. ASSUME NEW b \in Batch, Drive(b)  PROVE IInv'
  BY <1>1, SavedKeeps, PickupKeeps, MarkProcessingKeeps, FailWithoutEngineKeeps, NextItemKeeps, GatedKeeps,
     SentKeeps, SendFailsKeeps, SaveProgressKeeps, RereadKeeps, FinalizeKeeps, Zenon DEF Drive
<1>2. ASSUME NEW b \in Batch, Create(b) \/ SaveFails(b) \/ Throws(b)  PROVE IInv'
  BY <1>2, CreateKeeps, SaveFailsKeeps, ThrowsKeeps, Zenon
<1>3. ASSUME NEW b \in Batch, NEW local \in BOOLEAN, Cancel(b, local)  PROVE IInv'
  BY <1>3, CancelKeeps, Zenon
<1>4. ASSUME NEW c \in cancels, CancelCommits(c)  PROVE IInv'
  BY <1>4, CancelCommitsKeeps, Zenon
<1>5. ASSUME NEW c \in cancels, CancelFails(c)  PROVE IInv'
  <2>1. cancels' = cancels \ {c} /\ UNCHANGED <<row, driver, flag, inFlight, sends, reaps>>
    BY <1>5, Zenon DEF CancelFails, ram, ghost
  <2>2. (\A x \in cancels' : CallFine(x)) /\ \A r \in reaps' : ReapFine(r)
    BY <2>1, Zenon DEF IInv
  <2> QED BY <2>1, <2>2, CallsMove, Zenon
<1>6. ASSUME NEW r \in reaps, Reap(r)  PROVE IInv'
  BY <1>6, ReapKeeps, Zenon
<1>7. ASSUME UNCHANGED <<row, driver, flag, inFlight, sends, cancels, reaps>>  PROVE IInv'
  <2>1. (\A x \in cancels' : CallFine(x)) /\ \A r \in reaps' : ReapFine(r)
    BY <1>7, Zenon DEF IInv
  <2> QED BY <1>7, <2>1, CallsMove, Zenon
<1>8. CASE CoolDown  BY <1>7, <1>8, Zenon DEF CoolDown, calls, ghost
<1>9. CASE EngineStarts  BY <1>7, <1>9, Zenon DEF EngineStarts, ram, calls, ghost
<1>10. CASE PeerStarts  BY <1>7, <1>10, Zenon DEF PeerStarts, ram, calls, ghost
<1>11. CASE PeerStops  BY <1>7, <1>11, Zenon DEF PeerStops, ram, calls, ghost
<1>12. CASE Listen  BY <1>7, <1>12, Zenon DEF Listen, ram, calls, ghost
<1>13. CASE PeerAdopts
  <2>1. ReapRead(FALSE) /\ UNCHANGED <<row, driver, flag, inFlight, sends, cancels>>
    BY <1>13, Zenon DEF PeerAdopts, ram, ghost
  <2>2. FALSE \in BOOLEAN  OBVIOUS
  <2>3. \A r \in reaps' : ReapFine(r)  BY <2>1, <2>2, ReapReadFine, Zenon
  <2>4. \A c \in cancels' : CallFine(c)  BY <2>1, Zenon DEF IInv
  <2> QED BY <2>1, <2>3, <2>4, CallsMove, Zenon
<1>14. CASE UNCHANGED vars  BY <1>7, <1>14, Zenon DEF vars
<1> QED BY <1>1, <1>2, <1>3, <1>4, <1>5, <1>6, <1>8, <1>9, <1>10, <1>11, <1>12, <1>13, <1>14,
           EngineStopsKeeps, DeleteKeeps, CrashKeeps, BootKeeps, Zenon DEF Next

\* The invariant holds of every behaviour.
THEOREM Invariance == Spec => []IInv
<1>1. Init => IInv  BY InitKeeps
<1>2. IInv /\ [Next]_vars => IInv'  BY StepKeeps
<1> QED BY <1>1, <1>2, PTL DEF Spec

\* createBatch() and the finally of processBatch(): every slot comes back, and the cap holds.
THEOREM SlotsAreReturned == Spec => []SlotsReturned
<1>1. IInv => SlotsReturned
  <2> SUFFICES ASSUME IInv  PROVE SlotsReturned
    OBVIOUS
  <2>1. Slots /\ \A b \in Batch : DriverFine(b)  BY Zenon DEF IInv
  <2>2. \A b \in Batch : driver[b].pc \in Idle => flag[b] # "on"  BY <2>1, Zenon DEF DriverFine
  <2> QED BY <2>1, <2>2, Zenon DEF SlotsReturned, Slots, Active
<1> QED BY <1>1, Invariance, PTL

\* The counters of every row add up and claim no message that was not sent, whoever wrote it
\* and from however old a read.
THEOREM AccountsAddUp == Spec => []Accounted
<1>1. IInv => Accounted
  <2> SUFFICES ASSUME IInv, NEW b \in Batch
               PROVE  LET p == row[b].progress IN
                      /\ p.sent + p.failed + p.pending + p.cancelled = Items
                      /\ p.sent <= sends[b]
                      /\ row[b].status = "completed" => p.sent = sends[b] /\ p.pending = 0 /\ p.cancelled = 0
    BY Zenon DEF Accounted
  <2>1. RowFine(b)  BY Zenon DEF IInv
  <2>2. "completed" \notin {"cancelled", "gone"}  BY SMT
  <2> QED BY <2>1, <2>2, Zenon DEF RowFine, Adds
<1> QED BY <1>1, Invariance, PTL

-----------------------------------------------------------------------------
\* A write of another row leaves this one.
LEMMA Elsewhere ==
    ASSUME Types, NEW b \in Batch, NEW e \in Batch, e # b, NEW s, NEW p, NEW i,
           \/ row' = [row EXCEPT ![e] = s] \/ row' = [row EXCEPT ![e].status = s]
           \/ row' = [row EXCEPT ![e].progress = p, ![e].index = i]
           \/ row' = [row EXCEPT ![e].status = s, ![e].progress = p]
           \/ row' = row
    PROVE  row'[b] = row[b]
<1>1. row \in [Batch -> Row]  BY Zenon DEF Types
<1> QED BY <1>1, SMT

\* While no reaper has read it, a cancelled row is written by no step but its removal.
LEMMA CancelledKept ==
    ASSUME IInv, [Next]_vars, NEW b \in Batch, row[b].status = "cancelled",
           \A r \in reaps : r.batch # b
    PROVE  row'[b].status \in {"cancelled", "gone"}
<1>1. ASSUME row'[b] = row[b]  PROVE row'[b].status \in {"cancelled", "gone"}
  BY <1>1, Zenon
<1>2. ASSUME row' = row  PROVE row'[b] = row[b]  BY <1>2, Zenon
<1>3. Types /\ row \in [Batch -> Row] /\ ~Guard(b)  BY Zenon DEF IInv, Types, Guard
<1>4. ASSUME NEW e \in Batch, Drive(e)  PROVE row'[b].status \in {"cancelled", "gone"}
  <2>1. CASE Saved(e)
    <3>1. row[e].status = "absent" /\ row' = [row EXCEPT ![e].status = "pending"]  BY <2>1, Zenon DEF Saved
    <3>2. e # b
      <4>1. "absent" # "cancelled"  BY SMT
      <4> QED BY <3>1, <4>1, Zenon
    <3> QED BY <1>1, <1>3, <3>1, <3>2, Elsewhere
  <2>2. CASE MarkProcessing(e)
    <3>1. UNCHANGED row \/ (Guard(e) /\ row' = [row EXCEPT ![e].status = "processing"])
      BY <2>2, Zenon DEF MarkProcessing
    <3>2. CASE UNCHANGED row  BY <1>1, <1>2, <3>2
    <3>3. CASE Guard(e) /\ row' = [row EXCEPT ![e].status = "processing"]
      <4>1. e # b  BY <1>3, <3>3, Zenon
      <4> QED BY <1>1, <1>3, <3>3, <4>1, Elsewhere
    <3> QED BY <3>1, <3>2, <3>3
  <2>3. CASE FailWithoutEngine(e)
    <3>1. CASE Guard(e)
      <4>1. row' = [row EXCEPT ![e].status = "failed"]  BY <2>3, <3>1, Zenon DEF FailWithoutEngine
      <4>2. e # b  BY <1>3, <3>1, Zenon
      <4> QED BY <1>1, <1>3, <4>1, <4>2, Elsewhere
    <3>2. CASE ~Guard(e)
      <4>1. row' = row  BY <2>3, <3>2, Zenon DEF FailWithoutEngine
      <4> QED BY <1>1, <1>2, <4>1
    <3> QED BY <3>1, <3>2
  <2>4. CASE SaveProgress(e)
    <3>1. CASE Guard(e)
      <4>1. row' = [row EXCEPT ![e].progress = driver[e].progress, ![e].index = driver[e].index]
        BY <2>4, <3>1 DEF SaveProgress
      <4>2. e # b  BY <1>3, <3>1, Zenon
      <4> QED BY <1>1, <1>3, <4>1, <4>2, Elsewhere
    <3>2. CASE ~Guard(e)
      <4>1. row' = row  BY <2>4, <3>2 DEF SaveProgress
      <4> QED BY <1>1, <1>2, <4>1
    <3> QED BY <3>1, <3>2
  <2>5. CASE Finalize(e)
    <3>1. PICK s : s = Final(driver[e])  OBVIOUS
    <3>2. row' = (IF driver[e].verdict = "cancelled" \/ Guard(e) THEN [row EXCEPT ![e] = s] ELSE row)
      BY <2>5, <3>1, Zenon DEF Finalize
    <3>3. s.status = driver[e].verdict  BY <3>1, Zenon DEF Final
    <3>4. CASE row' = row  BY <1>1, <1>2, <3>4
    <3>5. CASE e # b /\ row' = [row EXCEPT ![e] = s]  BY <1>1, <1>3, <3>5, Elsewhere
    <3>6. CASE e = b /\ driver[e].verdict = "cancelled" /\ row' = [row EXCEPT ![e] = s]
      <4>1. row'[b] = s  BY <1>3, <3>6, Zenon
      <4> QED BY <3>3, <3>6, <4>1, Zenon
    <3> QED BY <1>3, <3>2, <3>4, <3>5, <3>6, Zenon
  <2>6. CASE Pickup(e) \/ NextItem(e) \/ Gated(e) \/ Sent(e) \/ SendFails(e) \/ Reread(e)
    <3>1. row' = row  BY <2>6, Zenon DEF Pickup, NextItem, Gated, Sent, SendFails, Reread
    <3> QED BY <1>1, <1>2, <3>1
  <2> QED BY <1>4, <2>1, <2>2, <2>3, <2>4, <2>5, <2>6, Zenon DEF Drive
<1>5. ASSUME NEW c \in cancels, CancelCommits(c)  PROVE row'[b].status \in {"cancelled", "gone"}
  <2>1. c.batch \in Batch  BY Zenon DEF IInv, CallFine
  <2>2. CASE UNCHANGED row  BY <1>1, <1>2, <2>2
  <2>3. CASE /\ row[c.batch].status \in {"pending", "processing"}
             /\ row' = [row EXCEPT ![c.batch].status = "cancelled", ![c.batch].progress = c.progress]
    <3>1. c.batch # b
      <4>1. "cancelled" \notin {"pending", "processing"}  BY SMT
      <4> QED BY <2>3, <4>1, Zenon
    <3> QED BY <1>1, <1>3, <2>1, <2>3, <3>1, Elsewhere
  <2> QED BY <1>5, <2>2, <2>3, Zenon DEF CancelCommits
<1>6. ASSUME NEW r \in reaps, Reap(r)  PROVE row'[b].status \in {"cancelled", "gone"}
  <2>1. PICK s : s = [status |-> "failed", progress |-> r.progress, index |-> r.index]  OBVIOUS
  <2>2. r.batch # b /\ r.batch \in Batch /\ row' = [row EXCEPT ![r.batch] = s]
    BY <1>6, <2>1, Zenon DEF Reap, IInv, ReapFine, CallFine
  <2> QED BY <1>1, <1>3, <2>2, Elsewhere
<1>7. CASE DeleteSession
  <2>1. row' = [e \in Batch |-> [row[e] EXCEPT !.status = "gone"]]  BY <1>7, Zenon DEF DeleteSession
  <2>2. row[b] \in Row  BY Zenon DEF IInv, Types
  <2>3. PICK r : r = [row[b] EXCEPT !.status = "gone"]  OBVIOUS
  <2>4. r.status = "gone"  BY <2>2, <2>3, Zenon DEF Row
  <2>5. row'[b] = r  BY <2>1, <2>3, Zenon
  <2> QED BY <2>4, <2>5, Zenon
<1>8. CASE UNCHANGED row  BY <1>1, <1>2, <1>8
<1>9. ASSUME NEW e \in Batch,
             Create(e) \/ SaveFails(e) \/ Throws(e) \/ \E local \in BOOLEAN : Cancel(e, local)
      PROVE  row' = row
  BY <1>9, Zenon DEF Create, SaveFails, Throws, Cancel
<1>10. ASSUME NEW c \in cancels, CancelFails(c)  PROVE row' = row
  BY <1>10, Zenon DEF CancelFails
<1>11. ASSUME CoolDown \/ EngineStops \/ EngineStarts \/ PeerStarts \/ PeerAdopts \/ PeerStops
              \/ Crash \/ Boot \/ Listen \/ UNCHANGED vars
       PROVE  row' = row
  BY <1>11, Zenon DEF CoolDown, EngineStops, EngineStarts, PeerStarts, PeerAdopts, PeerStops, Crash,
     Boot, Listen, vars
<1> QED BY <1>4, <1>5, <1>6, <1>7, <1>8, <1>9, <1>10, <1>11, Zenon DEF Next

\* cancelBatch(): a cancelled batch stays cancelled, whatever the driver writes after it; only
\* the whole-entity save of a reaper that read the row before can overwrite it.
THEOREM CancelsStick == Spec => CancelSticks
<1>1. IInv /\ [Next]_vars =>
        [\A b \in Batch : row[b].status = "cancelled" /\ row'[b].status \notin {"cancelled", "gone"}
           => \E r \in reaps : r.batch = b]_vars
  BY CancelledKept, Zenon
<1>2. Spec => [][Next]_vars  BY PTL DEF Spec
<1> QED BY <1>1, <1>2, Invariance, PTL DEF CancelSticks

-----------------------------------------------------------------------------
(***************************************************************************)
(* Proofs about BulkBatches, continued: what is still sent once a cancel   *)
(* has been committed, and the types of the variables.                     *)
(*                                                                         *)
(* A peer's cancel is seen by the driver at its next write of the progress *)
(* only, one of this process at the next item. So the argument counts the  *)
(* items since the last write (Pos), and follows the flag of a cancel of   *)
(* this process from its read to its UPDATE. LInv holds given IInv.        *)
(***************************************************************************)

\* The items done since the last write of the progress, when i are done.
Pos(i) == IF i = 0 THEN 0 ELSE (i - 1) % SaveEvery

\* The values of late (TypeOK).
Late == [by : {"nobody", "local", "peer"}, sends : 0..Items]

\* What the driver of b may still send after the cancel of its row.
LateFine(b) ==
    LET d == driver[b]
        l == late[b]
        cancelled == row[b].status = "cancelled"
    IN
    /\ l.sends <= sends[b] /\ l.sends <= SaveEvery /\ (l.by = "local" => l.sends <= 1)
    /\ row[b].status \in {"absent", "pending", "processing"} => l.sends = 0
    /\ row[b].status \notin {"absent", "gone"} => d.pc \notin {"none", "saving"}
    /\ cancelled /\ d.pc \in {"top", "gate", "sending"} => l.sends <= Pos(d.index)
    /\ cancelled /\ l.by = "local" => flag[b] # "on"
    /\ cancelled /\ l.by = "local" /\ d.pc \in {"gate", "sending"} => l.sends = 0
    /\ d.pc = "final" => d.verdict \in Over

\* What a cancel (of this process or not) and a reaper know of a batch they have read.
Reached(b, local) ==
    /\ driver[b].pc \notin {"none", "saving"}
    /\ local => flag[b] = "off" \/ driver[b].pc \in Idle

\* The invariant: inductive where IInv holds.
LInv == /\ late \in [Batch -> Late]
        /\ \A b \in Batch : LateFine(b)
        /\ \A c \in cancels : Reached(c.batch, c.local)
        /\ \A r \in reaps : Reached(r.batch, FALSE)

-----------------------------------------------------------------------------
\* Fewer items than SaveEvery were done since the last write.
LEMMA PosRange ==
    ASSUME NEW i \in Nat
    PROVE  Pos(i) \in Nat /\ Pos(i) < SaveEvery
<1>1. SaveEvery \in Nat \ {0}  BY BulkAssumption, Zenon DEF BulkAssumption
<1>2. CASE i = 0  BY <1>1, <1>2, SMT DEF Pos
<1>3. CASE i # 0
  <2>1. PICK j : j = i - 1  OBVIOUS
  <2>2. j \in Nat  BY <1>3, <2>1, SMT
  <2>3. j % SaveEvery \in 0..(SaveEvery - 1)  BY <1>1, <2>2, SMT
  <2>4. Pos(i) = j % SaveEvery  BY <1>3, <2>1, Zenon DEF Pos
  <2> QED BY <1>1, <2>3, <2>4, SMT
<1> QED BY <1>2, <1>3

\* Division with remainder.
LEMMA DivisionParts ==
    ASSUME NEW i \in Nat, NEW n \in Nat \ {0}
    PROVE  i = n * (i \div n) + (i % n) /\ (i \div n) \in Int /\ i % n \in 0..(n - 1)
  BY SMT

\* The remainder is unique.
LEMMA DivisionIs ==
    ASSUME NEW i \in Nat, NEW n \in Nat \ {0}, NEW q \in Int, NEW r \in 0..(n - 1), i = n * q + r
    PROVE  i % n = r
  BY SMT

\* An item after which nothing is written is one more of them.
LEMMA PosGrows ==
    ASSUME NEW i \in Nat, i % SaveEvery # 0
    PROVE  Pos(i + 1) = Pos(i) + 1
<1>1. PICK n : n = SaveEvery  OBVIOUS
<1>2. n \in Nat \ {0}  BY <1>1, BulkAssumption, Zenon DEF BulkAssumption
<1>3. i # 0
  <2>1. 0 % n = 0
    <3>1. 0 \in 0..(n - 1) /\ 0 = n * 0 + 0  BY <1>2, SMT
    <3> QED BY <1>2, <3>1, DivisionIs
  <2> QED BY <1>1, <2>1
<1>4. PICK q \in Int : q = i \div n  BY <1>2, DivisionParts
<1>5. PICK r : r = i % n  OBVIOUS
<1>6. r \in 0..(n - 1) /\ i = n * q + r  BY <1>2, <1>4, <1>5, DivisionParts
<1>7. r - 1 \in 0..(n - 1) /\ r # 0  BY <1>1, <1>2, <1>5, <1>6, SMT
<1>8. i - 1 = n * q + (r - 1)  BY <1>2, <1>4, <1>6, SMT
<1>9. i - 1 \in Nat  BY <1>3, SMT
<1>10. (i - 1) % n = r - 1  BY <1>2, <1>7, <1>8, <1>9, DivisionIs
<1>11. Pos(i) = r - 1  BY <1>1, <1>3, <1>10, Zenon DEF Pos
<1>12. i + 1 # 0 /\ (i + 1) - 1 = i  BY SMT
<1>13. Pos(i + 1) = r  BY <1>1, <1>5, <1>12 DEF Pos
<1> QED BY <1>6, <1>11, <1>13, SMT

\* A step of b alone that does not undo what a cancel or a reaper knows of it.
Alone(b) ==
    /\ \A e \in Batch \ {b} : /\ driver'[e] = driver[e] /\ row'[e] = row[e] /\ flag'[e] = flag[e]
                              /\ sends'[e] = sends[e] /\ late'[e] = late[e]
    /\ driver[b].pc \notin {"none", "saving"} => driver'[b].pc \notin {"none", "saving"}
    /\ driver[b].pc \notin {"none", "saving"} /\ (flag[b] = "off" \/ driver[b].pc \in Idle)
         => flag'[b] = "off" \/ driver'[b].pc \in Idle

\* Such a step keeps the invariant when it keeps what the invariant says of b.
LEMMA LateOne ==
    ASSUME LInv, NEW b \in Batch, Alone(b), LateFine(b)', late' \in [Batch -> Late],
           cancels' \subseteq cancels, reaps' \subseteq reaps,
           \A c \in cancels : c.batch \in Batch, \A r \in reaps : r.batch \in Batch
    PROVE  LInv'
<1>1. ASSUME NEW e \in Batch  PROVE LateFine(e)'
  <2>1. CASE e = b  BY <2>1
  <2>2. CASE e # b
    <3>1. /\ driver'[e] = driver[e] /\ row'[e] = row[e] /\ flag'[e] = flag[e]
          /\ sends'[e] = sends[e] /\ late'[e] = late[e]
      BY <2>2, Zenon DEF Alone
    <3>2. LateFine(e)  BY Zenon DEF LInv
    <3> QED BY <3>1, <3>2, Zenon DEF LateFine, Pos
  <2> QED BY <2>1, <2>2
<1>2. ASSUME NEW e \in Batch, NEW local, Reached(e, local)  PROVE Reached(e, local)'
  <2>1. CASE e = b  BY <1>2, <2>1, Zenon DEF Reached, Alone
  <2>2. CASE e # b
    <3>1. driver'[e] = driver[e] /\ flag'[e] = flag[e]  BY <2>2, Zenon DEF Alone
    <3> QED BY <1>2, <3>1, Zenon DEF Reached
  <2> QED BY <2>1, <2>2
<1>3. \A c \in cancels' : Reached(c.batch, c.local)'  BY <1>2, Zenon DEF LInv
<1>4. \A r \in reaps' : Reached(r.batch, FALSE)'  BY <1>2, Zenon DEF LInv
<1> QED BY <1>1, <1>3, <1>4, Zenon DEF LInv

\* The cancels and the reapers are about batches.
LEMMA CallsAre ==
    ASSUME IInv
    PROVE  (\A c \in cancels : c.batch \in Batch) /\ \A r \in reaps : r.batch \in Batch
  BY Zenon DEF IInv, CallFine, ReapFine

\* Which names differ.
LEMMA Labels ==
    /\ "saving" \notin Idle /\ "pickup" \notin Idle /\ "none" \in Idle /\ "done" \in Idle /\ "threw" \in Idle
    /\ "crashed" \in Idle /\ "left" \in Idle
    /\ "cancelled" \notin {"absent", "pending", "processing", "gone"} /\ "cancelled" # "failed"
    /\ "failed" \notin {"absent", "pending", "processing", "gone", "cancelled"}
    /\ "processing" \notin {"absent", "gone", "cancelled"} /\ "pending" \notin {"absent", "gone", "cancelled"}
    /\ "absent" # "cancelled" /\ "gone" \notin {"absent", "pending", "processing", "cancelled"}
  BY SMT DEF Idle

-----------------------------------------------------------------------------
\* A driver that goes on to another await keeps the invariant, when it does not enter an
\* item after a cancel of this process.
LEMMA Enters ==
    ASSUME IInv, LInv, NEW b \in Batch, NEW pc \in PC, Goto(b, pc), late' = late, sends' = sends,
           cancels' = cancels, reaps' = reaps,
           \A e \in Batch \ {b} : row'[e] = row[e] /\ flag'[e] = flag[e],
           driver[b].pc \notin {"none", "saving"} => pc \notin {"none", "saving"},
           driver[b].pc \notin {"none", "saving"} /\ (flag[b] = "off" \/ driver[b].pc \in Idle)
             => flag'[b] = "off" \/ pc \in Idle,
           row'[b].status \in {"absent", "pending", "processing"} => late[b].sends = 0,
           row'[b].status \notin {"absent", "gone"} => pc \notin {"none", "saving"},
           row'[b].status = "cancelled" /\ pc \in {"top", "gate", "sending"}
             => row[b].status = "cancelled" /\ driver[b].pc \in {"top", "gate", "sending"},
           row'[b].status = "cancelled" /\ late[b].by = "local" =>
             flag'[b] # "on" /\ (pc \in {"gate", "sending"} => late[b].sends = 0),
           pc # "final"
    PROVE  LInv'
<1>1. /\ driver'[b].pc = pc /\ driver'[b].index = driver[b].index
      /\ \A e \in Batch \ {b} : driver'[e] = driver[e]
  BY ToPc, Zenon DEF IInv
<1>2. Alone(b)  BY <1>1, Zenon DEF Alone
<1>3. LateFine(b)  BY Zenon DEF LInv
<1>4. late'[b] = late[b] /\ sends'[b] = sends[b]  OBVIOUS
<1>5. LateFine(b)'  BY <1>1, <1>3, <1>4, Zenon DEF LateFine, Pos
<1>6. late' \in [Batch -> Late]  BY Zenon DEF LInv
<1>7. cancels' \subseteq cancels /\ reaps' \subseteq reaps  OBVIOUS
<1> QED BY <1>2, <1>5, <1>6, <1>7, CallsAre, LateOne

\* What leaving does to the driver.
LEMMA LeaveShape ==
    ASSUME IInv, NEW b \in Batch, NEW pc \in {"done", "threw"}, NEW read, Leave(b, pc, read)
    PROVE  /\ driver'[b].pc = pc
           /\ \A e \in Batch \ {b} : driver'[e] = driver[e] /\ flag'[e] = flag[e]
<1>1. PICK d : d = [NoDriver EXCEPT !.pc = pc]  OBVIOUS
<1>2. pc \in PC  BY SMT DEF PC
<1>3. d.pc = pc  BY <1>1, <1>2, NoDriverIs, Zenon DEF Driver
<1>4. driver' = [driver EXCEPT ![b] = d]  BY <1>1, Zenon DEF Leave
<1>5. driver'[b] = d /\ \A e \in Batch \ {b} : driver'[e] = driver[e]  BY <1>4, Zenon DEF IInv, Types
<1>6. \A e \in Batch \ {b} : flag'[e] = flag[e]
  <2>1. flag \in [Batch -> {"none", "on", "off"}]  BY Zenon DEF IInv, Types
  <2>2. CASE read
    <3>1. flag' = [flag EXCEPT ![b] = "none"]  BY <2>2, Zenon DEF Leave
    <3> QED BY <2>1, <3>1, Zenon
  <2>3. CASE ~read
    <3>1. flag' = flag  BY <2>3, Zenon DEF Leave
    <3> QED BY <3>1, Zenon
  <2> QED BY <2>2, <2>3
<1> QED BY <1>3, <1>5, <1>6, Zenon

\* A driver that leaves sends nothing any more.
LEMMA LeavesLate ==
    ASSUME IInv, IInv', LInv, NEW b \in Batch, NEW pc \in {"done", "threw"}, NEW read, Leave(b, pc, read),
           late' = late, sends' = sends, cancels' = cancels, reaps' = reaps,
           \A e \in Batch \ {b} : row'[e] = row[e],
           row'[b].status \in {"absent", "pending", "processing"} => row'[b].status = row[b].status
    PROVE  LInv'
<1>1. driver'[b].pc = pc /\ \A e \in Batch \ {b} : driver'[e] = driver[e] /\ flag'[e] = flag[e]
  BY LeaveShape, Zenon
<1>2. pc \in Idle /\ pc \notin {"none", "saving", "top", "gate", "sending", "final"}  BY SMT DEF Idle
<1>3. flag'[b] # "on"
  <2>1. DriverFine(b)'  BY Zenon DEF IInv
  <2> QED BY <1>1, <1>2, <2>1, Zenon DEF DriverFine
<1>4. Alone(b)  BY <1>1, <1>2, Zenon DEF Alone
<1>5. LateFine(b)  BY Zenon DEF LInv
<1>6. late'[b] = late[b] /\ sends'[b] = sends[b]  OBVIOUS
<1>7. LateFine(b)'  BY <1>1, <1>2, <1>3, <1>5, <1>6, Zenon DEF LateFine
<1>8. late' \in [Batch -> Late]  BY Zenon DEF LInv
<1>9. cancels' \subseteq cancels /\ reaps' \subseteq reaps  OBVIOUS
<1> QED BY <1>4, <1>7, <1>8, <1>9, CallsAre, LateOne

\* What the end of an item does to the driver: without a write of the progress it is one of
\* the items Pos counts.
LEMMA DoneShape ==
    ASSUME IInv, NEW b \in Batch, driver[b].pc \in {"top", "gate", "sending"}, driver[b].index < Items,
           NEW o \in {"sent", "failed"}, Done(b, o)
    PROVE  /\ \A e \in Batch \ {b} : driver'[e] = driver[e]
           /\ driver'[b].pc \in {"reread", "progress", "top"}
           /\ driver'[b].pc = "top" => /\ driver'[b].index = driver[b].index + 1
                                       /\ driver[b].index % SaveEvery # 0
<1>1. PICK q : q = Outcome(driver[b].progress, o)  OBVIOUS
<1>2. /\ Adds(driver[b].progress) /\ driver[b].progress.pending = Items - driver[b].index
      /\ ~driver[b].stopped /\ driver[b].index \in 0..Items
  <2>1. DriverFine(b) /\ driver[b] \in Driver  BY Zenon DEF IInv, Types
  <2>2. driver[b].index \in 0..Items  BY <2>1, Zenon DEF Driver
  <2> QED BY <2>1, <2>2, SMT DEF DriverFine, Going
<1>3. driver[b].progress.pending > 0
  BY <1>2, BulkAssumption, SMT DEF BulkAssumption
<1>4. q \in Progress  BY <1>1, <1>2, <1>3, OutcomeAdds, Zenon DEF Adds
<1>5. PICK e \in Driver :
          /\ driver' = [driver EXCEPT ![b] = e]
          /\ \/ e.pc = "reread"
             \/ /\ e.pc \in {"progress", "top"} /\ e.index = driver[b].index + 1
                /\ e.pc = "top" => driver[b].index % SaveEvery # 0
  <2>1. Types  BY Zenon DEF IInv
  <2> QED BY <1>1, <1>2, <1>4, <2>1, DoneIs, Zenon
<1>6. driver'[b] = e /\ \A x \in Batch \ {b} : driver'[x] = driver[x]
  BY <1>5, Zenon DEF IInv, Types
<1>7. "reread" # "top"  BY SMT
<1> QED BY <1>5, <1>6, <1>7, Zenon

\* A failed item keeps the invariant.
LEMMA DoneLate ==
    ASSUME IInv, LInv, NEW b \in Batch, driver[b].pc \in {"top", "gate", "sending"}, driver[b].index < Items,
           Done(b, "failed"), UNCHANGED <<row, flag, sends, late, cancels, reaps>>
    PROVE  LInv'
<1>1. "failed" \in {"sent", "failed"}  BY SMT
<1>2. /\ \A e \in Batch \ {b} : driver'[e] = driver[e]
      /\ driver'[b].pc \in {"reread", "progress", "top"}
      /\ driver'[b].pc = "top" => /\ driver'[b].index = driver[b].index + 1
                                  /\ driver[b].index % SaveEvery # 0
  BY <1>1, DoneShape, Zenon
<1>3. driver'[b].pc \notin {"none", "saving", "gate", "sending", "final"} /\ driver[b].pc \notin Idle
  BY <1>2, SMT DEF Idle
<1>4. Alone(b)  BY <1>2, <1>3, Zenon DEF Alone
<1>5. LateFine(b) /\ late[b] \in Late  BY Zenon DEF LInv
<1>6. ASSUME row[b].status = "cancelled", driver'[b].pc = "top"  PROVE late[b].sends <= Pos(driver'[b].index)
  <2>1. driver[b].index \in Nat /\ late[b].sends \in Nat
    <3>1. driver[b].index \in 0..Items /\ late[b].sends \in 0..Items
      BY <1>5, Zenon DEF IInv, Types, Driver, Late
    <3> QED BY <3>1, SMT
  <2>2. late[b].sends <= Pos(driver[b].index)  BY <1>5, <1>6, Zenon DEF LateFine
  <2>3. Pos(driver'[b].index) = Pos(driver[b].index) + 1
    BY <1>2, <1>6, <2>1, PosGrows, Zenon
  <2>4. Pos(driver[b].index) \in Nat  BY <2>1, PosRange, Zenon
  <2> QED BY <2>1, <2>2, <2>3, <2>4, SMT
<1>7. LateFine(b)'
  <2>1. /\ late'[b] = late[b] /\ sends'[b] = sends[b] /\ row'[b] = row[b] /\ flag'[b] = flag[b]
    OBVIOUS
  <2>2. row'[b].status = "cancelled" /\ driver'[b].pc \in {"top", "gate", "sending"}
          => late'[b].sends <= Pos(driver'[b].index)
    BY <1>3, <1>6, <2>1, Zenon
  <2> QED BY <1>3, <1>5, <2>1, <2>2, Zenon DEF LateFine, Pos
<1>8. late' \in [Batch -> Late]  BY Zenon DEF LInv
<1>9. cancels' \subseteq cancels /\ reaps' \subseteq reaps  OBVIOUS
<1> QED BY <1>4, <1>7, <1>8, <1>9, CallsAre, LateOne

\* createBatch() keeps the invariant.
LEMMA CreateLate ==
    ASSUME IInv, LInv, NEW b \in Batch, Create(b)
    PROVE  LInv'
<1>1. /\ driver[b].pc = "none" /\ row[b].status = "absent" /\ Goto(b, "saving")
      /\ UNCHANGED <<row, flag, late, sends, cancels, reaps>>
  BY Zenon DEF Create, calls, ghost
<1>2. "saving" \in PC /\ "saving" \notin {"top", "gate", "sending", "final"}  BY SMT DEF PC
<1>3. LateFine(b)  BY Zenon DEF LInv
<1>4. row'[b].status \in {"absent", "pending", "processing"} => late[b].sends = 0
  BY <1>1, <1>3, Zenon DEF LateFine
<1>5. row'[b].status = "absent" /\ row'[b].status # "cancelled"  BY <1>1, Labels, Zenon
<1> QED BY <1>1, <1>2, <1>4, <1>5, Enters

\* The INSERT keeps the invariant.
LEMMA SavedLate ==
    ASSUME IInv, LInv, NEW b \in Batch, Saved(b)
    PROVE  LInv'
<1>1. /\ driver[b].pc = "saving" /\ row[b].status = "absent" /\ Goto(b, "pickup")
      /\ row' = [row EXCEPT ![b].status = "pending"]
      /\ UNCHANGED <<flag, late, sends, cancels, reaps>>
  BY Zenon DEF Saved, calls, ghost
<1>2. "pickup" \in PC /\ "pickup" \notin {"top", "gate", "sending", "final", "none", "saving"}
      /\ "pending" \in Status
  BY SMT DEF PC, Status
<1>3. row'[b].status = "pending" /\ \A e \in Batch \ {b} : row'[e] = row[e]
  BY <1>1, <1>2, RowStatus, Zenon DEF IInv
<1>4. late[b].sends = 0
  <2>1. LateFine(b)  BY Zenon DEF LInv
  <2> QED BY <1>1, <2>1, Zenon DEF LateFine
<1>5. row'[b].status # "cancelled"  BY <1>3, Labels, Zenon
<1> QED BY <1>1, <1>2, <1>3, <1>4, <1>5, Enters

\* Its failure keeps the invariant.
LEMMA SaveFailsLate ==
    ASSUME IInv, LInv, NEW b \in Batch, SaveFails(b)
    PROVE  LInv'
<1>1. /\ driver[b].pc = "saving" /\ Goto(b, "none")
      /\ UNCHANGED <<row, flag, late, sends, cancels, reaps>>
  BY Zenon DEF SaveFails, calls, ghost
<1>2. "none" \in PC /\ "none" \notin {"top", "gate", "sending", "final"}  BY SMT DEF PC
<1>3. LateFine(b)  BY Zenon DEF LInv
<1>4. row[b].status \in {"absent", "gone"}  BY <1>1, <1>3, Zenon DEF LateFine
<1>5. row'[b].status # "cancelled"  BY <1>1, <1>4, Labels, Zenon
<1>6. row'[b].status \in {"absent", "pending", "processing"} => late[b].sends = 0
  BY <1>1, <1>3, Zenon DEF LateFine
<1> QED BY <1>1, <1>2, <1>4, <1>5, <1>6, Enters

\* The first read keeps the invariant: a cancel seen there sends nothing.
LEMMA PickupLate ==
    ASSUME IInv, IInv', LInv, NEW b \in Batch, Pickup(b)
    PROVE  LInv'
<1>1. /\ driver[b].pc = "pickup" /\ UNCHANGED <<row, late, sends, cancels, reaps>>
  BY Zenon DEF Pickup, calls, ghost
<1>2. LateFine(b)  BY Zenon DEF LInv
<1>3. CASE Leave(b, "done", Exists(b))  BY <1>1, <1>3, LeavesLate, Zenon
<1>4. CASE /\ flag[b] # "off" /\ row[b].status # "cancelled"
           /\ Goto(b, "start") /\ flag' = [flag EXCEPT ![b] = "on"]
  <2>1. "start" \in PC /\ "start" \notin {"top", "gate", "sending", "final", "none", "saving"}
    BY SMT DEF PC
  <2>2. \A e \in Batch \ {b} : flag'[e] = flag[e]  BY <1>4, Zenon DEF IInv, Types
  <2>3. driver[b].pc \notin Idle  BY <1>1, Labels, Zenon
  <2>4. row'[b].status \in {"absent", "pending", "processing"} => late[b].sends = 0
    BY <1>1, <1>2, Zenon DEF LateFine
  <2> QED BY <1>1, <1>4, <2>1, <2>2, <2>3, <2>4, Enters
<1> QED BY <1>3, <1>4, Zenon DEF Pickup

\* The UPDATE to PROCESSING keeps the invariant: nothing has been sent before it.
LEMMA MarkProcessingLate ==
    ASSUME IInv, IInv', LInv, NEW b \in Batch, MarkProcessing(b)
    PROVE  LInv'
<1>1. driver[b].pc = "start" /\ UNCHANGED <<late, sends, cancels, reaps>>
  BY Zenon DEF MarkProcessing, calls, ghost
<1>2. CASE Leave(b, "done", TRUE) /\ UNCHANGED row  BY <1>1, <1>2, LeavesLate, Zenon
<1>3. CASE /\ row' = [row EXCEPT ![b].status = "processing"]
           /\ driver' = [driver EXCEPT ![b].pc = IF engine THEN "top" ELSE "noengine", ![b].lost = FALSE]
           /\ UNCHANGED flag
  <2>1. LateFine(b) /\ late[b] \in Late  BY Zenon DEF LInv
  <2>2. late[b].sends = 0
    <3>1. /\ driver[b].progress.pending = Items /\ Adds(driver[b].progress)
          /\ driver[b].progress.sent = sends[b]
      BY <1>1, SMT DEF IInv, DriverFine, Early, Idle
    <3>2. driver[b].progress.sent = 0
      BY <3>1, BulkAssumption, SMT DEF Adds, Progress, BulkAssumption
    <3>3. late[b].sends <= 0  BY <2>1, <3>1, <3>2, Zenon DEF LateFine
    <3>4. late[b].sends \in 0..Items  BY <2>1, Zenon DEF Late
    <3> QED BY <3>3, <3>4, SMT
  <2>3. row'[b].status = "processing" /\ \A e \in Batch \ {b} : row'[e] = row[e]
    <3>1. "processing" \in Status  BY SMT DEF Status
    <3> QED BY <1>3, <3>1, RowStatus, Zenon DEF IInv
  <2>4. /\ driver'[b].pc \in {"top", "noengine"} /\ \A e \in Batch \ {b} : driver'[e] = driver[e]
    <3>1. driver \in [Batch -> Driver] /\ driver[b] \in Driver  BY Zenon DEF IInv, Types
    <3>2. PICK pc : pc = IF engine THEN "top" ELSE "noengine"  OBVIOUS
    <3>3. PICK d0 : d0 = [driver[b] EXCEPT !.pc = pc]  OBVIOUS
    <3>4. PICK d : d = [d0 EXCEPT !.lost = FALSE]  OBVIOUS
    <3>5. pc \in {"top", "noengine"} /\ pc \in PC  BY <3>2, SMT DEF PC
    <3>6. d0 \in Driver /\ d0.pc = pc  BY <3>1, <3>3, <3>5, Zenon DEF Driver
    <3>7. d.pc = pc  BY <3>4, <3>6, Zenon DEF Driver
    <3>8. driver' = [driver EXCEPT ![b] = d]  BY <1>3, <3>2, <3>3, <3>4
    <3> QED BY <3>1, <3>5, <3>7, <3>8, Zenon
  <2>5. driver'[b].pc \notin {"none", "saving", "final"} /\ driver[b].pc \notin Idle
    BY <1>1, <2>4, SMT DEF Idle
  <2>6. Alone(b)  BY <1>1, <1>3, <2>3, <2>4, <2>5, Zenon DEF Alone
  <2>7. LateFine(b)'
    <3>1. row'[b].status # "cancelled"  BY <2>3, Labels, Zenon
    <3>2. late'[b] = late[b] /\ sends'[b] = sends[b]  BY <1>1, Zenon
    <3> QED BY <2>1, <2>2, <2>5, <3>1, <3>2, Zenon DEF LateFine
  <2>8. late' \in [Batch -> Late]  BY <1>1, Zenon DEF LInv
  <2>9. cancels' \subseteq cancels /\ reaps' \subseteq reaps  BY <1>1
  <2> QED BY <2>6, <2>7, <2>8, <2>9, CallsAre, LateOne
<1> QED BY <1>2, <1>3, Zenon DEF MarkProcessing

\* Failing the batch without an engine keeps the invariant.
LEMMA FailWithoutEngineLate ==
    ASSUME IInv, IInv', LInv, NEW b \in Batch, FailWithoutEngine(b)
    PROVE  LInv'
<1>1. /\ row' = (IF Guard(b) THEN [row EXCEPT ![b].status = "failed"] ELSE row)
      /\ Leave(b, "done", TRUE) /\ UNCHANGED <<late, sends, cancels, reaps>>
  BY Zenon DEF FailWithoutEngine, calls, ghost
<1>2. /\ row'[b].status = row[b].status \/ row'[b].status = "failed"
      /\ \A e \in Batch \ {b} : row'[e] = row[e]
  <2>1. CASE Guard(b)
    <3>1. "failed" \in Status  BY SMT DEF Status
    <3> QED BY <1>1, <2>1, <3>1, RowStatus, Zenon DEF IInv
  <2>2. CASE ~Guard(b)
    <3>1. row' = row  BY <1>1, <2>2, Zenon
    <3> QED BY <3>1, Zenon
  <2> QED BY <2>1, <2>2
<1> QED BY <1>1, <1>2, Labels, LeavesLate, Zenon

\* A driver that goes to its next await of the loop keeps the invariant.
LEMMA GotoLate ==
    ASSUME IInv, LInv, NEW b \in Batch, NEW pc \in Going, Goto(b, pc), driver[b].pc \in Going,
           UNCHANGED <<row, flag, late, sends, cancels, reaps>>,
           pc = "top" => row[b].status # "cancelled",
           pc = "gate" => driver[b].pc = "top" /\ flag[b] = "on",
           pc = "sending" => driver[b].pc = "gate"
    PROVE  LInv'
<1>1. /\ pc \in PC /\ pc \notin {"none", "saving", "final"} /\ driver[b].pc \notin Idle
  BY SMT DEF Going, PC, Idle
<1>2. LateFine(b)  BY Zenon DEF LInv
<1>3. row'[b] = row[b] /\ flag'[b] = flag[b]  OBVIOUS
<1>4. row'[b].status = "cancelled" /\ pc \in {"top", "gate", "sending"}
        => row[b].status = "cancelled" /\ driver[b].pc \in {"top", "gate", "sending"}
  BY <1>3, Zenon
<1>5. row'[b].status = "cancelled" /\ late[b].by = "local" =>
        flag'[b] # "on" /\ (pc \in {"gate", "sending"} => late[b].sends = 0)
  BY <1>2, <1>3, Zenon DEF LateFine
<1>6. row'[b].status \in {"absent", "pending", "processing"} => late[b].sends = 0
  BY <1>2, <1>3, Zenon DEF LateFine
<1>7. \A e \in Batch \ {b} : row'[e] = row[e] /\ flag'[e] = flag[e]  OBVIOUS
<1> QED BY <1>1, <1>3, <1>4, <1>5, <1>6, <1>7, Enters, Zenon

\* The entry of an item keeps the invariant: past a cancel of this process no item starts.
LEMMA NextItemLate ==
    ASSUME IInv, LInv, NEW b \in Batch, NextItem(b)
    PROVE  LInv'
<1>1. /\ driver[b].pc = "top" /\ driver[b].pc \in Going /\ "reread" \in Going /\ "gate" \in Going
      /\ "reread" \notin {"top", "gate", "sending"} /\ "gate" \notin {"top", "sending"}
      /\ UNCHANGED <<row, flag, late, sends, cancels, reaps>>
  BY SMT DEF NextItem, Going, calls, ghost
<1>2. CASE Goto(b, "reread")  BY <1>1, <1>2, GotoLate, Zenon
<1>3. CASE flag[b] = "on" /\ Goto(b, "gate")  BY <1>1, <1>3, GotoLate, Zenon
<1>4. CASE ~(driver[b].index = Items) /\ Done(b, "failed")
  <2>1. driver[b].index < Items
    <3>1. driver[b].index \in 0..Items  BY Zenon DEF IInv, Types, Driver
    <3> QED BY <1>4, <3>1, BulkAssumption, SMT DEF BulkAssumption
  <2> QED BY <1>1, <1>4, <2>1, DoneLate, Zenon
<1> QED BY <1>2, <1>3, <1>4, Zenon DEF NextItem

\* The gate keeps the invariant.
LEMMA GatedLate ==
    ASSUME IInv, LInv, NEW b \in Batch, Gated(b)
    PROVE  LInv'
<1>1. /\ driver[b].pc = "gate" /\ driver[b].pc \in Going /\ "sending" \in Going
      /\ "sending" \notin {"top", "gate"}
      /\ UNCHANGED <<row, flag, late, sends, cancels, reaps>>
  BY SMT DEF Gated, Going, calls, ghost
<1>2. CASE Goto(b, "sending")  BY <1>1, <1>2, GotoLate, Zenon
<1>3. CASE Done(b, "failed")
  <2>1. driver[b].index < Items  BY <1>1, InItem, Zenon
  <2> QED BY <1>1, <1>3, <2>1, DoneLate, Zenon
<1> QED BY <1>2, <1>3, Zenon DEF Gated

\* A refused message keeps the invariant.
LEMMA SendFailsLate ==
    ASSUME IInv, LInv, NEW b \in Batch, SendFails(b)
    PROVE  LInv'
<1>1. /\ driver[b].pc = "sending" /\ Done(b, "failed")
      /\ UNCHANGED <<row, flag, late, sends, cancels, reaps>>
  BY Zenon DEF SendFails, calls, ghost
<1>2. driver[b].index < Items  BY <1>1, InItem, Zenon
<1> QED BY <1>1, <1>2, DoneLate, Zenon

\* An accepted message keeps the invariant: it is the one in flight when the cancel is of
\* this process, and one since the last write when it is of a peer.
LEMMA SentLate ==
    ASSUME IInv, IInv', LInv, NEW b \in Batch, Sent(b)
    PROVE  LInv'
<1>1. /\ driver[b].pc = "sending" /\ Done(b, "sent") /\ sends' = [sends EXCEPT ![b] = sends[b] + 1]
      /\ late' = [late EXCEPT ![b].sends = IF row[b].status = "cancelled" THEN late[b].sends + 1
                                           ELSE late[b].sends]
      /\ UNCHANGED <<row, flag, cancels, reaps>>
  BY DEF Sent, calls
<1>2. driver[b].index < Items  BY <1>1, InItem, Zenon
<1>3. /\ \A e \in Batch \ {b} : driver'[e] = driver[e]
      /\ driver'[b].pc \in {"reread", "progress", "top"}
      /\ driver'[b].pc = "top" => /\ driver'[b].index = driver[b].index + 1
                                  /\ driver[b].index % SaveEvery # 0
  <2>1. "sent" \in {"sent", "failed"}  OBVIOUS
  <2> QED BY <1>1, <1>2, <2>1, DoneShape, Zenon
<1>4. driver'[b].pc \notin {"none", "saving", "gate", "sending", "final"} /\ driver[b].pc \notin Idle
  BY <1>1, <1>3, SMT DEF Idle
<1>5. LateFine(b) /\ late \in [Batch -> Late] /\ late[b] \in Late  BY Zenon DEF LInv
<1>6. /\ sends[b] \in Nat /\ sends[b] + 1 \in 0..Items /\ sends'[b] = sends[b] + 1
      /\ \A e \in Batch \ {b} : sends'[e] = sends[e]
  <2>1. sends \in [Batch -> 0..Items] /\ sends' \in [Batch -> 0..Items]  BY Zenon DEF IInv, Types
  <2> QED BY <1>1, <2>1, BulkAssumption, SMT DEF BulkAssumption
<1>7. /\ driver[b].index \in Nat /\ late[b].sends \in Nat /\ late[b].sends <= sends[b] /\ Items \in Nat
      /\ late[b].sends <= SaveEvery /\ SaveEvery \in Nat
  <2>1. driver[b].index \in 0..Items /\ late[b].sends \in 0..Items
    BY <1>5, Zenon DEF IInv, Types, Driver, Late
  <2>2. late[b].sends <= sends[b] /\ late[b].sends <= SaveEvery  BY <1>5, Zenon DEF LateFine
  <2> QED BY <2>1, <2>2, BulkAssumption, SMT DEF BulkAssumption
<1>8. PICK s : s = IF row[b].status = "cancelled" THEN late[b].sends + 1 ELSE late[b].sends  OBVIOUS
<1>9. PICK l : l = [late[b] EXCEPT !.sends = s]  OBVIOUS
<1>10. s \in 0..Items /\ s <= sends'[b] /\ s >= late[b].sends /\ s <= late[b].sends + 1
  BY <1>6, <1>7, <1>8, SMT
<1>11. l \in Late /\ l.sends = s /\ l.by = late[b].by
  BY <1>5, <1>9, <1>10, Zenon DEF Late
<1>12. late' = [late EXCEPT ![b] = l]  BY <1>1, <1>8, <1>9
<1>13. late' \in [Batch -> Late] /\ late'[b] = l /\ \A e \in Batch \ {b} : late'[e] = late[e]
  BY <1>5, <1>11, <1>12, Zenon
<1>14. Alone(b)  BY <1>1, <1>3, <1>4, <1>6, <1>13, Zenon DEF Alone
<1>15. CASE row[b].status # "cancelled"
  <2>1. s = late[b].sends  BY <1>8, <1>15, Zenon
  <2>2. row'[b] = row[b]  BY <1>1, Zenon
  <2>3. LateFine(b)'
    BY <1>4, <1>5, <1>10, <1>11, <1>13, <1>15, <2>1, <2>2, <1>1, Zenon DEF LateFine
  <2>4. cancels' \subseteq cancels /\ reaps' \subseteq reaps  BY <1>1
  <2> QED BY <1>13, <1>14, <2>3, <2>4, CallsAre, LateOne
<1>16. CASE row[b].status = "cancelled"
  <2>1. s = late[b].sends + 1 /\ row'[b] = row[b] /\ flag'[b] = flag[b]  BY <1>1, <1>8, <1>16, Zenon
  <2>2. late[b].sends <= Pos(driver[b].index)
    BY <1>1, <1>5, <1>16, Zenon DEF LateFine
  <2>3. Pos(driver[b].index) \in Nat /\ Pos(driver[b].index) < SaveEvery  BY <1>7, PosRange, Zenon
  <2>4. s <= SaveEvery  BY <1>7, <2>1, <2>2, <2>3, SMT
  <2>5. late[b].by = "local" => s <= 1
    <3>1. late[b].by = "local" => late[b].sends = 0  BY <1>1, <1>5, <1>16, Zenon DEF LateFine
    <3> QED BY <2>1, <3>1, SMT
  <2>6. driver'[b].pc = "top" => s <= Pos(driver'[b].index)
    <3>1. driver'[b].pc = "top" => Pos(driver'[b].index) = Pos(driver[b].index) + 1
      BY <1>3, <1>7, PosGrows, Zenon
    <3> QED BY <1>7, <2>1, <2>2, <2>3, <3>1, SMT
  <2>7. driver'[b].pc \in {"top", "gate", "sending"} => s <= Pos(driver'[b].index)
    BY <1>4, <2>6, Zenon
  <2>8. LateFine(b)'
    <3>1. row'[b].status = "cancelled" /\ row'[b].status \notin {"absent", "pending", "processing"}
      BY <1>16, <2>1, Labels, Zenon
    <3>2. late'[b].by = late[b].by /\ late'[b].sends = s  BY <1>11, <1>13, Zenon
    <3>3. late'[b].by = "local" => flag'[b] # "on"  BY <1>5, <1>16, <2>1, <3>2, Zenon DEF LateFine
    <3> QED BY <1>4, <1>10, <2>4, <2>5, <2>7, <3>1, <3>2, <3>3, Zenon DEF LateFine, Pos
  <2>9. cancels' \subseteq cancels /\ reaps' \subseteq reaps  BY <1>1
  <2> QED BY <1>13, <1>14, <2>8, <2>9, CallsAre, LateOne
<1> QED BY <1>15, <1>16

\* Fixing a verdict keeps the invariant.
LEMMA FinalLate ==
    ASSUME IInv, LInv, NEW b \in Batch, driver[b].pc \in Going,
           NEW c \in BOOLEAN, NEW v \in Over, NEW q \in Progress,
           driver' = [driver EXCEPT ![b] =
               [driver[b] EXCEPT !.pc = "final", !.cancelled = c, !.verdict = v, !.progress = q]],
           UNCHANGED <<row, flag, late, sends, cancels, reaps>>
    PROVE  LInv'
<1>1. /\ driver[b].pc \notin Idle /\ "final" \in PC
      /\ "final" \notin {"none", "saving", "top", "gate", "sending"}
  BY SMT DEF Going, Idle, PC
<1>2. driver[b] \in Driver /\ v \in Over \cup {"processing"}  BY Zenon DEF IInv, Types
<1>3. PICK f : f = [driver[b] EXCEPT !.pc = "final"]  OBVIOUS
<1>4. f \in Driver /\ f.pc = "final"  BY <1>1, <1>2, <1>3, Zenon DEF Driver
<1>5. PICK g : g = [f EXCEPT !.cancelled = c]  OBVIOUS
<1>6. g \in Driver /\ g.pc = "final"  BY <1>4, <1>5, Zenon DEF Driver
<1>7. PICK h : h = [g EXCEPT !.verdict = v]  OBVIOUS
<1>8. h \in Driver /\ h.pc = "final" /\ h.verdict = v  BY <1>2, <1>6, <1>7, Zenon DEF Driver
<1>9. PICK d : d = [h EXCEPT !.progress = q]  OBVIOUS
<1>10. d \in Driver /\ d.pc = "final" /\ d.verdict = v  BY <1>8, <1>9, Zenon DEF Driver
<1>11. driver' = [driver EXCEPT ![b] = d]  BY <1>3, <1>5, <1>7, <1>9
<1>12. driver'[b] = d /\ \A e \in Batch \ {b} : driver'[e] = driver[e]
  BY <1>11, Zenon DEF IInv, Types
<1>13. Alone(b)  BY <1>1, <1>10, <1>12, Zenon DEF Alone
<1>14. LateFine(b)'
  <2>1. LateFine(b)  BY Zenon DEF LInv
  <2>2. row'[b] = row[b] /\ flag'[b] = flag[b] /\ late'[b] = late[b] /\ sends'[b] = sends[b]  OBVIOUS
  <2> QED BY <1>1, <1>10, <1>12, <2>1, <2>2, Zenon DEF LateFine
<1>15. late' \in [Batch -> Late]  BY Zenon DEF LInv
<1>16. cancels' \subseteq cancels /\ reaps' \subseteq reaps  OBVIOUS
<1> QED BY <1>13, <1>14, <1>15, <1>16, CallsAre, LateOne

\* The counters of a driver in its loop, and their reconciled form, are counters.
LEMMA DriverCounts ==
    ASSUME IInv, NEW b \in Batch, driver[b].pc \in Going
    PROVE  driver[b].progress \in Progress /\ Cancelled(driver[b].progress) \in Progress
<1>1. DriverFine(b)  BY Zenon DEF IInv
<1>2. Adds(driver[b].progress) /\ driver[b].progress.cancelled = 0  BY <1>1, Zenon DEF DriverFine
<1>3. Adds(Cancelled(driver[b].progress))  BY <1>2, CancelledAdds, Zenon
<1> QED BY <1>2, <1>3, Zenon DEF Adds

\* The write of the progress keeps the invariant: it goes on only when it finds no cancel.
LEMMA SaveProgressLate ==
    ASSUME IInv, LInv, NEW b \in Batch, SaveProgress(b)
    PROVE  LInv'
<1>1. /\ driver[b].pc = "progress" /\ driver[b].pc \in Going /\ UNCHANGED <<flag, late, sends, cancels, reaps>>
  BY SMT DEF SaveProgress, Going, calls, ghost
<1>2. CASE Guard(b)
  <2>1. /\ row' = [row EXCEPT ![b].progress = driver[b].progress, ![b].index = driver[b].index]
        /\ Goto(b, "top")
    BY <1>2 DEF SaveProgress
  <2>2. row'[b].status = row[b].status /\ \A e \in Batch \ {b} : row'[e] = row[e]
    <3>1. row \in [Batch -> Row] /\ row[b] \in Row  BY Zenon DEF IInv, Types
    <3>2. driver[b].progress \in Progress /\ driver[b].index \in 0..Items
      BY <1>1, DriverCounts, Zenon DEF IInv, Types, Driver
    <3>3. PICK s : s = [row[b] EXCEPT !.progress = driver[b].progress]  OBVIOUS
    <3>4. s \in Row /\ s.status = row[b].status  BY <3>1, <3>2, <3>3, Zenon DEF Row
    <3>5. PICK r : r = [s EXCEPT !.index = driver[b].index]  OBVIOUS
    <3>6. r.status = row[b].status  BY <3>2, <3>4, <3>5, Zenon DEF Row
    <3>7. row' = [row EXCEPT ![b] = r]  BY <2>1, <3>3, <3>5
    <3> QED BY <3>1, <3>6, <3>7, Zenon
  <2>3. "top" \in PC /\ "top" \notin {"none", "saving", "final"} /\ driver[b].pc \notin Idle
    BY <1>1, SMT DEF PC, Idle
  <2>4. row'[b].status # "cancelled"  BY <1>2, <2>2, Zenon DEF Guard
  <2>5. LateFine(b)  BY Zenon DEF LInv
  <2>6. row'[b].status \in {"absent", "pending", "processing"} => late[b].sends = 0
    BY <2>2, <2>5, Zenon DEF LateFine
  <2> QED BY <1>1, <2>1, <2>2, <2>3, <2>4, <2>6, Enters
<1>3. CASE ~Guard(b)
  <2>1. /\ driver' = [driver EXCEPT ![b] =
             [driver[b] EXCEPT !.pc = "final", !.cancelled = TRUE, !.verdict = "cancelled",
                               !.progress = Cancelled(driver[b].progress)]]
        /\ UNCHANGED row
    BY <1>3 DEF SaveProgress
  <2>2. "cancelled" \in Over  BY SMT DEF Over
  <2>3. TRUE \in BOOLEAN  OBVIOUS
  <2> QED BY <1>1, <2>1, <2>2, <2>3, DriverCounts, FinalLate, Zenon
<1> QED BY <1>2, <1>3

\* The second read keeps the invariant.
LEMMA RereadLate ==
    ASSUME IInv, LInv, NEW b \in Batch, Reread(b)
    PROVE  LInv'
<1>1. PICK c : c = (row[b].status = "cancelled" \/ flag[b] # "on")  OBVIOUS
<1>2. c \in BOOLEAN  BY <1>1, Zenon
<1>3. PICK v : v = Verdict(c, driver[b].stopped, driver[b].progress)  OBVIOUS
<1>4. PICK q : q = IF c THEN Cancelled(driver[b].progress) ELSE driver[b].progress  OBVIOUS
<1>5. /\ driver' = [driver EXCEPT ![b] =
             [driver[b] EXCEPT !.pc = "final", !.cancelled = c, !.verdict = v, !.progress = q]]
  BY <1>1, <1>3, <1>4 DEF Reread
<1>6. driver[b].pc \in Going /\ UNCHANGED <<row, flag, late, sends, cancels, reaps>>
  BY SMT DEF Reread, Going, calls, ghost
<1>7. driver[b].stopped \in BOOLEAN  BY Zenon DEF IInv, Types, Driver
<1>8. v \in Over  BY <1>2, <1>3, <1>7, VerdictFine, Zenon
<1>9. q \in Progress  BY <1>4, <1>6, DriverCounts, Zenon
<1> QED BY <1>2, <1>5, <1>6, <1>8, <1>9, FinalLate, Zenon

\* The last write keeps the invariant.
LEMMA FinalizeLate ==
    ASSUME IInv, IInv', LInv, NEW b \in Batch, Finalize(b)
    PROVE  LInv'
<1>1. PICK s : s = Final(driver[b])  OBVIOUS
<1>2. /\ driver[b].pc = "final" /\ Leave(b, "done", TRUE) /\ UNCHANGED <<late, sends, cancels, reaps>>
      /\ row' = (IF driver[b].verdict = "cancelled" \/ Guard(b) THEN [row EXCEPT ![b] = s] ELSE row)
  BY <1>1, Zenon DEF Finalize, calls, ghost
<1>3. s.status = driver[b].verdict  BY <1>1, Zenon DEF Final
<1>4. driver[b].verdict \in Over
  <2>1. LateFine(b)  BY Zenon DEF LInv
  <2> QED BY <1>2, <2>1, Zenon DEF LateFine
<1>5. s.status \notin {"absent", "pending", "processing"}
  BY <1>3, <1>4, SMT DEF Over
<1>6. (row'[b].status = row[b].status \/ row'[b].status = s.status) /\ \A e \in Batch \ {b} : row'[e] = row[e]
  <2>1. row \in [Batch -> Row]  BY Zenon DEF IInv, Types
  <2>2. CASE row' = row  BY <2>2, Zenon
  <2>3. CASE row' = [row EXCEPT ![b] = s]  BY <2>1, <2>3, Zenon
  <2> QED BY <1>2, <2>2, <2>3, Zenon
<1> QED BY <1>2, <1>5, <1>6, LeavesLate, Zenon

\* A failed query keeps the invariant.
LEMMA ThrowsLate ==
    ASSUME IInv, IInv', LInv, NEW b \in Batch, Throws(b)
    PROVE  LInv'
<1>1. /\ Leave(b, "threw", driver[b].pc # "pickup") /\ UNCHANGED <<row, late, sends, cancels, reaps>>
  BY Zenon DEF Throws, calls, ghost
<1> QED BY <1>1, LeavesLate, Zenon

-----------------------------------------------------------------------------
\* A step that moves no driver, but may end them all, keeps the invariant.
LEMMA CallsLate ==
    ASSUME LInv, UNCHANGED <<sends, late>>,
           \A b \in Batch :
               /\ driver'[b].pc = driver[b].pc \/ (driver'[b].pc \in {"crashed", "left"} /\ driver[b].pc # "none")
               /\ driver'[b].pc = driver[b].pc => /\ driver'[b].index = driver[b].index
                                                 /\ driver'[b].verdict = driver[b].verdict
               /\ flag'[b] = flag[b] \/ (flag'[b] = "none" /\ driver'[b].pc \in Idle) \/ flag'[b] = "off"
               /\ row'[b].status = row[b].status \/ row'[b].status = "gone",
           \A c \in cancels' : Reached(c.batch, c.local)', \A r \in reaps' : Reached(r.batch, FALSE)'
    PROVE  LInv'
<1>1. ASSUME NEW b \in Batch  PROVE LateFine(b)'
  <2>1. LateFine(b) /\ late'[b] = late[b] /\ sends'[b] = sends[b]  BY Zenon DEF LInv
  <2>2. flag'[b] = flag[b] \/ flag'[b] # "on"
    <3>1. "none" # "on" /\ "off" # "on"  OBVIOUS
    <3> QED BY <3>1, Zenon
  <2>3. row'[b].status = row[b].status \/ row'[b].status = "gone"  OBVIOUS
  <2>4. CASE driver'[b].pc = driver[b].pc
    <3>1. driver'[b].index = driver[b].index /\ driver'[b].verdict = driver[b].verdict
      BY <2>4, Zenon
    <3> QED BY <2>1, <2>2, <2>3, <2>4, <3>1, Labels, Zenon DEF LateFine, Pos
  <2>5. CASE driver'[b].pc \in {"crashed", "left"}
    <3>1. driver'[b].pc \notin {"none", "saving", "top", "gate", "sending", "final"}  BY <2>5, SMT
    <3> QED BY <2>1, <2>2, <2>3, <3>1, Labels, Zenon DEF LateFine
  <2> QED BY <2>4, <2>5, Zenon
<1> QED BY <1>1, Zenon DEF LInv

\* What a cancel knows of a batch stays true when its flag goes off or its driver ends.
LEMMA StillReached ==
    ASSUME NEW b, NEW local, Reached(b, local),
           driver'[b].pc = driver[b].pc \/ driver'[b].pc \in {"crashed", "left"},
           flag'[b] = flag[b] \/ flag'[b] = "off" \/ driver'[b].pc \in Idle
    PROVE  Reached(b, local)'
<1>1. {"crashed", "left"} \cap {"none", "saving"} = {} /\ {"crashed", "left"} \subseteq Idle
  BY SMT DEF Idle
<1> QED BY <1>1, Zenon DEF Reached

\* cancelBatch() up to its UPDATE keeps the invariant: the flag is off before it.
LEMMA CancelLate ==
    ASSUME IInv, LInv, NEW b \in Batch, NEW local \in BOOLEAN, Cancel(b, local)
    PROVE  LInv'
<1>1. PICK c : c = [batch |-> b, local |-> local, progress |-> Cancelled(row[b].progress)]  OBVIOUS
<1>2. /\ row[b].status \in {"pending", "processing"} /\ cancels' = cancels \cup {c}
      /\ flag' = (IF local THEN [flag EXCEPT ![b] = "off"] ELSE flag)
      /\ UNCHANGED <<row, driver, sends, late, reaps>>
  BY <1>1, Zenon DEF Cancel, ghost
<1>3. flag \in [Batch -> {"none", "on", "off"}]  BY Zenon DEF IInv, Types
<1>4. (\A e \in Batch : flag'[e] = flag[e] \/ flag'[e] = "off") /\ (local => flag'[b] = "off")
  <2>1. CASE local
    <3>1. flag' = [flag EXCEPT ![b] = "off"]  BY <1>2, <2>1, Zenon
    <3> QED BY <1>3, <3>1, SMT
  <2>2. CASE ~local
    <3>1. flag' = flag  BY <1>2, <2>2, Zenon
    <3> QED BY <2>2, <3>1, Zenon
  <2> QED BY <2>1, <2>2
<1>5. driver[b].pc \notin {"none", "saving"}
  <2>1. LateFine(b)  BY Zenon DEF LInv
  <2> QED BY <1>2, <2>1, Labels, Zenon DEF LateFine
<1>6. Reached(c.batch, c.local)'
  <2>1. c.batch = b /\ c.local = local  BY <1>1, Zenon
  <2> QED BY <1>2, <1>4, <1>5, <2>1, Zenon DEF Reached
<1>7. \A x \in cancels : Reached(x.batch, x.local)'
  BY <1>2, <1>4, CallsAre, StillReached, Zenon DEF LInv
<1>8. \A r \in reaps : Reached(r.batch, FALSE)'
  BY <1>2, <1>4, CallsAre, StillReached, Zenon DEF LInv
<1> QED BY <1>2, <1>4, <1>6, <1>7, <1>8, CallsLate, Zenon

\* The UPDATE of the cancel keeps the invariant: the count starts from zero.
LEMMA CancelCommitsLate ==
    ASSUME IInv, LInv, NEW c \in cancels, CancelCommits(c)
    PROVE  LInv'
<1>1. PICK b \in Batch : b = c.batch  BY CallsAre
<1>2. /\ cancels' \subseteq cancels /\ UNCHANGED <<driver, flag, sends, reaps>>
      /\ reaps' \subseteq reaps
  BY Zenon DEF CancelCommits, ram
<1>3. CASE UNCHANGED <<row, late>>
  <2>1. \A x \in cancels' : Reached(x.batch, x.local)'
    BY <1>2, Zenon DEF LInv, Reached
  <2>2. \A r \in reaps' : Reached(r.batch, FALSE)'  BY <1>2, Zenon DEF LInv, Reached
  <2> QED BY <1>2, <1>3, <2>1, <2>2, CallsLate, Zenon
<1>4. CASE /\ row[c.batch].status \in {"pending", "processing"}
           /\ row' = [row EXCEPT ![c.batch].status = "cancelled", ![c.batch].progress = c.progress]
           /\ late' = [late EXCEPT ![c.batch].by = IF c.local THEN "local" ELSE "peer"]
  <2>1. row \in [Batch -> Row] /\ row[b] \in Row /\ late \in [Batch -> Late] /\ late[b] \in Late /\ LateFine(b)
    BY Zenon DEF IInv, Types, LInv
  <2>2. row'[b].status = "cancelled" /\ \A e \in Batch \ {b} : row'[e] = row[e]
    <3>1. c.progress \in Progress /\ "cancelled" \in Status
      <4>1. c.progress \in Progress  BY Zenon DEF IInv, CallFine, Adds
      <4>2. "cancelled" \in Status  BY SMT DEF Status
      <4> QED BY <4>1, <4>2
    <3>2. PICK s : s = [row[b] EXCEPT !.status = "cancelled"]  OBVIOUS
    <3>3. s \in Row /\ s.status = "cancelled"  BY <2>1, <3>1, <3>2, Zenon DEF Row
    <3>4. PICK r : r = [s EXCEPT !.progress = c.progress]  OBVIOUS
    <3>5. r.status = "cancelled"  BY <3>1, <3>3, <3>4, Zenon DEF Row
    <3>6. row' = [row EXCEPT ![b] = r]  BY <1>1, <1>4, <3>2, <3>4
    <3> QED BY <2>1, <3>5, <3>6, Zenon
  <2>3. PICK by : by = IF c.local THEN "local" ELSE "peer"  OBVIOUS
  <2>4. by \in {"nobody", "local", "peer"} /\ (by = "local" => c.local)
    <3>1. "peer" # "local"  OBVIOUS
    <3> QED BY <2>3, <3>1, Zenon
  <2>5. PICK l : l = [late[b] EXCEPT !.by = by]  OBVIOUS
  <2>6. l \in Late /\ l.by = by /\ l.sends = late[b].sends  BY <2>1, <2>4, <2>5, Zenon DEF Late
  <2>7. late' = [late EXCEPT ![b] = l]  BY <1>1, <1>4, <2>3, <2>5
  <2>8. late' \in [Batch -> Late] /\ late'[b] = l /\ \A e \in Batch \ {b} : late'[e] = late[e]
    BY <2>1, <2>6, <2>7, Zenon
  <2>9. late[b].sends = 0  BY <1>1, <1>4, <2>1, Labels, Zenon DEF LateFine
  <2>10. Reached(b, c.local)  BY <1>1, Zenon DEF LInv
  <2>11. c.local => flag[b] # "on"
    <3>1. "off" # "on"  OBVIOUS
    <3>2. driver[b].pc \in Idle => flag[b] # "on"  BY Zenon DEF IInv, DriverFine
    <3> QED BY <2>10, <3>1, <3>2, Zenon DEF Reached
  <2>12. Alone(b)  BY <1>2, <2>2, <2>8, Zenon DEF Alone
  <2>13. driver[b].pc \in {"top", "gate", "sending"} => 0 <= Pos(driver[b].index)
    <3>1. driver[b].index \in 0..Items  BY Zenon DEF IInv, Types, Driver
    <3>2. driver[b].index \in Nat  BY <3>1, SMT
    <3> QED BY <3>2, PosRange, SMT
  <2>14. 0 <= 1 /\ 0 <= SaveEvery /\ 0 <= sends[b]
    <3>1. sends[b] \in 0..Items  BY Zenon DEF IInv, Types
    <3> QED BY <3>1, BulkAssumption, SMT DEF BulkAssumption
  <2>15. LateFine(b)'
    <3>1. driver'[b] = driver[b] /\ flag'[b] = flag[b] /\ sends'[b] = sends[b]  BY <1>2, Zenon
    <3>2. driver[b].pc \notin {"none", "saving"}  BY <2>10, Zenon DEF Reached
    <3>3. row'[b].status \notin {"absent", "pending", "processing"}  BY <2>2, Labels, Zenon
    <3>4. late'[b].sends = 0 /\ late'[b].by = by  BY <2>6, <2>8, <2>9, Zenon
    <3>5. driver[b].pc = "final" => driver[b].verdict \in Over  BY <2>1, Zenon DEF LateFine
    <3> QED BY <2>4, <2>11, <2>13, <2>14, <3>1, <3>2, <3>3, <3>4, <3>5, Zenon DEF LateFine, Pos
  <2> QED BY <1>2, <2>8, <2>12, <2>15, CallsAre, LateOne
<1> QED BY <1>3, <1>4, Zenon DEF CancelCommits

\* A reaper that saves what it read keeps the invariant.
LEMMA ReapLate ==
    ASSUME IInv, LInv, NEW r \in reaps, Reap(r)
    PROVE  LInv'
<1>1. PICK b \in Batch : b = r.batch  BY CallsAre
<1>2. PICK s : s = [status |-> "failed", progress |-> r.progress, index |-> r.index]  OBVIOUS
<1>3. /\ reaps' \subseteq reaps /\ row' = [row EXCEPT ![b] = s] /\ cancels' \subseteq cancels
      /\ UNCHANGED <<driver, flag, sends, late>>
  BY <1>1, <1>2, Zenon DEF Reap, ram, ghost
<1>4. row'[b] = s /\ \A e \in Batch \ {b} : row'[e] = row[e]
  BY <1>3, Zenon DEF IInv, Types
<1>5. s.status = "failed"  BY <1>2, Zenon
<1>6. Alone(b)  BY <1>3, <1>4, Zenon DEF Alone
<1>7. LateFine(b) /\ late' \in [Batch -> Late] /\ Reached(b, FALSE)  BY <1>1, <1>3, Zenon DEF LInv
<1>8. LateFine(b)'
  <2>1. driver'[b] = driver[b] /\ late'[b] = late[b] /\ sends'[b] = sends[b]  BY <1>3, Zenon
  <2>2. row'[b].status \notin {"absent", "pending", "processing", "cancelled"}
    BY <1>4, <1>5, Labels, Zenon
  <2>3. driver[b].pc \notin {"none", "saving"}  BY <1>7, Zenon DEF Reached
  <2> QED BY <1>7, <2>1, <2>2, <2>3, Zenon DEF LateFine
<1> QED BY <1>3, <1>6, <1>7, <1>8, CallsAre, LateOne

\* A reaper reads batches that have been saved.
LEMMA ReapReadLate ==
    ASSUME IInv, LInv, NEW local \in BOOLEAN, ReapRead(local)
    PROVE  \A r \in reaps' : Reached(r.batch, FALSE)
<1> SUFFICES ASSUME NEW r \in reaps'  PROVE Reached(r.batch, FALSE)
  OBVIOUS
<1>1. CASE r \in reaps  BY <1>1, Zenon DEF LInv
<1>2. CASE r \notin reaps
  <2>1. PICK b \in Batch : /\ row[b].status = "processing"
                           /\ r = [batch |-> b, local |-> local, progress |-> row[b].progress,
                                   index |-> row[b].index]
    BY <1>2, Zenon DEF ReapRead
  <2>2. r.batch = b  BY <2>1, Zenon
  <2>3. LateFine(b)  BY Zenon DEF LInv
  <2> QED BY <2>1, <2>2, <2>3, Labels, Zenon DEF LateFine, Reached
<1> QED BY <1>1, <1>2

\* The loss of the engine keeps the invariant.
LEMMA EngineStopsLate ==
    ASSUME IInv, LInv, EngineStops
    PROVE  LInv'
<1>1. /\ driver' = [b \in Batch |-> IF driver[b].pc \in Idle THEN driver[b]
                                    ELSE [driver[b] EXCEPT !.lost = TRUE]]
      /\ UNCHANGED <<row, flag, sends, late, cancels, reaps>>
  BY Zenon DEF EngineStops, calls, ghost
<1>2. ASSUME NEW b \in Batch
      PROVE  /\ driver'[b].pc = driver[b].pc /\ driver'[b].index = driver[b].index
             /\ driver'[b].verdict = driver[b].verdict
  <2>1. driver[b] \in Driver  BY Zenon DEF IInv, Types
  <2>2. CASE driver[b].pc \in Idle
    <3>1. driver'[b] = driver[b]  BY <1>1, <2>2, Zenon
    <3> QED BY <3>1, Zenon
  <2>3. CASE driver[b].pc \notin Idle
    <3>1. PICK d : d = [driver[b] EXCEPT !.lost = TRUE]  OBVIOUS
    <3>2. driver'[b] = d  BY <1>1, <2>3, <3>1, Zenon
    <3>3. TRUE \in BOOLEAN  OBVIOUS
    <3> QED BY <2>1, <3>1, <3>2, <3>3, Zenon DEF Driver
  <2> QED BY <2>2, <2>3
<1>3. \A c \in cancels' : Reached(c.batch, c.local)'
  BY <1>1, <1>2, CallsAre, StillReached, Zenon DEF LInv
<1>4. \A r \in reaps' : Reached(r.batch, FALSE)'
  BY <1>1, <1>2, CallsAre, StillReached, Zenon DEF LInv
<1> QED BY <1>1, <1>2, <1>3, <1>4, CallsLate, Zenon

\* The restart keeps the invariant.
LEMMA BootLate ==
    ASSUME IInv, LInv, Boot
    PROVE  LInv'
<1>1. UNCHANGED <<row, flag, sends, late, cancels>>  BY Zenon DEF Boot, ghost
<1>2. CASE /\ driver' = [b \in Batch |-> IF driver[b].pc = "crashed"
                                         THEN [driver[b] EXCEPT !.pc = "left"] ELSE driver[b]]
           /\ UNCHANGED reaps
  <2>1. ASSUME NEW b \in Batch
        PROVE  driver'[b] = driver[b] \/ (driver'[b].pc = "left" /\ driver[b].pc = "crashed")
    <3>1. CASE driver[b].pc # "crashed"  BY <1>2, <3>1, Zenon
    <3>2. CASE driver[b].pc = "crashed"
      <4>1. PICK d : d = [driver[b] EXCEPT !.pc = "left"]  OBVIOUS
      <4>2. driver'[b] = d  BY <1>2, <3>2, <4>1, Zenon
      <4>3. "left" \in PC  BY SMT DEF PC
      <4>4. driver[b] \in Driver  BY Zenon DEF IInv, Types
      <4> QED BY <3>2, <4>1, <4>2, <4>3, <4>4, Zenon DEF Driver
    <3> QED BY <3>1, <3>2
  <2>2. "crashed" # "left" /\ "crashed" # "none"  OBVIOUS
  <2>3. \A c \in cancels' : Reached(c.batch, c.local)'
    BY <1>1, <2>1, CallsAre, StillReached, Zenon DEF LInv
  <2>4. \A r \in reaps' : Reached(r.batch, FALSE)'
    BY <1>1, <1>2, <2>1, CallsAre, StillReached, Zenon DEF LInv
  <2> QED BY <1>1, <2>1, <2>2, <2>3, <2>4, CallsLate, Zenon
<1>3. CASE ReapRead(TRUE) /\ UNCHANGED driver
  <2>1. TRUE \in BOOLEAN  OBVIOUS
  <2>2. \A r \in reaps' : Reached(r.batch, FALSE)  BY <1>3, <2>1, ReapReadLate, Zenon
  <2>3. \A r \in reaps' : Reached(r.batch, FALSE)'  BY <1>1, <1>3, <2>2, Zenon DEF Reached
  <2>4. \A c \in cancels' : Reached(c.batch, c.local)'  BY <1>1, <1>3, Zenon DEF LInv, Reached
  <2> QED BY <1>1, <1>3, <2>3, <2>4, CallsLate, Zenon
<1> QED BY <1>2, <1>3, Zenon DEF Boot

\* A crash keeps the invariant.
LEMMA CrashLate ==
    ASSUME IInv, LInv, Crash
    PROVE  LInv'
<1>1. /\ driver' = [b \in Batch |-> IF driver[b].pc \in Idle THEN driver[b]
                                    ELSE [NoDriver EXCEPT !.pc = "crashed"]]
      /\ flag' = [b \in Batch |-> "none"] /\ cancels' \subseteq cancels /\ reaps' \subseteq reaps
      /\ UNCHANGED <<row, sends, late>>
  BY Zenon DEF Crash, ghost
<1>2. ASSUME NEW b \in Batch
      PROVE  /\ driver'[b] = driver[b] \/ (driver'[b].pc = "crashed" /\ driver[b].pc # "none")
             /\ driver'[b].pc \in Idle /\ flag'[b] = "none"
  <2>1. CASE driver[b].pc \in Idle
    <3>1. driver'[b] = driver[b]  BY <1>1, <2>1, Zenon
    <3> QED BY <1>1, <2>1, <3>1, Zenon
  <2>2. CASE driver[b].pc \notin Idle
    <3>1. PICK d : d = [NoDriver EXCEPT !.pc = "crashed"]  OBVIOUS
    <3>2. driver'[b] = d  BY <1>1, <2>2, <3>1, Zenon
    <3>3. "crashed" \in PC  BY SMT DEF PC
    <3>4. d.pc = "crashed"  BY <3>1, <3>3, NoDriverIs, Zenon DEF Driver
    <3> QED BY <1>1, <2>2, <3>2, <3>4, Labels, Zenon
  <2> QED BY <2>1, <2>2
<1>3. \A c \in cancels' : Reached(c.batch, c.local)'
  BY <1>1, <1>2, CallsAre, StillReached, Zenon DEF LInv
<1>4. \A r \in reaps' : Reached(r.batch, FALSE)'
  BY <1>1, <1>2, CallsAre, StillReached, Zenon DEF LInv
<1> QED BY <1>1, <1>2, <1>3, <1>4, CallsLate, Zenon

\* The removal of the session keeps the invariant.
LEMMA DeleteLate ==
    ASSUME IInv, LInv, DeleteSession
    PROVE  LInv'
<1>1. /\ row' = [b \in Batch |-> [row[b] EXCEPT !.status = "gone"]]
      /\ UNCHANGED <<driver, flag, sends, late, cancels, reaps>>
  BY Zenon DEF DeleteSession, ram, calls, ghost
<1>2. ASSUME NEW b \in Batch  PROVE row'[b].status = "gone"
  <2>1. PICK r : r = [row[b] EXCEPT !.status = "gone"]  OBVIOUS
  <2>2. row[b] \in Row  BY Zenon DEF IInv, Types
  <2>3. row'[b] = r  BY <1>1, <2>1, Zenon
  <2>4. "gone" \in Status  BY SMT DEF Status
  <2> QED BY <2>1, <2>2, <2>3, <2>4, Zenon DEF Row
<1>3. \A c \in cancels' : Reached(c.batch, c.local)'  BY <1>1, Zenon DEF LInv, Reached
<1>4. \A r \in reaps' : Reached(r.batch, FALSE)'  BY <1>1, Zenon DEF LInv, Reached
<1> QED BY <1>1, <1>2, <1>3, <1>4, CallsLate, Zenon

-----------------------------------------------------------------------------
\* The invariant holds at first.
LEMMA InitLate == Init => LInv
<1> SUFFICES ASSUME Init  PROVE LInv
  OBVIOUS
<1>1. PICK l : l = [by |-> "nobody", sends |-> 0]  OBVIOUS
<1>2. PICK r : r = [status |-> "absent", progress |-> Fresh, index |-> 0]  OBVIOUS
<1>3. /\ late = [b \in Batch |-> l] /\ row = [b \in Batch |-> r] /\ driver = [b \in Batch |-> NoDriver]
      /\ sends = [b \in Batch |-> 0] /\ cancels = {} /\ reaps = {}
  BY <1>1, <1>2, Zenon DEF Init
<1>4. 0 \in 0..Items /\ 0 <= 0 /\ 0 <= SaveEvery /\ 0 <= 1  BY BulkAssumption, SMT DEF BulkAssumption
<1>5. l \in Late /\ l.sends = 0 /\ r.status = "absent"  BY <1>1, <1>2, <1>4, Zenon DEF Late
<1>6. NoDriver.pc = "none" /\ "none" # "final"  BY Zenon DEF NoDriver
<1>7. ASSUME NEW b \in Batch  PROVE LateFine(b)
  <2>1. late[b] = l /\ row[b] = r /\ driver[b] = NoDriver /\ sends[b] = 0  BY <1>3, Zenon
  <2> QED BY <1>4, <1>5, <1>6, <2>1, Labels, Zenon DEF LateFine
<1> QED BY <1>3, <1>5, <1>7, Zenon DEF LInv

\* Every step keeps it.
LEMMA StepLate ==
    ASSUME IInv, IInv', LInv, [Next]_vars
    PROVE  LInv'
<1>1. ASSUME NEW b \in Batch, Drive(b)  PROVE LInv'
  BY <1>1, SavedLate, PickupLate, MarkProcessingLate, FailWithoutEngineLate, NextItemLate, GatedLate,
     SentLate, SendFailsLate, SaveProgressLate, RereadLate, FinalizeLate, Zenon DEF Drive
<1>2. ASSUME NEW b \in Batch, Create(b) \/ SaveFails(b) \/ Throws(b)  PROVE LInv'
  BY <1>2, CreateLate, SaveFailsLate, ThrowsLate, Zenon
<1>3. ASSUME NEW b \in Batch, NEW local \in BOOLEAN, Cancel(b, local)  PROVE LInv'
  BY <1>3, CancelLate, Zenon
<1>4. ASSUME NEW c \in cancels, CancelCommits(c)  PROVE LInv'
  BY <1>4, CancelCommitsLate, Zenon
<1>5. ASSUME NEW r \in reaps, Reap(r)  PROVE LInv'
  BY <1>5, ReapLate, Zenon
<1>6. ASSUME UNCHANGED <<row, driver, flag, sends, late>>, cancels' \subseteq cancels,
             \A r \in reaps' : Reached(r.batch, FALSE)
      PROVE  LInv'
  <2>1. \A c \in cancels' : Reached(c.batch, c.local)'  BY <1>6, Zenon DEF LInv, Reached
  <2>2. \A r \in reaps' : Reached(r.batch, FALSE)'  BY <1>6, Zenon DEF Reached
  <2> QED BY <1>6, <2>1, <2>2, CallsLate, Zenon
<1>7. ASSUME UNCHANGED <<row, driver, flag, sends, late, reaps>>, cancels' \subseteq cancels  PROVE LInv'
  BY <1>6, <1>7, Zenon DEF LInv
<1>8. ASSUME NEW c \in cancels, CancelFails(c)  PROVE LInv'
  <2>1. cancels' \subseteq cancels /\ UNCHANGED <<row, driver, flag, sends, late, reaps>>
    BY <1>8, Zenon DEF CancelFails, ram, ghost
  <2> QED BY <1>7, <2>1, Zenon
<1>9. CASE CoolDown  BY <1>7, <1>9, Zenon DEF CoolDown, calls, ghost
<1>10. CASE EngineStarts  BY <1>7, <1>10, Zenon DEF EngineStarts, ram, calls, ghost
<1>11. CASE PeerStarts  BY <1>7, <1>11, Zenon DEF PeerStarts, ram, calls, ghost
<1>12. CASE PeerStops  BY <1>7, <1>12, Zenon DEF PeerStops, ram, calls, ghost
<1>13. CASE Listen  BY <1>7, <1>13, Zenon DEF Listen, ram, calls, ghost
<1>14. CASE PeerAdopts
  <2>1. ReapRead(FALSE) /\ UNCHANGED <<row, driver, flag, sends, late, cancels>>
    BY <1>14, Zenon DEF PeerAdopts, ram, ghost
  <2>2. FALSE \in BOOLEAN  OBVIOUS
  <2>3. \A r \in reaps' : Reached(r.batch, FALSE)  BY <2>1, <2>2, ReapReadLate, Zenon
  <2> QED BY <1>6, <2>1, <2>3, Zenon
<1>15. CASE UNCHANGED vars  BY <1>7, <1>15, Zenon DEF vars
<1> QED BY <1>1, <1>2, <1>3, <1>4, <1>5, <1>8, <1>9, <1>10, <1>11, <1>12, <1>13, <1>14, <1>15,
           EngineStopsLate, DeleteLate, CrashLate, BootLate, Zenon DEF Next

\* The invariant holds of every behaviour.
THEOREM LateInvariance == Spec => []LInv
<1>1. Init => LInv  BY InitLate
<1>2. IInv /\ IInv' /\ LInv /\ [Next]_vars => LInv'  BY StepLate
<1> QED BY <1>1, <1>2, Invariance, PTL DEF Spec

\* cancelBatch(): once the cancel is committed at most the item in flight is sent, or at most
\* SaveEvery items when a peer committed it.
THEOREM CancelsStop == Spec => []CancelStops
<1>1. LInv => CancelStops
  <2> SUFFICES ASSUME LInv, NEW b \in Batch
               PROVE  (late[b].by = "local" => late[b].sends <= 1) /\ late[b].sends <= SaveEvery
    BY Zenon DEF CancelStops
  <2>1. LateFine(b)  BY Zenon DEF LInv
  <2> QED BY <2>1, Zenon DEF LateFine
<1> QED BY <1>1, LateInvariance, PTL

-----------------------------------------------------------------------------
\* The calls under way (TypeOK), and the types IInv and LInv do not give.
CancelCall == [batch : Batch, local : BOOLEAN, progress : Progress]
ReapCall == [batch : Batch, local : BOOLEAN, progress : Progress, index : 0..Items]

Rest == /\ breaker \in 0..Threshold
        /\ process \in {"down", "boot", "up"} /\ engine \in BOOLEAN /\ peer \in BOOLEAN
        /\ cancels \in SUBSET CancelCall /\ reaps \in SUBSET ReapCall
        /\ requests \in Nat /\ faults \in Nat

\* A request or a fault takes one from its bound.
LEMMA Spends ==
    ASSUME Rest, NEW x, Request(x) \/ Fault(x) \/ UNCHANGED bound
    PROVE  requests' \in Nat /\ faults' \in Nat
<1>1. requests \in Nat /\ faults \in Nat  BY Zenon DEF Rest
<1>2. CASE Request(x)  BY <1>1, <1>2, SMT DEF Request
<1>3. CASE Fault(x)  BY <1>1, <1>3, SMT DEF Fault
<1>4. CASE UNCHANGED bound  BY <1>1, <1>4, Zenon DEF bound
<1> QED BY <1>2, <1>3, <1>4

\* The bounds stay numbers.
LEMMA BoundsStay ==
    ASSUME Rest, [Next]_vars
    PROVE  requests' \in Nat /\ faults' \in Nat
<1>1. ASSUME NEW b \in Batch, Drive(b) \/ Create(b) \/ SaveFails(b) \/ Throws(b)
      PROVE  requests' \in Nat /\ faults' \in Nat
  BY <1>1, Spends, Zenon DEF Drive, Create, SaveFails, Throws, Saved, Pickup, MarkProcessing, FailWithoutEngine,
     NextItem, Gated, Sent, SendFails, SaveProgress, Reread, Finalize, bound
<1>2. ASSUME NEW b \in Batch, NEW local \in BOOLEAN, Cancel(b, local)
      PROVE  requests' \in Nat /\ faults' \in Nat
  BY <1>2, Spends, Zenon DEF Cancel
<1>3. ASSUME NEW c \in cancels, CancelCommits(c) \/ CancelFails(c)
      PROVE  requests' \in Nat /\ faults' \in Nat
  BY <1>3, Spends, Zenon DEF CancelCommits, CancelFails
<1>4. ASSUME NEW r \in reaps, Reap(r)  PROVE requests' \in Nat /\ faults' \in Nat
  BY <1>4, Spends, Zenon DEF Reap
<1>5. ASSUME CoolDown \/ EngineStops \/ EngineStarts \/ DeleteSession \/ PeerStarts \/ PeerAdopts
             \/ PeerStops \/ Crash \/ Boot \/ Listen
      PROVE  requests' \in Nat /\ faults' \in Nat
  BY <1>5, Spends, Zenon DEF CoolDown, EngineStops, EngineStarts, DeleteSession, PeerStarts, PeerAdopts,
     PeerStops, Crash, Boot, Listen
<1>6. CASE UNCHANGED vars  BY <1>6, Zenon DEF vars, Rest
<1> QED BY <1>1, <1>2, <1>3, <1>4, <1>5, <1>6, Zenon DEF Next

\* The process, the engine and the peer keep their types.
LEMMA SiteStays ==
    ASSUME Rest, [Next]_vars
    PROVE  process' \in {"down", "boot", "up"} /\ engine' \in BOOLEAN /\ peer' \in BOOLEAN
<1>1. process \in {"down", "boot", "up"} /\ engine \in BOOLEAN /\ peer \in BOOLEAN  BY Zenon DEF Rest
<1>2. ASSUME UNCHANGED site
      PROVE  process' \in {"down", "boot", "up"} /\ engine' \in BOOLEAN /\ peer' \in BOOLEAN
  BY <1>1, <1>2, Zenon DEF site
<1>3. ASSUME NEW b \in Batch, Drive(b) \/ Create(b) \/ SaveFails(b) \/ Throws(b)  PROVE UNCHANGED site
  BY <1>3, Zenon DEF Drive, Create, SaveFails, Throws, Saved, Pickup, MarkProcessing, FailWithoutEngine,
     NextItem, Gated, Sent, SendFails, SaveProgress, Reread, Finalize
<1>4. ASSUME NEW b \in Batch, NEW local \in BOOLEAN, Cancel(b, local)  PROVE UNCHANGED site
  BY <1>4, Zenon DEF Cancel
<1>5. ASSUME NEW c \in cancels, CancelCommits(c) \/ CancelFails(c)  PROVE UNCHANGED site
  BY <1>5, Zenon DEF CancelCommits, CancelFails
<1>6. ASSUME NEW r \in reaps, Reap(r)  PROVE UNCHANGED site
  BY <1>6, Zenon DEF Reap
<1>7. CASE CoolDown \/ DeleteSession \/ UNCHANGED vars
  BY <1>2, <1>7, Zenon DEF CoolDown, DeleteSession, vars, site
<1>8. CASE EngineStops \/ EngineStarts \/ PeerStarts \/ PeerAdopts \/ PeerStops \/ Crash \/ Boot \/ Listen
  <2>1. TRUE \in BOOLEAN /\ FALSE \in BOOLEAN  OBVIOUS
  <2> QED BY <1>1, <1>8, <2>1, Zenon DEF EngineStops, EngineStarts, PeerStarts, PeerAdopts, PeerStops,
             Crash, Boot, Listen
<1> QED BY <1>2, <1>3, <1>4, <1>5, <1>6, <1>7, <1>8, Zenon DEF Next

\* The breaker stays within its threshold.
LEMMA BreakerStays ==
    ASSUME Rest, [Next]_vars
    PROVE  breaker' \in 0..Threshold
<1>1. breaker \in 0..Threshold /\ Threshold \in Nat  BY BulkAssumption, Zenon DEF Rest, BulkAssumption
<1>2. ASSUME breaker' = breaker \/ breaker' = 0  PROVE breaker' \in 0..Threshold
  BY <1>1, <1>2, SMT
<1>3. ASSUME NEW b \in Batch, SendFails(b)  PROVE breaker' \in 0..Threshold
  <2>1. breaker' = breaker \/ breaker' = Threshold \/ (breaker # Threshold /\ breaker' = breaker + 1)
    BY <1>3, Zenon DEF SendFails
  <2> QED BY <1>1, <2>1, SMT
<1>4. ASSUME NEW b \in Batch, Drive(b) \/ Create(b) \/ SaveFails(b) \/ Throws(b), ~SendFails(b)
      PROVE  breaker' = breaker \/ breaker' = 0
  BY <1>4, Zenon DEF Drive, Create, SaveFails, Throws, Saved, Pickup, MarkProcessing, FailWithoutEngine,
     NextItem, Gated, Sent, SaveProgress, Reread, Finalize
<1>5. ASSUME NEW b \in Batch, NEW local \in BOOLEAN, Cancel(b, local)  PROVE breaker' = breaker
  BY <1>5, Zenon DEF Cancel
<1>6. ASSUME NEW c \in cancels, CancelCommits(c) \/ CancelFails(c)  PROVE breaker' = breaker
  BY <1>6, Zenon DEF CancelCommits, CancelFails, ram
<1>7. ASSUME NEW r \in reaps, Reap(r)  PROVE breaker' = breaker
  BY <1>7, Zenon DEF Reap, ram
<1>8. CASE CoolDown \/ Crash  BY <1>2, <1>8, Zenon DEF CoolDown, Crash
<1>9. CASE EngineStops \/ EngineStarts \/ DeleteSession \/ PeerStarts \/ PeerAdopts \/ PeerStops
           \/ Boot \/ Listen \/ UNCHANGED vars
  BY <1>2, <1>9, Zenon DEF EngineStops, EngineStarts, DeleteSession, PeerStarts, PeerAdopts,
     PeerStops, Boot, Listen, vars, ram
<1> QED BY <1>2, <1>3, <1>4, <1>5, <1>6, <1>7, <1>8, <1>9, Zenon DEF Next

\* The cancels under way keep their type.
LEMMA CancelsStay ==
    ASSUME IInv, Rest, [Next]_vars
    PROVE  cancels' \in SUBSET CancelCall
<1>1. cancels \subseteq CancelCall  BY Zenon DEF Rest
<1>2. ASSUME cancels' \subseteq cancels  PROVE cancels' \in SUBSET CancelCall
  BY <1>1, <1>2, Zenon
<1>3. ASSUME NEW b \in Batch, NEW local \in BOOLEAN, Cancel(b, local)
      PROVE  cancels' \in SUBSET CancelCall
  <2>1. row[b].status \in {"pending", "processing"}  BY <1>3, Zenon DEF Cancel
  <2>2. RowFine(b) /\ row[b].status \notin {"cancelled", "gone"}  BY <2>1, SMT DEF IInv
  <2>3. Cancelled(row[b].progress) \in Progress
    BY <2>2, CancelledAdds, Zenon DEF RowFine, Adds
  <2>4. PICK c : c = [batch |-> b, local |-> local, progress |-> Cancelled(row[b].progress)]  OBVIOUS
  <2>5. c \in CancelCall  BY <2>3, <2>4, Zenon DEF CancelCall
  <2>6. cancels' = cancels \cup {c}  BY <1>3, <2>4, Zenon DEF Cancel
  <2> QED BY <1>1, <2>5, <2>6, Zenon
<1>4. ASSUME NEW b \in Batch, Drive(b) \/ Create(b) \/ SaveFails(b) \/ Throws(b)  PROVE cancels' = cancels
  BY <1>4, Zenon DEF Drive, Create, SaveFails, Throws, Saved, Pickup, MarkProcessing, FailWithoutEngine,
     NextItem, Gated, Sent, SendFails, SaveProgress, Reread, Finalize, calls
<1>5. ASSUME NEW c \in cancels, CancelCommits(c) \/ CancelFails(c)  PROVE cancels' \subseteq cancels
  BY <1>5, Zenon DEF CancelCommits, CancelFails
<1>6. ASSUME NEW r \in reaps, Reap(r)  PROVE cancels' = cancels
  BY <1>6, Zenon DEF Reap
<1>7. CASE Crash  BY <1>2, <1>7, Zenon DEF Crash
<1>8. CASE CoolDown \/ EngineStops \/ EngineStarts \/ DeleteSession \/ PeerStarts \/ PeerAdopts
           \/ PeerStops \/ Boot \/ Listen \/ UNCHANGED vars
  BY <1>2, <1>8, Zenon DEF CoolDown, EngineStops, EngineStarts, DeleteSession, PeerStarts, PeerAdopts,
     PeerStops, Boot, Listen, vars, calls
<1> QED BY <1>2, <1>3, <1>4, <1>5, <1>6, <1>7, <1>8, Zenon DEF Next

\* What a reaper reads is a call.
LEMMA ReapReadTyped ==
    ASSUME IInv, Rest, NEW local \in BOOLEAN, ReapRead(local)
    PROVE  reaps' \in SUBSET ReapCall
<1> SUFFICES ASSUME NEW r \in reaps'  PROVE r \in ReapCall
  OBVIOUS
<1>1. CASE r \in reaps  BY <1>1, Zenon DEF Rest
<1>2. CASE r \notin reaps
  <2>1. PICK b \in Batch : r = [batch |-> b, local |-> local, progress |-> row[b].progress,
                                index |-> row[b].index]
    BY <1>2, Zenon DEF ReapRead
  <2>2. row[b].progress \in Progress /\ row[b].index \in 0..Items  BY Zenon DEF IInv, Types, Row
  <2> QED BY <2>1, <2>2, Zenon DEF ReapCall
<1> QED BY <1>1, <1>2

\* The reapers under way keep their type.
LEMMA ReapsStay ==
    ASSUME IInv, Rest, [Next]_vars
    PROVE  reaps' \in SUBSET ReapCall
<1>1. reaps \subseteq ReapCall  BY Zenon DEF Rest
<1>2. ASSUME reaps' \subseteq reaps  PROVE reaps' \in SUBSET ReapCall
  BY <1>1, <1>2, Zenon
<1>3. ASSUME NEW local \in BOOLEAN, ReapRead(local)  PROVE reaps' \in SUBSET ReapCall
  BY <1>3, ReapReadTyped
<1>4. ASSUME NEW b \in Batch, Drive(b) \/ Create(b) \/ SaveFails(b) \/ Throws(b)  PROVE reaps' = reaps
  BY <1>4, Zenon DEF Drive, Create, SaveFails, Throws, Saved, Pickup, MarkProcessing, FailWithoutEngine,
     NextItem, Gated, Sent, SendFails, SaveProgress, Reread, Finalize, calls
<1>5. ASSUME NEW b \in Batch, NEW local \in BOOLEAN, Cancel(b, local)  PROVE reaps' = reaps
  BY <1>5, Zenon DEF Cancel
<1>6. ASSUME NEW c \in cancels, CancelCommits(c) \/ CancelFails(c)  PROVE reaps' = reaps
  BY <1>6, Zenon DEF CancelCommits, CancelFails
<1>7. ASSUME NEW r \in reaps, Reap(r)  PROVE reaps' \subseteq reaps
  BY <1>7, Zenon DEF Reap
<1>8. CASE PeerAdopts
  <2>1. ReapRead(FALSE) /\ FALSE \in BOOLEAN  BY <1>8, Zenon DEF PeerAdopts
  <2> QED BY <1>3, <2>1, Zenon
<1>9. CASE Boot
  <2>1. ReapRead(TRUE) \/ reaps' = reaps  BY <1>9, Zenon DEF Boot
  <2>2. TRUE \in BOOLEAN  OBVIOUS
  <2> QED BY <1>2, <1>3, <2>1, <2>2, Zenon
<1>10. CASE Crash  BY <1>2, <1>10, Zenon DEF Crash
<1>11. CASE CoolDown \/ EngineStops \/ EngineStarts \/ DeleteSession \/ PeerStarts \/ PeerStops \/ Listen
            \/ UNCHANGED vars
  BY <1>2, <1>11, Zenon DEF CoolDown, EngineStops, EngineStarts, DeleteSession, PeerStarts,
     PeerStops, Listen, vars, calls
<1> QED BY <1>2, <1>4, <1>5, <1>6, <1>7, <1>8, <1>9, <1>10, <1>11, Zenon DEF Next

\* Every variable keeps its type: in particular no counter leaves 0..Items, whoever writes it.
THEOREM Typed == Spec => []TypeOK
<1>1. Init => Rest
  <2> SUFFICES ASSUME Init  PROVE Rest
    OBVIOUS
  <2>1. /\ breaker = 0 /\ process = "up" /\ engine = TRUE /\ peer = FALSE /\ cancels = {} /\ reaps = {}
        /\ requests = MaxRequests /\ faults = MaxFaults
    BY Zenon DEF Init
  <2>2. 0 \in 0..Threshold /\ MaxRequests \in Nat /\ MaxFaults \in Nat
    BY BulkAssumption, SMT DEF BulkAssumption
  <2>3. TRUE \in BOOLEAN /\ FALSE \in BOOLEAN  OBVIOUS
  <2> QED BY <2>1, <2>2, <2>3, Zenon DEF Rest
<1>2. IInv /\ Rest /\ [Next]_vars => Rest'
  BY BoundsStay, SiteStays, BreakerStays, CancelsStay, ReapsStay, Zenon DEF Rest
<1>3. Spec => []Rest  BY <1>1, <1>2, Invariance, PTL DEF Spec
<1>4. IInv /\ LInv /\ Rest => TypeOK
  <2> SUFFICES ASSUME IInv, LInv, Rest  PROVE TypeOK
    OBVIOUS
  <2>1. inFlight \in Nat  BY ActiveFinite, Zenon DEF IInv, Slots
  <2>2. Types /\ late \in [Batch -> Late]  BY Zenon DEF IInv, LInv
  <2> QED BY <2>1, <2>2, Zenon DEF TypeOK, Types, Rest, Row, Driver, Late, CancelCall, ReapCall
<1> QED BY <1>3, <1>4, Invariance, LateInvariance, PTL
==============================================================================
