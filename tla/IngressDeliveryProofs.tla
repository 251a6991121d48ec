------------------------ MODULE IngressDeliveryProofs ------------------------
(***************************************************************************)
(* Proofs about IngressDelivery, for any instances, deliveries, limits and *)
(* faults: an acknowledged delivery is handled or kept (Kept), and what is *)
(* settled stays so (StaysSettled).                                        *)
(*                                                                         *)
(* Kept says where a delivery is when its row was retired, and is not      *)
(* inductive: a letter is closed on the word of a job that was queued      *)
(* before, and that job may have ended since and left a letter of its own, *)
(* which another redrive closed. IInv orders them: what ended under the id *)
(* of letter n is handled, forsaken, queued again, or has an open letter   *)
(* numbered above n. A flow knows the same of the letter it replays from   *)
(* the moment it is accepted.                                              *)
(***************************************************************************)
EXTENDS IngressDelivery, FiniteSetTheorems, TLAPS

\* What rows, jobs and flows range over.
Row  == [state : State, attempts : Nat, older : SUBSET Event, cooling : BOOLEAN]
Job  == [state : {"waiting", "active", "lettered", "ended"}, event : Event, tries : Nat, stalls : Nat]
Item == [event : Event, attempts : Nat, letter : Nat]
Flow == [pc : PC \ {"idle", "next"}, work : Item, todo : SUBSET Item]
Left == [pc : {"next"}, todo : SUBSET Item]

RowTypes  == row \in [Event -> Row]
JobTypes  == job \in [JobId -> {NoJob} \cup Job]
FlowTypes == flow \in [Actor -> {Idle} \cup Left \cup Flow]

\* The dead letters of a delivery are numbered from 1, without gaps.
LetterTypes == /\ IsFiniteSet(letters) /\ letters \subseteq Letter /\ open \subseteq letters
               /\ \A e \in Event : \A l \in LettersOf(e) : l[2] \in 1..Cardinality(LettersOf(e))

Types == RowTypes /\ JobTypes /\ FlowTypes /\ LetterTypes

\* A job that a worker will try, or tries.
Tried(k) == job[k].state \in {"waiting", "active"}

\* A delivery that needs none of its letters up to n.
Covered(e, n) ==
    \/ e \in handled \cup forsaken
    \/ \E k \in JobId : Tried(k) /\ job[k].event = e
    \/ \E l \in open : l[1] = e /\ l[2] > n

\* The letter a job replays; none for the others.
Replayed(k) == IF k \in Letter THEN k[2] ELSE 0

\* The items a flow may work on: its own delivery, a row, or a letter there is.
Fits(a, w) == /\ a \in Event => w.event = a
              /\ a \notin Instance => w.letter = 0
              /\ a \in Instance => <<w.event, w.letter>> \in letters

\* The awaits of a flow whose replay was accepted, or whose delivery has a letter.
Sent == {"queued", "dispatched", "retire", "exhaust"}

\* What is so of each flow, each job and each row.
FlowFine(a) == /\ \A w \in Works(a) : Fits(a, w)
               /\ flow[a].pc \in Sent => Covered(Work(a).event, Work(a).letter)
JobFine(k)  == job[k].state # "none" =>
                  /\ Covered(job[k].event, Replayed(k))
                  /\ k \in Letter => k \in letters /\ k[1] = job[k].event
RowFine(e)  == row[e].state \in {"dispatched", "failed"} => Covered(e, 0)

\* The inductive invariant.
IInv == /\ Types
        /\ \A a \in Actor : FlowFine(a)
        /\ \A k \in JobId : JobFine(k)
        /\ \A e \in Event : RowFine(e)
        /\ \A l \in letters : Covered(l[1], 0)

\* Nothing that was covered is uncovered.
Steady == \A e \in Event : \A n \in Nat :
              Covered(e, n) /\ (n = 0 \/ <<e, n>> \in letters) => Covered(e, n)'

-----------------------------------------------------------------------------
\* A step that only adds - jobs to try, open letters, outcomes - uncovers nothing.
LEMMA Grows ==
    ASSUME handled \subseteq handled', forsaken \subseteq forsaken', open \subseteq open',
           \A k \in JobId : Tried(k) => Tried(k)' /\ job'[k].event = job[k].event
    PROVE  Steady
<1> SUFFICES ASSUME NEW e \in Event, NEW n \in Nat, Covered(e, n)  PROVE Covered(e, n)'
  BY Zenon DEF Steady
<1>1. CASE e \in handled \cup forsaken  BY <1>1, Zenon DEF Covered
<1>2. CASE \E k \in JobId : Tried(k) /\ job[k].event = e  BY <1>2, Zenon DEF Covered
<1>3. CASE \E l \in open : l[1] = e /\ l[2] > n  BY <1>3, Zenon DEF Covered
<1> QED BY <1>1, <1>2, <1>3, Zenon DEF Covered

\* What is known of a flow at work.
LEMMA AtWork ==
    ASSUME Types, NEW a \in Actor, flow[a].pc \notin {"idle", "next"}
    PROVE  /\ flow[a] \in Flow /\ Work(a) \in Item /\ Work(a).event \in Event /\ Work(a).letter \in Nat
           /\ Work(a) \in Works(a) /\ flow[a].todo \subseteq Works(a) /\ flow[a].todo \subseteq Item
<1>1. flow[a] \in {Idle} \cup Left \cup Flow  BY Zenon DEF Types, FlowTypes
<1>2. Idle.pc = "idle"  BY Zenon DEF Idle
<1>3. flow[a] \in Flow
  <2>1. ASSUME flow[a] \in Left  PROVE flow[a].pc = "next"  BY <2>1, Zenon DEF Left
  <2> QED BY <1>1, <1>2, <2>1, Zenon
<1>4. Work(a) \in Item /\ flow[a].todo \subseteq Item  BY <1>3, Zenon DEF Flow, Work
<1>5. flow[a] # Idle  BY <1>2, Zenon
<1>6. Works(a) = {Work(a)} \cup flow[a].todo  BY <1>5, Zenon DEF Works
<1>7. Work(a).event \in Event /\ Work(a).letter \in Nat  BY <1>4, Zenon DEF Item
<1> QED BY <1>3, <1>4, <1>6, <1>7, Zenon

\* What a flow works on is an item that fits it.
LEMMA WorkFits ==
    ASSUME IInv, NEW a \in Actor, flow[a].pc \notin {"idle", "next"}
    PROVE  /\ a \in Event => Work(a).event = a
           /\ a \notin Instance => Work(a).letter = 0
           /\ a \in Instance => <<Work(a).event, Work(a).letter>> \in letters
           /\ Work(a).letter = 0 \/ <<Work(a).event, Work(a).letter>> \in letters
<1>1. Work(a) \in Works(a)  BY AtWork, Zenon DEF IInv
<1> QED BY <1>1, Zenon DEF IInv, FlowFine, Fits

\* A step of flow a alone, that takes up nothing new.
Narrows(a) == /\ FlowTypes' /\ Works(a)' \subseteq Works(a)
              /\ \A b \in Actor \ {a} : flow'[b] = flow[b]

\* To the next await.
LEMMA GotoNarrows ==
    ASSUME Types, NEW a \in Actor, flow[a].pc \notin {"idle", "next"},
           NEW pc \in PC \ {"idle", "next"}, Goto(a, pc)
    PROVE  Narrows(a) /\ flow'[a].pc = pc /\ Work(a)' = Work(a)
<1>1. flow[a] \in Flow  BY AtWork, Zenon
<1>2. PICK f : f = [flow[a] EXCEPT !.pc = pc]  OBVIOUS
<1>3. f \in Flow /\ f.pc = pc  BY <1>1, <1>2, Zenon DEF Flow
<1>4. f.work = flow[a].work /\ f.todo = flow[a].todo  BY <1>1, <1>2, Zenon DEF Flow
<1>5. flow' = [flow EXCEPT ![a] = f]  BY <1>2, Zenon DEF Goto
<1>6. flow \in [Actor -> {Idle} \cup Left \cup Flow]  BY Zenon DEF Types, FlowTypes
<1>7. flow'[a] = f /\ FlowTypes' /\ \A b \in Actor \ {a} : flow'[b] = flow[b]
  BY <1>3, <1>5, <1>6, Zenon DEF FlowTypes
<1>8. pc # "idle" /\ pc # "next"  BY Zenon
<1>9. Idle.pc = "idle"  BY Zenon DEF Idle
<1>10. f # Idle /\ flow[a] # Idle  BY <1>3, <1>8, <1>9, Zenon
<1>11. Works(a)' = Works(a)  BY <1>3, <1>4, <1>7, <1>8, <1>10, Zenon DEF Works, Work
<1> QED BY <1>3, <1>4, <1>7, <1>11, Zenon DEF Narrows, Work

\* To the rest of the batch, or to the end.
LEMMA Rests ==
    ASSUME Types, NEW a \in Actor, NEW rest \in SUBSET Item, Rest(a, rest)
    PROVE  /\ FlowTypes' /\ Works(a)' = rest /\ flow'[a].pc \in {"idle", "next"}
           /\ \A b \in Actor \ {a} : flow'[b] = flow[b]
<1>1. PICK f : f = IF rest = {} THEN Idle ELSE [pc |-> "next", todo |-> rest]  OBVIOUS
<1>2. Idle.pc = "idle" /\ "idle" # "next"  BY Zenon DEF Idle
<1>3. flow' = [flow EXCEPT ![a] = f]  BY <1>1, Zenon DEF Rest
<1>4. f \in {Idle} \cup Left  BY <1>1, Zenon DEF Left
<1>5. flow \in [Actor -> {Idle} \cup Left \cup Flow]  BY Zenon DEF Types, FlowTypes
<1>6. flow'[a] = f /\ FlowTypes' /\ \A b \in Actor \ {a} : flow'[b] = flow[b]
  BY <1>3, <1>4, <1>5, Zenon DEF FlowTypes
<1>7. CASE rest = {}
  <2>1. f = Idle  BY <1>1, <1>7, Zenon
  <2>2. Works(a)' = {} /\ flow'[a].pc = "idle"  BY <1>2, <1>6, <2>1, Zenon DEF Works
  <2> QED BY <1>6, <1>7, <2>2, Zenon
<1>8. CASE rest # {}
  <2>1. f = [pc |-> "next", todo |-> rest]  BY <1>1, <1>8, Zenon
  <2>2. f.pc = "next" /\ f.todo = rest  BY <2>1, Zenon
  <2>3. f # Idle  BY <1>2, <2>2, Zenon
  <2>4. Works(a)' = rest  BY <1>6, <2>2, <2>3, Zenon DEF Works
  <2> QED BY <1>6, <2>2, <2>4, Zenon
<1> QED BY <1>7, <1>8

\* To the next row of its batch, or to its end.
LEMMA LeaveNarrows ==
    ASSUME Types, NEW a \in Actor, flow[a].pc \notin {"idle", "next"}, Leave(a)
    PROVE  Narrows(a) /\ flow'[a].pc \in {"idle", "next"}
<1>1. flow[a].todo \in SUBSET Item /\ flow[a].todo \subseteq Works(a)  BY AtWork, Zenon
<1>2. Rest(a, flow[a].todo)  BY Zenon DEF Leave
<1> QED BY <1>1, <1>2, Rests, Zenon DEF Narrows

\* To the queue.
LEMMA Begins ==
    ASSUME Types, NEW a \in Actor, NEW w \in Item, NEW rest \in SUBSET Item, Begin(a, w, rest)
    PROVE  /\ FlowTypes' /\ Works(a)' = {w} \cup rest /\ flow'[a].pc = "add"
           /\ \A b \in Actor \ {a} : flow'[b] = flow[b]
<1>1. PICK f : f = [pc |-> "add", work |-> w, todo |-> rest]  OBVIOUS
<1>2. "add" \in PC \ {"idle", "next"}  BY SMT DEF PC
<1>3. f \in Flow /\ f.pc = "add" /\ f.work = w /\ f.todo = rest  BY <1>1, <1>2, Zenon DEF Flow
<1>4. Idle.pc = "idle" /\ "idle" # "add" /\ "add" # "next"  BY Zenon DEF Idle
<1>5. flow' = [flow EXCEPT ![a] = f]  BY <1>1, Zenon DEF Begin
<1>6. flow \in [Actor -> {Idle} \cup Left \cup Flow]  BY Zenon DEF Types, FlowTypes
<1>7. flow'[a] = f /\ FlowTypes' /\ \A b \in Actor \ {a} : flow'[b] = flow[b]
  BY <1>3, <1>5, <1>6, Zenon DEF FlowTypes
<1>8. f # Idle  BY <1>3, <1>4, Zenon
<1>9. Works(a)' = {w} \cup rest  BY <1>3, <1>4, <1>7, <1>8, Zenon DEF Works, Work
<1> QED BY <1>3, <1>7, <1>9, Zenon

-----------------------------------------------------------------------------
\* What a step leaves of the invariant elsewhere.

\* Letters only get more.
Frame == IInv /\ Steady /\ letters \subseteq letters'

\* A flow that did not move is as fine as it was.
LEMMA FlowsKept ==
    ASSUME Frame, NEW a \in Actor, flow'[a] = flow[a]
    PROVE  FlowFine(a)'
<1>1. Types /\ FlowFine(a)  BY Zenon DEF Frame, IInv
<1>2. Works(a)' = Works(a) /\ Work(a)' = Work(a)  BY Zenon DEF Works, Work
<1>3. \A w \in Works(a)' : Fits(a, w)'  BY <1>1, <1>2, Zenon DEF FlowFine, Fits, Frame
<1>4. ASSUME flow[a].pc \in Sent  PROVE Covered(Work(a).event, Work(a).letter)'
  <2>1. flow[a].pc \notin {"idle", "next"}  BY <1>4, SMT DEF Sent
  <2>2. Work(a).event \in Event /\ Work(a).letter \in Nat  BY <1>1, <2>1, AtWork, Zenon
  <2>3. Work(a).letter = 0 \/ <<Work(a).event, Work(a).letter>> \in letters
    BY <2>1, WorkFits, Zenon DEF Frame
  <2>4. Covered(Work(a).event, Work(a).letter)  BY <1>1, <1>4, Zenon DEF FlowFine
  <2> QED BY <1>2, <2>2, <2>3, <2>4, Zenon DEF Frame, Steady
<1> QED BY <1>2, <1>3, <1>4, Zenon DEF FlowFine

\* A flow that takes up nothing new is fine if what it reports as sent is covered.
LEMMA FlowNarrowed ==
    ASSUME Frame, NEW a \in Actor, Narrows(a),
           flow'[a].pc \in Sent => Covered(Work(a).event, Work(a).letter)'
    PROVE  \A b \in Actor : FlowFine(b)'
<1>1. \A w \in Works(a)' : Fits(a, w)'  BY Zenon DEF Narrows, Frame, IInv, FlowFine, Fits
<1>2. FlowFine(a)'  BY <1>1, Zenon DEF FlowFine
<1>3. \A b \in Actor \ {a} : FlowFine(b)'  BY FlowsKept, Zenon DEF Narrows
<1> QED BY <1>2, <1>3, Zenon

\* A job that is of the same delivery, or is gone, is as fine as it was.
LEMMA JobKept ==
    ASSUME Frame, NEW k \in JobId,
           job'[k].state # "none" => job[k].state # "none" /\ job'[k].event = job[k].event
    PROVE  JobFine(k)'
<1> SUFFICES ASSUME job[k].state # "none", job'[k].event = job[k].event
             PROVE  /\ Covered(job[k].event, Replayed(k))'
                    /\ k \in Letter => k \in letters' /\ k[1] = job[k].event
  BY Zenon DEF JobFine, Replayed
<1>1. JobFine(k) /\ job[k] \in {NoJob} \cup Job  BY Zenon DEF Frame, IInv, Types, JobTypes
<1>2. job[k].event \in Event
  <2>1. NoJob.state = "none"  BY Zenon DEF NoJob
  <2> QED BY <1>1, <2>1, Zenon DEF Job
<1>3. Covered(job[k].event, Replayed(k)) /\ (k \in Letter => k \in letters /\ k[1] = job[k].event)
  BY <1>1, Zenon DEF JobFine
<1>4. PICK e, n : e = job[k].event /\ n = Replayed(k)  OBVIOUS
<1>5. n \in Nat /\ (n = 0 \/ <<e, n>> \in letters)
  <2>1. CASE k \in Letter
    <3>1. k = <<k[1], k[2]>> /\ k[2] \in Nat  BY <2>1, SMT DEF Letter
    <3> QED BY <1>3, <1>4, <2>1, <3>1, Zenon DEF Replayed
  <2>2. CASE k \notin Letter
    <3>1. 0 \in Nat  OBVIOUS
    <3> QED BY <1>4, <2>2, <3>1, Zenon DEF Replayed
  <2> QED BY <2>1, <2>2
<1>6. Covered(e, n)'  BY <1>2, <1>3, <1>4, <1>5, Zenon DEF Frame, Steady
<1>7. job'[k].event = e /\ Replayed(k)' = n  BY <1>4, Zenon DEF Replayed
<1> QED BY <1>3, <1>6, <1>7, Zenon DEF Frame

\* So is a row that was not written.
LEMMA RowKept ==
    ASSUME Frame, NEW e \in Event, row'[e] = row[e]
    PROVE  RowFine(e)'
<1>1. 0 \in Nat  OBVIOUS
<1> QED BY <1>1, Zenon DEF Frame, IInv, RowFine, Steady

\* So is a letter.
LEMMA LettersKept ==
    ASSUME Frame, NEW l \in letters
    PROVE  Covered(l[1], 0)'
<1>1. l[1] \in Event  BY SMT DEF Frame, IInv, Types, LetterTypes, Letter
<1>2. 0 \in Nat  OBVIOUS
<1> QED BY <1>1, <1>2, Zenon DEF Frame, IInv, Steady

\* The parts of the invariant, put together after a step.
LEMMA Assemble ==
    ASSUME Frame, Types', \A l \in letters' \ letters : Covered(l[1], 0)',
           \A a \in Actor : FlowFine(a)', \A k \in JobId : JobFine(k)', \A e \in Event : RowFine(e)'
    PROVE  IInv'
<1>1. \A l \in letters' : Covered(l[1], 0)'  BY LettersKept, Zenon
<1> QED BY <1>1, Zenon DEF IInv

\* Nothing but flow a moved.
LEMMA OneFlow ==
    ASSUME IInv, NEW a \in Actor, Narrows(a),
           handled \subseteq handled', forsaken \subseteq forsaken', UNCHANGED <<row, letters, open, job>>,
           flow'[a].pc \in Sent => Covered(Work(a).event, Work(a).letter)'
    PROVE  IInv'
<1>1. Frame
  <2>1. Steady  BY Grows, Zenon DEF Tried
  <2> QED BY <2>1, Zenon DEF Frame
<1>2. \A b \in Actor : FlowFine(b)'  BY <1>1, FlowNarrowed, Zenon
<1>3. \A k \in JobId : JobFine(k)'  BY <1>1, JobKept, Zenon
<1>4. \A e \in Event : RowFine(e)'  BY <1>1, RowKept, Zenon
<1>5. Types'
  BY Zenon DEF Narrows, IInv, Types, RowTypes, JobTypes, LetterTypes, LettersOf
<1> QED BY <1>1, <1>2, <1>3, <1>4, <1>5, Assemble, Zenon

\* Flow a wrote the row of its delivery, which is covered or stays pending.
LEMMA OneRow ==
    ASSUME IInv, NEW a \in Actor, Narrows(a), UNCHANGED <<letters, open, job, handled, forsaken>>,
           flow'[a].pc \in Sent => Covered(Work(a).event, Work(a).letter)',
           NEW e \in Event, NEW r \in Row, row' = [row EXCEPT ![e] = r],
           r.state \in {"dispatched", "failed"} => Covered(e, 0)
    PROVE  IInv'
<1>0. 0 \in Nat  OBVIOUS
<1>1. Frame
  <2>1. Steady  BY Grows, Zenon DEF Tried
  <2> QED BY <2>1, Zenon DEF Frame
<1>2. \A b \in Actor : FlowFine(b)'  BY <1>1, FlowNarrowed, Zenon
<1>3. \A k \in JobId : JobFine(k)'  BY <1>1, JobKept, Zenon
<1>4. row \in [Event -> Row]  BY Zenon DEF IInv, Types, RowTypes
<1>5. RowTypes' /\ row'[e] = r /\ \A x \in Event \ {e} : row'[x] = row[x]  BY <1>4, Zenon DEF RowTypes
<1>6. RowFine(e)'  BY <1>0, <1>1, <1>5, Zenon DEF RowFine, Frame, Steady
<1>7. \A x \in Event : RowFine(x)'  BY <1>1, <1>5, <1>6, RowKept, Zenon
<1>8. Types'
  BY <1>5, Zenon DEF Narrows, IInv, Types, JobTypes, LetterTypes, LettersOf
<1> QED BY <1>1, <1>2, <1>3, <1>7, <1>8, Assemble, Zenon

-----------------------------------------------------------------------------
\* Jobs.

\* The id a flow gives its job.
LEMMA Keys ==
    ASSUME IInv, NEW a \in Actor, flow[a].pc \notin {"idle", "next"}
    PROVE  /\ KeyOf(a) \in JobId /\ Replayed(KeyOf(a)) = Work(a).letter
           /\ KeyOf(a) \in Letter => KeyOf(a) \in letters /\ KeyOf(a)[1] = Work(a).event
<1>1. Work(a).event \in Event /\ Work(a).letter \in Nat  BY AtWork, Zenon DEF IInv
<1>2. CASE a \in Instance
  <2>1. KeyOf(a) = <<Work(a).event, Work(a).letter>>  BY <1>2, Zenon DEF KeyOf
  <2>2. KeyOf(a) \in letters  BY <1>2, <2>1, WorkFits, Zenon
  <2>3. KeyOf(a) \in Letter  BY <2>2, Zenon DEF IInv, Types, LetterTypes
  <2>4. KeyOf(a)[1] = Work(a).event /\ KeyOf(a)[2] = Work(a).letter  BY <2>1
  <2> QED BY <2>2, <2>3, <2>4, Zenon DEF Replayed, JobId
<1>3. CASE a \notin Instance
  <2>1. KeyOf(a) = Work(a).event[2]  BY <1>3, Zenon DEF KeyOf
  <2>2. KeyOf(a) \in Delivery  BY <1>1, <2>1, SMT DEF Event
  <2>3. KeyOf(a) \notin Letter  BY <2>2, IngressAssumption, Zenon DEF IngressAssumption
  <2>4. Work(a).letter = 0  BY <1>3, WorkFits, Zenon
  <2> QED BY <2>2, <2>3, <2>4, Zenon DEF Replayed, JobId
<1> QED BY <1>2, <1>3

\* Queue.add(), taken or ignored: what the flow reports as queued is covered.
LEMMA PutKeeps ==
    ASSUME IInv, NEW a \in Actor, flow[a].pc \notin {"idle", "next"}, Put(a), UNCHANGED <<letters, open>>
    PROVE  /\ Frame /\ JobTypes' /\ \A k \in JobId : JobFine(k)'
           /\ \A e, n : e = Work(a).event /\ n = Work(a).letter => Covered(e, n)'
<1>1. PICK k, e, n : k = KeyOf(a) /\ e = Work(a).event /\ n = Work(a).letter  OBVIOUS
<1>2. /\ k \in JobId /\ Replayed(k) = n /\ (k \in Letter => k \in letters /\ k[1] = e)
  BY <1>1, Keys, Zenon
<1>3. e \in Event /\ n \in Nat /\ (n = 0 \/ <<e, n>> \in letters)
  BY <1>1, AtWork, WorkFits, Zenon DEF IInv
<1>4. job \in [JobId -> {NoJob} \cup Job]  BY Zenon DEF IInv, Types, JobTypes
<1>5. CASE /\ job[k].state \in {"none", "ended"} /\ UNCHANGED ghost
           /\ job' = [job EXCEPT ![k] = [state |-> "waiting", event |-> e, tries |-> 0, stalls |-> 0]]
  <2>1. PICK j : j = [state |-> "waiting", event |-> e, tries |-> 0, stalls |-> 0]  OBVIOUS
  <2>2. 0 \in Nat /\ "waiting" \in {"waiting", "active", "lettered", "ended"}  OBVIOUS
  <2>3. j \in Job /\ j.state = "waiting" /\ j.event = e  BY <1>3, <2>1, <2>2, Zenon DEF Job
  <2>4. JobTypes' /\ job'[k] = j /\ \A i \in JobId \ {k} : job'[i] = job[i]
    BY <1>2, <1>4, <1>5, <2>1, <2>3, Zenon DEF JobTypes
  <2>5. job[k].state \notin {"waiting", "active"}  BY <1>5
  <2>6. \A i \in JobId : Tried(i) => Tried(i)' /\ job'[i].event = job[i].event
    BY <2>4, <2>5, Zenon DEF Tried
  <2>7. Frame
    <3>1. handled' = handled /\ forsaken' = forsaken  BY <1>5, Zenon DEF ghost
    <3>2. Steady  BY <2>6, <3>1, Grows, Zenon
    <3> QED BY <3>2, Zenon DEF Frame
  <2>8. Tried(k)' /\ job'[k].event = e
    <3>1. "waiting" \in {"waiting", "active"}  OBVIOUS
    <3> QED BY <2>3, <2>4, <3>1, Zenon DEF Tried
  <2>9. \A m : Covered(e, m)'  BY <1>2, <2>8, Zenon DEF Covered
  <2>10. JobFine(k)'  BY <1>2, <2>8, <2>9, Zenon DEF JobFine, Replayed
  <2>11. \A i \in JobId \ {k} : JobFine(i)'  BY <2>4, <2>7, JobKept, Zenon
  <2> QED BY <1>1, <2>4, <2>7, <2>9, <2>10, <2>11, Zenon
<1>6. CASE /\ job[k].state # "none" /\ UNCHANGED <<job, handled>>
           /\ forsaken' = IF job[k].event # e THEN forsaken \cup {e} ELSE forsaken
  <2>1. Frame
    <3>1. forsaken \subseteq forsaken'  BY <1>6, Zenon
    <3>2. Steady  BY <1>6, <3>1, Grows, Zenon DEF Tried
    <3> QED BY <3>2, Zenon DEF Frame
  <2>2. JobTypes' /\ \A i \in JobId : JobFine(i)'
    BY <1>6, <2>1, JobKept, Zenon DEF IInv, Types, JobTypes
  <2>3. Covered(e, n)'
    <3>1. CASE job[k].event # e  BY <1>6, <3>1, Zenon DEF Covered
    <3>2. CASE job[k].event = e
      <4>1. Covered(e, n)  BY <1>2, <1>6, <3>2, Zenon DEF IInv, JobFine
      <4> QED BY <1>3, <2>1, <4>1, Zenon DEF Frame, Steady
    <3> QED BY <3>1, <3>2
  <2> QED BY <1>1, <2>1, <2>2, <2>3, Zenon
<1> QED BY <1>1, <1>5, <1>6, Zenon DEF Put

\* Jobs that go on, are handled, or were given up.
LEMMA JobsMove ==
    ASSUME IInv, JobTypes', handled \subseteq handled', forsaken \subseteq forsaken',
           UNCHANGED <<row, letters, open, flow>>,
           \A k \in JobId : job'[k].state # "none" => job[k].state # "none" /\ job'[k].event = job[k].event,
           \A k \in JobId : Tried(k) => (Tried(k)' /\ job'[k].event = job[k].event)
                                        \/ job[k].event \in handled' \cup forsaken'
    PROVE  IInv'
<1>1. ASSUME NEW e \in Event, NEW n \in Nat, Covered(e, n)  PROVE Covered(e, n)'
  <2>1. CASE e \in handled \cup forsaken  BY <2>1, Zenon DEF Covered
  <2>2. CASE \E l \in open : l[1] = e /\ l[2] > n  BY <2>2, Zenon DEF Covered
  <2>3. CASE \E k \in JobId : Tried(k) /\ job[k].event = e  BY <2>3, Zenon DEF Covered
  <2> QED BY <1>1, <2>1, <2>2, <2>3, Zenon DEF Covered
<1>2. Frame  BY <1>1, Zenon DEF Frame, Steady
<1>3. \A k \in JobId : JobFine(k)'  BY <1>2, JobKept, Zenon
<1>4. (\A a \in Actor : FlowFine(a)') /\ \A e \in Event : RowFine(e)'
  BY <1>2, FlowsKept, RowKept, Zenon
<1>5. Types'  BY Zenon DEF IInv, Types, RowTypes, FlowTypes, LetterTypes, LettersOf
<1> QED BY <1>2, <1>3, <1>4, <1>5, Assemble, Zenon

\* One such job.
LEMMA OneJob ==
    ASSUME IInv, NEW k \in JobId, NEW j \in Job, job[k].state # "none", j.event = job[k].event,
           job' = [job EXCEPT ![k] = j],
           handled \subseteq handled', forsaken \subseteq forsaken', UNCHANGED <<row, letters, open, flow>>,
           Tried(k) => j.state \in {"waiting", "active"} \/ j.event \in handled' \cup forsaken'
    PROVE  IInv'
<1>1. job \in [JobId -> {NoJob} \cup Job]  BY Zenon DEF IInv, Types, JobTypes
<1>2. JobTypes' /\ job'[k] = j /\ \A i \in JobId \ {k} : job'[i] = job[i]
  BY <1>1, Zenon DEF JobTypes
<1>3. \A i \in JobId : job'[i].state # "none" => job[i].state # "none" /\ job'[i].event = job[i].event
  BY <1>2, Zenon
<1>4. \A i \in JobId : Tried(i) => (Tried(i)' /\ job'[i].event = job[i].event)
                                    \/ job[i].event \in handled' \cup forsaken'
  BY <1>2, Zenon DEF Tried
<1> QED BY <1>2, <1>3, <1>4, JobsMove, Zenon

-----------------------------------------------------------------------------
\* Letters.

\* A new letter is numbered above the others of its delivery.
LEMMA Saves ==
    ASSUME Types, NEW e \in Event, Save(e)
    PROVE  /\ LetterTypes' /\ letters \subseteq letters' /\ open \subseteq open'
           /\ \A l \in letters' \ letters : l[1] = e
           /\ \A n \in Nat : n = 0 \/ <<e, n>> \in letters => \E l \in open' : l[1] = e /\ l[2] > n
<1>1. PICK c : c = Cardinality(LettersOf(e))  OBVIOUS
<1>2. PICK l : l = NewLetter(e)  OBVIOUS
<1>3. IsFiniteSet(LettersOf(e)) /\ c \in Nat
  <2>1. LettersOf(e) \subseteq letters /\ IsFiniteSet(letters)
    BY Zenon DEF LettersOf, Types, LetterTypes
  <2> QED BY <1>1, <2>1, FS_Subset, FS_CardinalityType, Zenon
<1>4. l = <<e, c + 1>> /\ l[1] = e /\ l[2] = c + 1  BY <1>1, <1>2, Zenon DEF NewLetter
<1>5. c < MaxLetters /\ letters' = letters \cup {l} /\ open' = open \cup {l}
  BY <1>1, <1>2, Zenon DEF Save
<1>6. c + 1 \in 1..MaxLetters
  BY <1>3, <1>5, IngressAssumption, SMT DEF IngressAssumption
<1>7. l \in Letter  BY <1>4, <1>6, Zenon DEF Letter
<1>8. l \notin LettersOf(e)
  <2>1. c + 1 \notin 1..c  BY <1>3, SMT
  <2> QED BY <1>1, <1>4, <2>1, Zenon DEF Types, LetterTypes
<1>9. LettersOf(e)' = LettersOf(e) \cup {l} /\ \A x \in Event \ {e} : LettersOf(x)' = LettersOf(x)
  BY <1>4, <1>5, Zenon DEF LettersOf
<1>10. Cardinality(LettersOf(e)') = c + 1
  BY <1>1, <1>3, <1>8, <1>9, FS_AddElement, Zenon
<1>11. \A x \in Event : \A m \in LettersOf(x)' : m[2] \in 1..Cardinality(LettersOf(x)')
  <2>1. ASSUME NEW m \in LettersOf(e)'  PROVE m[2] \in 1..Cardinality(LettersOf(e)')
    <3>1. m = l \/ m[2] \in 1..c  BY <1>1, <1>9, Zenon DEF Types, LetterTypes
    <3> QED BY <1>3, <1>4, <1>10, <3>1, SMT
  <2> QED BY <1>9, <2>1, Zenon DEF Types, LetterTypes
<1>12. LetterTypes'
  <2>1. IsFiniteSet(letters')  BY <1>5, FS_AddElement, Zenon DEF Types, LetterTypes
  <2> QED BY <1>5, <1>7, <1>11, <2>1, Zenon DEF Types, LetterTypes
<1>13. ASSUME NEW n \in Nat, n = 0 \/ <<e, n>> \in letters  PROVE l[2] > n
  <2>1. CASE n = 0  BY <1>3, <1>4, <2>1, SMT
  <2>2. CASE <<e, n>> \in letters
    <3>1. PICK m : m = <<e, n>>  OBVIOUS
    <3>2. m[1] = e /\ m[2] = n  BY <3>1, Zenon
    <3>3. n \in 1..c  BY <1>1, <2>2, <3>1, <3>2, Zenon DEF LettersOf, Types, LetterTypes
    <3> QED BY <1>3, <1>4, <3>3, SMT
  <2> QED BY <1>13, <2>1, <2>2
<1> QED BY <1>4, <1>5, <1>12, <1>13, Zenon

\* So the delivery of a new letter is covered, whatever it was before.
LEMMA SaveCovers ==
    ASSUME IInv, NEW e \in Event, Save(e), handled' = handled, forsaken' = forsaken,
           \A k \in JobId : Tried(k) => (Tried(k)' /\ job'[k].event = job[k].event) \/ job[k].event = e
    PROVE  /\ Frame /\ LetterTypes' /\ Covered(e, 0)'
           /\ \A l \in letters' \ letters : Covered(l[1], 0)'
<1>1. /\ LetterTypes' /\ letters \subseteq letters' /\ open \subseteq open'
      /\ \A l \in letters' \ letters : l[1] = e
      /\ \A n \in Nat : n = 0 \/ <<e, n>> \in letters => \E l \in open' : l[1] = e /\ l[2] > n
  BY Saves, Zenon DEF IInv
<1>2. \A n \in Nat : n = 0 \/ <<e, n>> \in letters => Covered(e, n)'  BY <1>1, Zenon DEF Covered
<1>3. ASSUME NEW x \in Event, x # e, NEW n \in Nat, Covered(x, n)  PROVE Covered(x, n)'
  <2>1. CASE x \in handled \cup forsaken  BY <2>1, Zenon DEF Covered
  <2>2. CASE \E l \in open : l[1] = x /\ l[2] > n  BY <1>1, <2>2, Zenon DEF Covered
  <2>3. CASE \E k \in JobId : Tried(k) /\ job[k].event = x  BY <1>3, <2>3, Zenon DEF Covered
  <2> QED BY <1>3, <2>1, <2>2, <2>3, Zenon DEF Covered
<1>4. Frame  BY <1>1, <1>2, <1>3, Zenon DEF Frame, Steady
<1>5. Covered(e, 0)'
  <2>1. 0 \in Nat  OBVIOUS
  <2> QED BY <1>2, <2>1, Zenon
<1> QED BY <1>1, <1>4, <1>5, Zenon

-----------------------------------------------------------------------------
\* The steps of a flow.

\* add() keeps the invariant, whether it resolves or rejects.
LEMMA AddKeeps ==
    ASSUME IInv, NEW a \in Actor, Add(a) \/ AddRejected(a)
    PROVE  IInv'
<1>1. /\ flow[a].pc = "add" /\ flow[a].pc \notin {"idle", "next"}
      /\ UNCHANGED <<row, letters, open>>
  BY Zenon DEF Add, AddRejected, At, store
<1>2. PICK e, n : e = Work(a).event /\ n = Work(a).letter  OBVIOUS
<1>3. CASE Put(a)
  <2>1. PICK pc : pc \in {"queued", "inline"} /\ Goto(a, pc)
    BY Zenon DEF Add, AddRejected
  <2>2. pc \in PC \ {"idle", "next"}  BY <2>1, SMT DEF PC
  <2>3. Narrows(a) /\ flow'[a].pc = pc /\ Work(a)' = Work(a)
    BY <1>1, <2>1, <2>2, GotoNarrows, Zenon DEF IInv
  <2>4. Frame /\ JobTypes' /\ (\A k \in JobId : JobFine(k)') /\ Covered(e, n)'
    BY <1>1, <1>2, <1>3, PutKeeps, Zenon
  <2>5. Work(a)'.event = e /\ Work(a)'.letter = n  BY <1>2, <2>3, Zenon
  <2>6. \A b \in Actor : FlowFine(b)'  BY <2>3, <2>4, <2>5, FlowNarrowed, Zenon
  <2>7. \A x \in Event : RowFine(x)'  BY <1>1, <2>4, RowKept, Zenon
  <2>8. Types'
    BY <1>1, <2>3, <2>4, Zenon DEF Narrows, IInv, Types, RowTypes, LetterTypes, LettersOf
  <2> QED BY <1>1, <2>4, <2>6, <2>7, <2>8, Assemble, Zenon
<1>4. CASE Goto(a, "inline") /\ UNCHANGED <<job, handled, forsaken>>
  <2>1. "inline" \in PC \ {"idle", "next"} /\ "inline" \notin Sent  BY SMT DEF PC, Sent
  <2>2. Narrows(a) /\ flow'[a].pc = "inline"  BY <1>1, <1>4, <2>1, GotoNarrows, Zenon DEF IInv
  <2> QED BY <1>1, <1>4, <2>1, <2>2, OneFlow, Zenon
<1> QED BY <1>3, <1>4, Zenon DEF Add, AddRejected, ghost

\* The dispatch inline keeps the invariant.
LEMMA InlineKeeps ==
    ASSUME IInv, NEW a \in Actor, Inline(a)
    PROVE  IInv'
<1>1. /\ flow[a].pc = "inline" /\ flow[a].pc \notin {"idle", "next"}
      /\ UNCHANGED <<row, letters, open, job, forsaken>>
  BY Zenon DEF Inline, At, store
<1>2. /\ "dispatched" \in PC \ {"idle", "next"} /\ "failed" \in PC \ {"idle", "next"}
      /\ "failed" \notin Sent
  BY SMT DEF PC, Sent
<1>3. CASE Goto(a, "dispatched") /\ handled' = handled \cup {Work(a).event}
  <2>1. Narrows(a) /\ Work(a)' = Work(a)  BY <1>1, <1>2, <1>3, GotoNarrows, Zenon DEF IInv
  <2>2. Work(a)'.event \in handled'  BY <1>3, <2>1, Zenon
  <2>3. Covered(Work(a).event, Work(a).letter)'  BY <2>2, Zenon DEF Covered
  <2>4. handled \subseteq handled'  BY <1>3, Zenon
  <2> QED BY <1>1, <2>1, <2>3, <2>4, OneFlow, Zenon
<1>4. CASE Goto(a, "failed") /\ UNCHANGED handled
  <2>1. Narrows(a) /\ flow'[a].pc = "failed"  BY <1>1, <1>2, <1>4, GotoNarrows, Zenon DEF IInv
  <2> QED BY <1>1, <1>2, <1>4, <2>1, OneFlow, Zenon
<1> QED BY <1>3, <1>4, Zenon DEF Inline

\* A flow that ends its turn and writes nothing.
LEMMA LeaveKeeps ==
    ASSUME IInv, NEW a \in Actor, flow[a].pc \notin {"idle", "next"}, Leave(a),
           UNCHANGED <<row, letters, open, job, handled, forsaken>>
    PROVE  IInv'
<1>1. Narrows(a) /\ flow'[a].pc \in {"idle", "next"}  BY LeaveNarrows, Zenon DEF IInv
<1>2. flow'[a].pc \notin Sent  BY <1>1, SMT DEF Sent
<1> QED BY <1>1, <1>2, OneFlow, Zenon

\* A flow that saves a letter.
LEMMA FlowSaves ==
    ASSUME IInv, NEW a \in Actor, Narrows(a), NEW e \in Event, Save(e),
           UNCHANGED <<row, job, handled, forsaken>>,
           flow'[a].pc \in Sent => Work(a)'.event = e /\ Work(a)'.letter = 0
    PROVE  IInv'
<1>1. /\ Frame /\ LetterTypes' /\ Covered(e, 0)'
      /\ \A l \in letters' \ letters : Covered(l[1], 0)'
  BY SaveCovers, Zenon DEF Tried
<1>2. \A b \in Actor : FlowFine(b)'  BY <1>1, FlowNarrowed, Zenon
<1>3. (\A k \in JobId : JobFine(k)') /\ \A x \in Event : RowFine(x)'
  BY <1>1, JobKept, RowKept, Zenon
<1>4. Types'  BY <1>1, Zenon DEF Narrows, IInv, Types, RowTypes, JobTypes
<1> QED BY <1>1, <1>2, <1>3, <1>4, Assemble, Zenon

\* A flow that closes letters, and leaves covered what was.
LEMMA FlowCloses ==
    ASSUME IInv, Steady, NEW a \in Actor, Narrows(a), flow'[a].pc \notin Sent, open' \subseteq open,
           UNCHANGED <<row, letters, job>>
    PROVE  IInv'
<1>1. Frame  BY Zenon DEF Frame
<1>2. \A b \in Actor : FlowFine(b)'  BY <1>1, FlowNarrowed, Zenon
<1>3. (\A k \in JobId : JobFine(k)') /\ \A x \in Event : RowFine(x)'
  BY <1>1, JobKept, RowKept, Zenon
<1>4. Types'  BY Zenon DEF Narrows, IInv, Types, RowTypes, JobTypes, LetterTypes, LettersOf
<1> QED BY <1>1, <1>2, <1>3, <1>4, Assemble, Zenon

\* A flow that takes up work that fits it.
LEMMA FlowStarts ==
    ASSUME IInv, NEW a \in Actor, FlowTypes', \A b \in Actor \ {a} : flow'[b] = flow[b],
           \A w \in Works(a)' : Fits(a, w), flow'[a].pc \notin Sent,
           UNCHANGED <<row, letters, open, job, handled, forsaken>>
    PROVE  IInv'
<1>1. Frame
  <2>1. Steady  BY Grows, Zenon DEF Tried
  <2> QED BY <2>1, Zenon DEF Frame
<1>2. FlowFine(a)'  BY Zenon DEF FlowFine, Fits
<1>3. \A b \in Actor : FlowFine(b)'  BY <1>1, <1>2, FlowsKept, Zenon
<1>4. (\A k \in JobId : JobFine(k)') /\ \A x \in Event : RowFine(x)'
  BY <1>1, JobKept, RowKept, Zenon
<1>5. Types'  BY Zenon DEF IInv, Types, RowTypes, JobTypes, LetterTypes, LettersOf
<1> QED BY <1>1, <1>3, <1>4, <1>5, Assemble, Zenon

\* The awaits of enqueue(), as strings.
LEMMA Pcs ==
    /\ \A x \in {"letter", "retire", "exhaust"} : x \in PC \ {"idle", "next"}
    /\ "letter" \notin Sent /\ "failed" \notin Sent /\ "add" \notin Sent
    /\ "idle" \notin Sent /\ "next" \notin Sent /\ "queued" \in Sent /\ "dispatched" \in Sent
    /\ "retire" \in Sent /\ "exhaust" \in Sent
    /\ "pending" \in State /\ "dispatched" \in State /\ "failed" \in State
  BY SMT DEF PC, Sent, State

\* A table in which one row was written.
LEMMA RowWritten ==
    ASSUME NEW f \in [Event -> Row], NEW e \in Event, NEW r \in Row,
           NEW g, g = [x \in Event |-> g[x]], g[e] = r, \A x \in Event \ {e} : g[x] = f[x]
    PROVE  g = [f EXCEPT ![e] = r]
<1>1. PICK h : h = [f EXCEPT ![e] = r]  OBVIOUS
<1>2. h = [x \in Event |-> h[x]] /\ h[e] = r /\ \A x \in Event \ {e} : h[x] = f[x]  BY <1>1, Zenon
<1>3. \A x \in Event : g[x] = h[x]  BY <1>2, Zenon
<1> QED BY <1>1, <1>2, <1>3, Zenon

\* A write of one column of a row.
LEMMA RowState ==
    ASSUME Types, NEW e \in Event, NEW st \in State, row' = [row EXCEPT ![e].state = st]
    PROVE  \E r \in Row : row' = [row EXCEPT ![e] = r] /\ r.state = st
<1>1. row[e] \in Row  BY Zenon DEF Types, RowTypes
<1>2. PICK r : r = [row[e] EXCEPT !.state = st]  OBVIOUS
<1>3. r \in Row /\ r.state = st  BY <1>1, <1>2, Zenon DEF Row
<1>4. row' = [row EXCEPT ![e] = r]  BY <1>2, SMT
<1> QED BY <1>3, <1>4, Zenon

\* Of its count of attempts, the last of which it is cooling down from.
LEMMA RowAttempts ==
    ASSUME Types, NEW e \in Event, NEW n \in Nat,
           row' = [row EXCEPT ![e].attempts = n, ![e].cooling = TRUE]
    PROVE  \E r \in Row : row' = [row EXCEPT ![e] = r] /\ r.state = row[e].state
<1>1. row \in [Event -> Row] /\ row[e] \in Row  BY Zenon DEF Types, RowTypes
<1>2. PICK q : q = [row[e] EXCEPT !.attempts = n]  OBVIOUS
<1>3. PICK r : r = [q EXCEPT !.cooling = TRUE]  OBVIOUS
<1>4. q \in Row /\ q.state = row[e].state  BY <1>1, <1>2, Zenon DEF Row
<1>5. r \in Row /\ r.state = row[e].state  BY <1>3, <1>4, Zenon DEF Row
<1>6. row'[e] = r /\ \A x \in Event \ {e} : row'[x] = row[x]  BY <1>1, <1>2, <1>3, Zenon
<1>7. row' = [x \in Event |-> row'[x]]  BY <1>1, Zenon
<1>8. row' = [row EXCEPT ![e] = r]  BY <1>1, <1>5, <1>6, <1>7, RowWritten, Zenon
<1> QED BY <1>5, <1>8, Zenon

\* Of its count and its state: the row is given up.
LEMMA RowGivenUp ==
    ASSUME Types, NEW e \in Event, NEW n \in Nat,
           row' = [row EXCEPT ![e].state = "failed", ![e].attempts = n]
    PROVE  \E r \in Row : row' = [row EXCEPT ![e] = r] /\ r.state = "failed"
<1>1. row \in [Event -> Row] /\ row[e] \in Row  BY Zenon DEF Types, RowTypes
<1>2. PICK q : q = [row[e] EXCEPT !.state = "failed"]  OBVIOUS
<1>3. PICK r : r = [q EXCEPT !.attempts = n]  OBVIOUS
<1>4. q \in Row /\ q.state = "failed"  BY <1>1, <1>2, Pcs, Zenon DEF Row
<1>5. r \in Row /\ r.state = "failed"  BY <1>3, <1>4, Pcs, Zenon DEF Row
<1>6. row'[e] = r /\ \A x \in Event \ {e} : row'[x] = row[x]  BY <1>1, <1>2, <1>3, Zenon
<1>7. row' = [x \in Event |-> row'[x]]  BY <1>1, Zenon
<1>8. row' = [row EXCEPT ![e] = r]  BY <1>1, <1>5, <1>6, <1>7, RowWritten, Zenon
<1> QED BY <1>5, <1>8, Zenon

\* A new row, younger than those there are.
LEMMA RowNew ==
    ASSUME Types, NEW e \in Event, NEW S \in SUBSET Event,
           row' = [row EXCEPT ![e].state = "pending", ![e].older = S]
    PROVE  \E r \in Row : row' = [row EXCEPT ![e] = r] /\ r.state = "pending"
<1>1. row \in [Event -> Row] /\ row[e] \in Row  BY Zenon DEF Types, RowTypes
<1>2. PICK q : q = [row[e] EXCEPT !.state = "pending"]  OBVIOUS
<1>3. PICK r : r = [q EXCEPT !.older = S]  OBVIOUS
<1>4. q \in Row /\ q.state = "pending"  BY <1>1, <1>2, Pcs, Zenon DEF Row
<1>5. r \in Row /\ r.state = "pending"  BY <1>3, <1>4, Pcs, Zenon DEF Row
<1>6. row'[e] = r /\ \A x \in Event \ {e} : row'[x] = row[x]  BY <1>1, <1>2, <1>3, Zenon
<1>7. row' = [x \in Event |-> row'[x]]  BY <1>1, Zenon
<1>8. row' = [row EXCEPT ![e] = r]  BY <1>1, <1>5, <1>6, <1>7, RowWritten, Zenon
<1> QED BY <1>5, <1>8, Zenon

\* A row that cooled down keeps its state.
LEMMA RowCooled ==
    ASSUME Types, NEW e \in Event, row' = [row EXCEPT ![e].cooling = FALSE]
    PROVE  /\ RowTypes' /\ row'[e].state = row[e].state
           /\ \A x \in Event \ {e} : row'[x] = row[x]
<1>1. row \in [Event -> Row]  BY Zenon DEF Types, RowTypes
<1>2. PICK r : r = [row[e] EXCEPT !.cooling = FALSE]  OBVIOUS
<1>3. r \in Row /\ r.state = row[e].state
  <2>1. row[e] \in Row  BY <1>1, Zenon
  <2> QED BY <1>2, <2>1, Zenon DEF Row
<1>4. row' = [row EXCEPT ![e] = r]  BY <1>1, <1>2, SMT
<1> QED BY <1>1, <1>3, <1>4, Zenon DEF RowTypes

\* What a flow reports as accepted is covered.
LEMMA AcceptedIs ==
    ASSUME IInv, NEW a \in Actor, Accepted(a) \/ At(a, "retire") \/ At(a, "exhaust")
    PROVE  flow[a].pc \notin {"idle", "next"} /\ Covered(Work(a).event, Work(a).letter)
<1>1. flow[a].pc \in {"queued", "dispatched", "retire", "exhaust"}  BY Zenon DEF Accepted, At
<1>2. flow[a].pc \notin {"idle", "next"}  BY <1>1
<1> QED BY <1>1, <1>2, Pcs, Zenon DEF IInv, FlowFine, Sent

\* To be covered without one's letters up to n is more than to be covered.
LEMMA CoversLess ==
    ASSUME IInv, NEW e, NEW n \in Nat, Covered(e, n)
    PROVE  Covered(e, 0)
<1>1. ASSUME NEW l \in open, l[2] > n  PROVE l[2] > 0
  <2>1. l[2] \in Nat
    <3>1. l \in Letter  BY Zenon DEF IInv, Types, LetterTypes
    <3> QED BY <3>1, SMT DEF Letter
  <2> QED BY <1>1, <2>1, SMT
<1> QED BY <1>1, Zenon DEF Covered

-----------------------------------------------------------------------------
\* The live path.

\* A new delivery keeps the invariant.
LEMMA ReceiveKeeps ==
    ASSUME IInv, NEW e \in Event, Receive(e)
    PROVE  IInv'
<1>1. PICK w : w = [event |-> e, attempts |-> 0, letter |-> 0]  OBVIOUS
<1>2. w \in Item /\ w.event = e /\ w.letter = 0
  <2>1. 0 \in Nat  OBVIOUS
  <2> QED BY <1>1, <2>1, Zenon DEF Item
<1>3. /\ \E S \in SUBSET Event : row' = [row EXCEPT ![e].state = "pending", ![e].older = S]
      /\ Begin(e, w, {}) /\ UNCHANGED <<letters, open, job, handled, forsaken>>
  BY <1>1, Zenon DEF Receive, ghost
<1>4. e \in Actor /\ e \notin Instance
  BY IngressAssumption, Zenon DEF IngressAssumption, Actor
<1>5. {} \in SUBSET Item  OBVIOUS
<1>6. /\ FlowTypes' /\ Works(e)' = {w} \cup {} /\ flow'[e].pc = "add"
      /\ \A b \in Actor \ {e} : flow'[b] = flow[b]
  BY <1>2, <1>3, <1>4, <1>5, Begins, Zenon DEF IInv
<1>7. Frame
  <2>1. Steady  BY <1>3, Grows, Zenon DEF Tried
  <2> QED BY <1>3, <2>1, Zenon DEF Frame
<1>8. FlowFine(e)'  BY <1>2, <1>4, <1>6, Pcs, Zenon DEF FlowFine, Fits
<1>9. \A b \in Actor : FlowFine(b)'  BY <1>6, <1>7, <1>8, FlowsKept, Zenon
<1>10. \A k \in JobId : JobFine(k)'  BY <1>3, <1>7, JobKept, Zenon
<1>11. PICK r \in Row : row' = [row EXCEPT ![e] = r] /\ r.state = "pending"
  BY <1>3, RowNew, Zenon DEF IInv
<1>12. RowTypes' /\ row'[e] = r /\ \A x \in Event \ {e} : row'[x] = row[x]
  <2>1. row \in [Event -> Row]  BY Zenon DEF IInv, Types, RowTypes
  <2> QED BY <1>11, <2>1, Zenon DEF RowTypes
<1>13. RowFine(e)'
  <2>1. "pending" \notin {"dispatched", "failed"}  OBVIOUS
  <2> QED BY <1>11, <1>12, <2>1, Zenon DEF RowFine
<1>14. \A x \in Event : RowFine(x)'  BY <1>7, <1>12, <1>13, RowKept, Zenon
<1>15. Types'
  BY <1>3, <1>6, <1>12, Zenon DEF IInv, Types, JobTypes, LetterTypes, LettersOf
<1> QED BY <1>3, <1>7, <1>9, <1>10, <1>14, <1>15, Assemble, Zenon

\* The live path's writes keep the invariant.
LEMMA LiveKeeps ==
    ASSUME IInv, NEW e \in Event, Live(e)
    PROVE  IInv'
<1>0. e \in Actor /\ e \notin Instance
  BY IngressAssumption, Zenon DEF IngressAssumption, Actor
<1>1. CASE /\ Accepted(e) /\ row' = [row EXCEPT ![e].state = "dispatched"] /\ Leave(e)
           /\ UNCHANGED <<letters, open, job, handled, forsaken>>
  <2>1. flow[e].pc \notin {"idle", "next"} /\ Covered(Work(e).event, Work(e).letter)
    BY <1>0, <1>1, AcceptedIs, Zenon
  <2>2. Covered(e, 0)  BY <1>0, <2>1, WorkFits, Zenon
  <2>3. Narrows(e) /\ flow'[e].pc \notin Sent
    BY <1>0, <1>1, <2>1, LeaveNarrows, Pcs, Zenon DEF IInv
  <2>4. PICK r \in Row : row' = [row EXCEPT ![e] = r] /\ r.state = "dispatched"
    BY <1>1, Pcs, RowState, Zenon DEF IInv
  <2> QED BY <1>0, <1>1, <2>2, <2>3, <2>4, OneRow, Zenon
<1>2. CASE /\ At(e, "failed") /\ Goto(e, "letter")
           /\ row' = [row EXCEPT ![e].attempts = @ + 1, ![e].cooling = TRUE]
           /\ UNCHANGED <<letters, open, job, handled, forsaken>>
  <2>1. flow[e].pc = "failed" /\ flow[e].pc \notin {"idle", "next"}  BY <1>2, Zenon DEF At
  <2>2. Narrows(e) /\ flow'[e].pc = "letter"  BY <1>0, <1>2, <2>1, GotoNarrows, Pcs, Zenon DEF IInv
  <2>3. PICK n : n = row[e].attempts + 1  OBVIOUS
  <2>4. n \in Nat
    <3>1. row[e].attempts \in Nat  BY Zenon DEF IInv, Types, RowTypes, Row
    <3> QED BY <2>3, <3>1, SMT
  <2>5. row' = [row EXCEPT ![e].attempts = n, ![e].cooling = TRUE]  BY <1>2, <2>3
  <2>6. PICK r \in Row : row' = [row EXCEPT ![e] = r] /\ r.state = row[e].state
    BY <2>4, <2>5, RowAttempts, Zenon DEF IInv
  <2>7. r.state \in {"dispatched", "failed"} => Covered(e, 0)  BY <2>6, Zenon DEF IInv, RowFine
  <2> QED BY <1>0, <1>2, <2>2, <2>6, <2>7, OneRow, Pcs, Zenon
<1>3. CASE DeadLetter(e)
  <2>1. /\ flow[e].pc \notin {"idle", "next"} /\ Save(e) /\ Leave(e)
        /\ UNCHANGED <<row, job, handled, forsaken>>
    BY <1>3, Zenon DEF DeadLetter, At, ghost
  <2>2. Narrows(e) /\ flow'[e].pc \notin Sent
    BY <1>0, <2>1, LeaveNarrows, Pcs, Zenon DEF IInv
  <2> QED BY <1>0, <2>1, <2>2, FlowSaves, Zenon
<1> QED BY <1>1, <1>2, <1>3, Zenon DEF Live, Mark, Marks, ghost

\* So does a row that cools down.
LEMMA CoolsDownKeeps ==
    ASSUME IInv, NEW e \in Event, CoolsDown(e)
    PROVE  IInv'
<1>1. UNCHANGED <<letters, open, job, flow, handled, forsaken>>  BY Zenon DEF CoolsDown, ghost
<1>2. /\ RowTypes' /\ row'[e].state = row[e].state
      /\ \A x \in Event \ {e} : row'[x] = row[x]
  BY RowCooled, Zenon DEF CoolsDown, IInv
<1>3. Frame
  <2>1. Steady  BY <1>1, Grows, Zenon DEF Tried
  <2> QED BY <1>1, <2>1, Zenon DEF Frame
<1>4. \A x \in Event : RowFine(x)'
  <2>1. 0 \in Nat  OBVIOUS
  <2>2. RowFine(e)'  BY <1>2, <1>3, <2>1, Zenon DEF Frame, IInv, RowFine, Steady
  <2> QED BY <1>2, <1>3, <2>2, RowKept, Zenon
<1>5. (\A a \in Actor : FlowFine(a)') /\ \A k \in JobId : JobFine(k)'
  BY <1>1, <1>3, FlowsKept, JobKept, Zenon
<1>6. Types'
  BY <1>1, <1>2, Zenon DEF IInv, Types, JobTypes, FlowTypes, LetterTypes, LettersOf
<1> QED BY <1>1, <1>3, <1>4, <1>5, <1>6, Assemble, Zenon

\* And so do its writes that fail.
LEMMA LiveWriteFailsKeeps ==
    ASSUME IInv, NEW e \in Event, LiveWriteFails(e)
    PROVE  IInv'
<1>0. e \in Actor  BY Zenon DEF Actor
<1>1. UNCHANGED <<row, letters, open, job, handled, forsaken>>
  BY Zenon DEF LiveWriteFails, store, ghost
<1>2. flow[e].pc \notin {"idle", "next"}
  BY Zenon DEF LiveWriteFails, Accepted, At
<1>3. CASE Leave(e)  BY <1>0, <1>1, <1>2, <1>3, LeaveKeeps, Zenon
<1>4. CASE Goto(e, "letter")
  <2>1. Narrows(e) /\ flow'[e].pc = "letter"  BY <1>0, <1>2, <1>4, GotoNarrows, Pcs, Zenon DEF IInv
  <2> QED BY <1>0, <1>1, <2>1, OneFlow, Pcs, Zenon
<1> QED BY <1>3, <1>4, Zenon DEF LiveWriteFails

-----------------------------------------------------------------------------
\* The worker.

\* A job there is.
LEMMA JobIs ==
    ASSUME Types, NEW k \in JobId, job[k].state # "none"
    PROVE  job[k] \in Job /\ job[k].event \in Event
<1>1. job[k] \in {NoJob} \cup Job  BY Zenon DEF Types, JobTypes
<1>2. NoJob.state = "none"  BY Zenon DEF NoJob
<1>3. job[k] \in Job  BY <1>1, <1>2, Zenon
<1> QED BY <1>3, Zenon DEF Job

\* The job that is left when another one ends.
LEMMA EndedIs ==
    ASSUME Types, NEW k \in JobId, job[k].state # "none"
    PROVE  Ended(k) \in Job /\ Ended(k).event = job[k].event /\ Ended(k).state = "ended"
<1>1. 0 \in Nat /\ "ended" \in {"waiting", "active", "lettered", "ended"}  OBVIOUS
<1>2. job[k].event \in Event  BY JobIs, Zenon
<1> QED BY <1>1, <1>2, Zenon DEF Ended, Job

\* A job that ends: handled or given up, unless it was at its last letter.
LEMMA EndKeeps ==
    ASSUME IInv, NEW k \in JobId, job[k].state # "none", End(k), handled \subseteq handled',
           forsaken \subseteq forsaken', UNCHANGED <<row, letters, open, flow>>,
           Tried(k) => job[k].event \in handled' \cup forsaken'
    PROVE  IInv'
<1>1. PICK j : j = Ended(k)  OBVIOUS
<1>2. j \in Job /\ j.event = job[k].event  BY <1>1, EndedIs, Zenon DEF IInv
<1>3. job' = [job EXCEPT ![k] = j]  BY <1>1, Zenon DEF End
<1> QED BY <1>2, <1>3, OneJob, Zenon

\* A worker that takes a job keeps the invariant.
LEMMA TakeKeeps ==
    ASSUME IInv, NEW k \in JobId, Take(k)
    PROVE  IInv'
<1>1. /\ job[k].state = "waiting" /\ job' = [job EXCEPT ![k].state = "active"]
      /\ UNCHANGED <<row, letters, open, flow, handled, forsaken>>
  BY Zenon DEF Take, store, ghost
<1>2. job[k].state # "none"  BY <1>1
<1>3. job[k] \in Job  BY <1>2, JobIs, Zenon DEF IInv
<1>4. PICK j : j = [job[k] EXCEPT !.state = "active"]  OBVIOUS
<1>5. "active" \in {"waiting", "active", "lettered", "ended"} /\ "active" \in {"waiting", "active"}
  OBVIOUS
<1>6. j \in Job /\ j.event = job[k].event /\ j.state = "active"  BY <1>3, <1>4, <1>5, Zenon DEF Job
<1>7. job' = [job EXCEPT ![k] = j]  BY <1>1, <1>4, SMT
<1> QED BY <1>1, <1>2, <1>5, <1>6, <1>7, OneJob, Zenon

\* A job that is handled keeps the invariant.
LEMMA JobDoneKeeps ==
    ASSUME IInv, NEW k \in JobId, JobDone(k)
    PROVE  IInv'
<1>1. /\ job[k].state = "active" /\ End(k) /\ handled' = handled \cup {job[k].event}
      /\ UNCHANGED <<row, letters, open, flow, forsaken>>
  BY Zenon DEF JobDone, store
<1>2. job[k].state # "none"  BY <1>1
<1>3. handled \subseteq handled' /\ job[k].event \in handled'  BY <1>1, Zenon
<1> QED BY <1>1, <1>2, <1>3, EndKeeps, Zenon

\* An attempt that failed keeps the invariant.
LEMMA JobRetriedKeeps ==
    ASSUME IInv, NEW k \in JobId, JobRetried(k)
    PROVE  IInv'
<1>1. /\ job[k].state = "active"
      /\ job' = [job EXCEPT ![k].state = "waiting", ![k].tries = @ + 1]
      /\ UNCHANGED <<row, letters, open, flow, handled, forsaken>>
  BY Zenon DEF JobRetried, store, ghost
<1>2. job[k].state # "none"  BY <1>1
<1>3. job[k] \in Job  BY <1>2, JobIs, Zenon DEF IInv
<1>4. PICK i : i = [job[k] EXCEPT !.state = "waiting"]  OBVIOUS
<1>5. "waiting" \in {"waiting", "active", "lettered", "ended"} /\ "waiting" \in {"waiting", "active"}
  OBVIOUS
<1>6. i \in Job /\ i.event = job[k].event /\ i.state = "waiting" /\ i.tries = job[k].tries
  BY <1>3, <1>4, <1>5, Zenon DEF Job
<1>7. PICK n : n = job[k].tries + 1  OBVIOUS
<1>8. n \in Nat
  <2>1. job[k].tries \in Nat  BY <1>3, Zenon DEF Job
  <2> QED BY <1>7, <2>1, SMT
<1>9. PICK j : j = [i EXCEPT !.tries = n]  OBVIOUS
<1>10. j \in Job /\ j.event = job[k].event /\ j.state = "waiting"  BY <1>6, <1>8, <1>9, Zenon DEF Job
<1>11. job' = [job EXCEPT ![k] = j]  BY <1>1, <1>3, <1>4, <1>7, <1>9 DEF Job
<1> QED BY <1>1, <1>2, <1>5, <1>10, <1>11, OneJob, Zenon

\* The letter of the final attempt covers what the job covered.
LEMMA JobLetteredKeeps ==
    ASSUME IInv, NEW k \in JobId, JobLettered(k)
    PROVE  IInv'
<1>1. /\ job[k].state = "active" /\ Save(job[k].event)
      /\ job' = [job EXCEPT ![k].state = "lettered"]
      /\ UNCHANGED <<row, flow, handled, forsaken>>
  BY Zenon DEF JobLettered, ghost
<1>2. job[k].state # "none"  BY <1>1
<1>3. PICK e : e = job[k].event  OBVIOUS
<1>4. job[k] \in Job /\ e \in Event  BY <1>2, <1>3, JobIs, Zenon DEF IInv
<1>5. PICK j : j = [job[k] EXCEPT !.state = "lettered"]  OBVIOUS
<1>6. j \in Job /\ j.event = e
  <2>1. "lettered" \in {"waiting", "active", "lettered", "ended"}  OBVIOUS
  <2> QED BY <1>3, <1>4, <1>5, <2>1, Zenon DEF Job
<1>7. job' = [job EXCEPT ![k] = j]  BY <1>1, <1>5, SMT
<1>8. JobTypes' /\ job'[k] = j /\ \A i \in JobId \ {k} : job'[i] = job[i]
  <2>1. job \in [JobId -> {NoJob} \cup Job]  BY Zenon DEF IInv, Types, JobTypes
  <2> QED BY <1>6, <1>7, <2>1, Zenon DEF JobTypes
<1>9. \A i \in JobId : Tried(i) => (Tried(i)' /\ job'[i].event = job[i].event) \/ job[i].event = e
  BY <1>3, <1>8, Zenon DEF Tried
<1>10. /\ Frame /\ LetterTypes' /\ \A l \in letters' \ letters : Covered(l[1], 0)'
  BY <1>1, <1>3, <1>4, <1>9, SaveCovers, Zenon
<1>11. \A i \in JobId : JobFine(i)'
  BY <1>2, <1>3, <1>6, <1>8, <1>10, JobKept, Zenon
<1>12. (\A a \in Actor : FlowFine(a)') /\ \A x \in Event : RowFine(x)'
  BY <1>1, <1>10, FlowsKept, RowKept, Zenon
<1>13. Types'  BY <1>1, <1>8, <1>10, Zenon DEF IInv, Types, RowTypes, FlowTypes
<1> QED BY <1>10, <1>11, <1>12, <1>13, Assemble, Zenon

\* The end of a job with a letter keeps the invariant.
LEMMA JobFailedKeeps ==
    ASSUME IInv, NEW k \in JobId, JobFailed(k)
    PROVE  IInv'
<1>1. /\ job[k].state = "lettered" /\ End(k)
      /\ UNCHANGED <<row, letters, open, flow, handled, forsaken>>
  BY Zenon DEF JobFailed, store, ghost
<1>2. job[k].state # "none" /\ ~Tried(k)  BY <1>1, Zenon DEF Tried
<1> QED BY <1>1, <1>2, EndKeeps, Zenon

\* A letter that could not be saved keeps the invariant: the delivery is forsaken.
LEMMA JobUnletteredKeeps ==
    ASSUME IInv, NEW k \in JobId, JobUnlettered(k)
    PROVE  IInv'
<1>1. /\ job[k].state = "active" /\ End(k) /\ forsaken' = forsaken \cup {job[k].event}
      /\ UNCHANGED <<row, letters, open, flow, handled>>
  BY Zenon DEF JobUnlettered, store
<1>2. job[k].state # "none"  BY <1>1
<1>3. forsaken \subseteq forsaken' /\ job[k].event \in forsaken'  BY <1>1, Zenon
<1> QED BY <1>1, <1>2, <1>3, EndKeeps, Zenon

-----------------------------------------------------------------------------
\* The process.

\* A crash keeps the invariant: no claim rests on a flow.
LEMMA CrashKeeps ==
    ASSUME IInv, Crash
    PROVE  IInv'
<1>1. flow' = [a \in Actor |-> Idle] /\ UNCHANGED <<row, letters, open, job, handled, forsaken>>
  BY Zenon DEF Crash, store, ghost
<1>2. Frame
  <2>1. Steady  BY <1>1, Grows, Zenon DEF Tried
  <2> QED BY <1>1, <2>1, Zenon DEF Frame
<1>3. ASSUME NEW a \in Actor  PROVE FlowFine(a)'
  <2>1. flow'[a] = Idle /\ flow'[a].pc = "idle"  BY <1>1, Zenon DEF Idle
  <2> QED BY <2>1, Pcs, Zenon DEF FlowFine, Works
<1>4. (\A k \in JobId : JobFine(k)') /\ \A e \in Event : RowFine(e)'
  BY <1>1, <1>2, JobKept, RowKept, Zenon
<1>5. Types'
  BY <1>1, Zenon DEF IInv, Types, RowTypes, JobTypes, FlowTypes, LetterTypes, LettersOf
<1> QED BY <1>1, <1>2, <1>3, <1>4, <1>5, Assemble, Zenon

\* The jobs found stalled keep the invariant, given back or given up.
LEMMA RestartKeeps ==
    ASSUME IInv, Restart
    PROVE  IInv'
<1>1. /\ job' = [k \in JobId |-> IF GivenUp(k) THEN Ended(k)
                                 ELSE IF Held(k) THEN [job[k] EXCEPT !.state = "waiting", !.stalls = @ + 1]
                                 ELSE job[k]]
      /\ forsaken' = forsaken \cup
                     {job[k].event : k \in {h \in JobId : GivenUp(h) /\ job[h].state = "active"}}
      /\ UNCHANGED <<row, letters, open, flow, handled>>
  BY Zenon DEF Restart, store
<1>2. ASSUME NEW k \in JobId
      PROVE  /\ job'[k] \in {NoJob} \cup Job
             /\ job'[k].state # "none" => job[k].state # "none" /\ job'[k].event = job[k].event
             /\ Tried(k) => (Tried(k)' /\ job'[k].event = job[k].event)
                            \/ job[k].event \in handled' \cup forsaken'
  <2>1. CASE GivenUp(k)
    <3>1. job'[k] = Ended(k)  BY <1>1, <2>1, Zenon
    <3>2. job[k].state \in {"active", "lettered"}  BY <2>1, Zenon DEF GivenUp, Held
    <3>3. job[k].state # "none"  BY <3>2
    <3>4. Ended(k) \in Job /\ Ended(k).event = job[k].event  BY <3>3, EndedIs, Zenon DEF IInv
    <3>5. Tried(k) => job[k].event \in forsaken'
      <4>1. Tried(k) => job[k].state = "active"  BY <3>2, Zenon DEF Tried
      <4> QED BY <1>1, <2>1, <4>1, Zenon
    <3> QED BY <3>1, <3>3, <3>4, <3>5, Zenon
  <2>2. CASE ~GivenUp(k) /\ Held(k)
    <3>1. job[k].state # "none"  BY <2>2, Zenon DEF Held
    <3>2. job[k] \in Job  BY <3>1, JobIs, Zenon DEF IInv
    <3>3. PICK i : i = [job[k] EXCEPT !.state = "waiting"]  OBVIOUS
    <3>4. "waiting" \in {"waiting", "active", "lettered", "ended"} /\ "waiting" \in {"waiting", "active"}
      OBVIOUS
    <3>5. i \in Job /\ i.event = job[k].event /\ i.state = "waiting"
      BY <3>2, <3>3, <3>4, Zenon DEF Job
    <3>6. PICK n : n = job[k].stalls + 1  OBVIOUS
    <3>7. n \in Nat
      <4>1. job[k].stalls \in Nat  BY <3>2, Zenon DEF Job
      <4> QED BY <3>6, <4>1, SMT
    <3>8. PICK j : j = [i EXCEPT !.stalls = n]  OBVIOUS
    <3>9. j \in Job /\ j.event = job[k].event /\ j.state = "waiting"
      BY <3>5, <3>7, <3>8, Zenon DEF Job
    <3>10. job'[k] = [job[k] EXCEPT !.state = "waiting", !.stalls = @ + 1]
      BY <1>1, <2>2, Zenon
    <3>11. job'[k] = j  BY <3>2, <3>3, <3>6, <3>8, <3>10 DEF Job
    <3> QED BY <3>1, <3>4, <3>9, <3>11, Zenon DEF Tried
  <2>3. CASE ~GivenUp(k) /\ ~Held(k)
    <3>1. job'[k] = job[k]  BY <1>1, <2>3, Zenon
    <3>2. job[k] \in {NoJob} \cup Job  BY Zenon DEF IInv, Types, JobTypes
    <3> QED BY <3>1, <3>2, Zenon DEF Tried
  <2> QED BY <2>1, <2>2, <2>3
<1>3. JobTypes'  BY <1>1, <1>2, Zenon DEF JobTypes
<1>4. forsaken \subseteq forsaken'  BY <1>1, Zenon
<1> QED BY <1>1, <1>2, <1>3, <1>4, JobsMove, Zenon

-----------------------------------------------------------------------------
\* The reconciler and the redrives.

\* The three kinds of flow are apart.
LEMMA Actors ==
    /\ Sweep \in Actor /\ Sweep \notin Event /\ Sweep \notin Instance
    /\ \A i \in Instance : i \in Actor /\ i \notin Event
  BY IngressAssumption, Zenon DEF IngressAssumption, Actor

\* A flow between two rows of its batch.
LEMMA AtNext ==
    ASSUME Types, NEW a \in Actor, flow[a].pc = "next"
    PROVE  flow[a].todo \subseteq Item /\ Works(a) = flow[a].todo
<1>1. Idle.pc = "idle" /\ "idle" # "next"  BY Zenon DEF Idle
<1>2. flow[a] \in {Idle} \cup Left \cup Flow  BY Zenon DEF Types, FlowTypes
<1>3. flow[a] \notin Flow  BY Zenon DEF Flow
<1>4. flow[a] \in Left /\ flow[a] # Idle  BY <1>1, <1>2, <1>3, Zenon
<1> QED BY <1>4, Zenon DEF Left, Works

\* A sweep's batch fits it.
LEMMA SweepStartKeeps ==
    ASSUME IInv, SweepStart
    PROVE  IInv'
<1>0. PICK D : D = {d \in Oldest : ~row[d].cooling}  OBVIOUS
<1>1. PICK S : S = {[event |-> e, attempts |-> row[e].attempts, letter |-> 0] : e \in D}
  OBVIOUS
<1>2. Rest(Sweep, S) /\ UNCHANGED <<row, letters, open, job, handled, forsaken>>
  BY <1>0, <1>1, Zenon DEF SweepStart, store, ghost
<1>3. \A w \in S : w \in Item /\ w.letter = 0
  <2>1. 0 \in Nat  OBVIOUS
  <2>2. \A e \in D : e \in Event /\ row[e].attempts \in Nat
    BY <1>0, Zenon DEF Oldest, Stale, IInv, Types, RowTypes, Row
  <2> SUFFICES ASSUME NEW e \in D, NEW w,
                      w = [event |-> e, attempts |-> row[e].attempts, letter |-> 0]
               PROVE  w \in Item /\ w.letter = 0
    BY <1>1, Zenon
  <2> QED BY <2>1, <2>2, Zenon DEF Item
<1>4. /\ FlowTypes' /\ Works(Sweep)' = S /\ flow'[Sweep].pc \in {"idle", "next"}
      /\ \A b \in Actor \ {Sweep} : flow'[b] = flow[b]
  BY <1>2, <1>3, Actors, Rests, Zenon DEF IInv
<1>5. \A w \in Works(Sweep)' : Fits(Sweep, w)  BY <1>3, <1>4, Actors, Zenon DEF Fits
<1> QED BY <1>2, <1>4, <1>5, Actors, FlowStarts, Pcs, Zenon

\* The next row of a batch, begun or skipped, is work the flow had.
LEMMA NextNarrows ==
    ASSUME Types, NEW a \in Actor, flow[a].pc = "next", NEW w \in flow[a].todo,
           \/ Begin(a, w, flow[a].todo \ {w}) \/ Rest(a, flow[a].todo \ {w})
    PROVE  Narrows(a) /\ flow'[a].pc \in {"add", "idle", "next"}
<1>1. flow[a].todo \subseteq Item /\ Works(a) = flow[a].todo  BY AtNext, Zenon
<1>2. PICK rest : rest = flow[a].todo \ {w}  OBVIOUS
<1>3. w \in Item /\ rest \in SUBSET Item /\ {w} \cup rest \subseteq Works(a)
  BY <1>1, <1>2, Zenon
<1>4. CASE Begin(a, w, rest)  BY <1>3, <1>4, Begins, Zenon DEF Narrows
<1>5. CASE Rest(a, rest)  BY <1>3, <1>5, Rests, Zenon DEF Narrows
<1> QED BY <1>2, <1>4, <1>5, Zenon

\* So it keeps the invariant.
LEMMA NextKeeps ==
    ASSUME IInv, NEW a \in Actor, flow[a].pc = "next", NEW w \in flow[a].todo,
           \/ Begin(a, w, flow[a].todo \ {w}) \/ Rest(a, flow[a].todo \ {w}),
           UNCHANGED <<row, letters, open, job, handled, forsaken>>
    PROVE  IInv'
<1>1. Narrows(a) /\ flow'[a].pc \in {"add", "idle", "next"}  BY NextNarrows, Zenon DEF IInv
<1>2. flow'[a].pc \notin Sent  BY <1>1, SMT DEF Sent
<1> QED BY <1>1, <1>2, OneFlow, Zenon

\* The next row of a sweep keeps the invariant.
LEMMA SweepNextKeeps ==
    ASSUME IInv, SweepNext
    PROVE  IInv'
<1>1. /\ flow[Sweep].pc = "next" /\ UNCHANGED <<row, letters, open, job, handled, forsaken>>
      /\ \E w \in flow[Sweep].todo : \/ Begin(Sweep, w, flow[Sweep].todo \ {w})
                                     \/ Rest(Sweep, flow[Sweep].todo \ {w})
  BY Zenon DEF SweepNext, At, store, ghost
<1> QED BY <1>1, Actors, NextKeeps, Zenon

\* A replay that was accepted covers its delivery.
LEMMA SweepMarksKeeps ==
    ASSUME IInv, SweepMarks
    PROVE  IInv'
<1>1. PICK e : e = Work(Sweep).event  OBVIOUS
<1>2. /\ Accepted(Sweep) /\ row' = [row EXCEPT ![e].state = "dispatched"] /\ Goto(Sweep, "retire")
      /\ UNCHANGED <<letters, open, job, handled, forsaken>>
  BY <1>1, Zenon DEF SweepMarks, ghost
<1>3. flow[Sweep].pc \notin {"idle", "next"} /\ Covered(e, Work(Sweep).letter)
  BY <1>1, <1>2, Actors, AcceptedIs, Zenon
<1>4. Work(Sweep).letter = 0  BY <1>3, Actors, WorkFits, Zenon
<1>5. e \in Event  BY <1>1, <1>3, Actors, AtWork, Zenon DEF IInv
<1>6. Narrows(Sweep) /\ Work(Sweep)' = Work(Sweep)
  BY <1>2, <1>3, Actors, GotoNarrows, Pcs, Zenon DEF IInv
<1>7. Covered(Work(Sweep).event, Work(Sweep).letter)'
  BY <1>1, <1>2, <1>3, <1>6, Zenon DEF Covered, Tried
<1>8. PICK r \in Row : row' = [row EXCEPT ![e] = r] /\ r.state = "dispatched"
  BY <1>2, <1>5, Pcs, RowState, Zenon DEF IInv
<1> QED BY <1>2, <1>3, <1>4, <1>5, <1>6, <1>7, <1>8, Actors, OneRow, Zenon

\* Closing the letters of a delivery uncovers it only by forsaking it.
LEMMA SweepRetiresKeeps ==
    ASSUME IInv, SweepRetires
    PROVE  IInv'
<1>1. PICK e : e = Work(Sweep).event  OBVIOUS
<1>2. /\ At(Sweep, "retire") /\ open' = open \ LettersOf(e) /\ Leave(Sweep)
      /\ forsaken' = (IF open' # open /\ e \notin handled THEN forsaken \cup {e} ELSE forsaken)
      /\ UNCHANGED <<row, letters, job, handled>>
  BY <1>1, Zenon DEF SweepRetires
<1>3. flow[Sweep].pc \notin {"idle", "next"}  BY <1>2, Zenon DEF At
<1>4. Narrows(Sweep) /\ flow'[Sweep].pc \notin Sent
  BY <1>2, <1>3, Actors, LeaveNarrows, Pcs, Zenon DEF IInv
<1>5. Steady
  <2> SUFFICES ASSUME NEW x \in Event, NEW n \in Nat, Covered(x, n)  PROVE Covered(x, n)'
    BY Zenon DEF Steady
  <2>1. CASE x \in handled \cup forsaken  BY <1>2, <2>1, Zenon DEF Covered
  <2>2. CASE \E k \in JobId : Tried(k) /\ job[k].event = x
    BY <1>2, <2>2, Zenon DEF Covered, Tried
  <2>3. ASSUME NEW l \in open, l[1] = x, l[2] > n  PROVE Covered(x, n)'
    <3>1. CASE l \in open'  BY <2>3, <3>1, Zenon DEF Covered
    <3>2. CASE l \notin open'
      <4>1. x = e /\ open' # open  BY <1>2, <2>3, <3>2, Zenon DEF LettersOf
      <4>2. e \in handled' \cup forsaken'  BY <1>2, <4>1, Zenon
      <4> QED BY <4>1, <4>2, Zenon DEF Covered
    <3> QED BY <3>1, <3>2
  <2> QED BY <2>1, <2>2, <2>3, Zenon DEF Covered
<1>6. open' \subseteq open  BY <1>2, Zenon
<1> QED BY <1>2, <1>4, <1>5, <1>6, Actors, FlowCloses, Zenon

\* A replay that failed keeps the invariant.
LEMMA SweepBacksOffKeeps ==
    ASSUME IInv, SweepBacksOff
    PROVE  IInv'
<1>1. PICK e, n : e = Work(Sweep).event /\ n = Replays  OBVIOUS
<1>2. /\ At(Sweep, "failed") /\ Leave(Sweep)
      /\ row' = [row EXCEPT ![e].attempts = n, ![e].cooling = TRUE]
      /\ UNCHANGED <<letters, open, job, handled, forsaken>>
  BY <1>1, Zenon DEF SweepBacksOff, ghost
<1>3. flow[Sweep].pc \notin {"idle", "next"}  BY <1>2, Zenon DEF At
<1>4. Narrows(Sweep) /\ flow'[Sweep].pc \notin Sent
  BY <1>2, <1>3, Actors, LeaveNarrows, Pcs, Zenon DEF IInv
<1>5. e \in Event /\ n \in Nat
  <2>1. Work(Sweep) \in Item  BY <1>3, Actors, AtWork, Zenon DEF IInv
  <2>2. Work(Sweep).attempts \in Nat /\ Work(Sweep).event \in Event  BY <2>1, Zenon DEF Item
  <2> QED BY <1>1, <2>2, SMT DEF Replays
<1>6. PICK r \in Row : row' = [row EXCEPT ![e] = r] /\ r.state = row[e].state
  BY <1>2, <1>5, RowAttempts, Zenon DEF IInv
<1>7. r.state \in {"dispatched", "failed"} => Covered(e, 0)
  BY <1>5, <1>6, Zenon DEF IInv, RowFine
<1> QED BY <1>2, <1>4, <1>5, <1>6, <1>7, Actors, OneRow, Zenon

\* A delivery that runs out of replays has a letter, or had one and is covered.
LEMMA SweepLettersKeeps ==
    ASSUME IInv, SweepLetters
    PROVE  IInv'
<1>1. PICK e : e = Work(Sweep).event  OBVIOUS
<1>2. /\ At(Sweep, "failed") /\ Goto(Sweep, "exhaust")
      /\ IF LettersOf(e) = {} THEN Save(e) ELSE UNCHANGED <<letters, open>>
      /\ UNCHANGED <<row, job, handled, forsaken>>
  BY <1>1, Zenon DEF SweepLetters, ghost
<1>3. flow[Sweep].pc \notin {"idle", "next"}  BY <1>2, Zenon DEF At
<1>4. e \in Event /\ Work(Sweep).letter = 0
  BY <1>1, <1>3, Actors, AtWork, WorkFits, Zenon DEF IInv
<1>5. Narrows(Sweep) /\ Work(Sweep)' = Work(Sweep)
  BY <1>2, <1>3, Actors, GotoNarrows, Pcs, Zenon DEF IInv
<1>6. CASE LettersOf(e) = {}
  <2>1. Save(e)  BY <1>2, <1>6, Zenon
  <2>2. Work(Sweep)'.event = e /\ Work(Sweep)'.letter = 0  BY <1>1, <1>4, <1>5, Zenon
  <2> QED BY <1>2, <1>4, <1>5, <2>1, <2>2, Actors, FlowSaves, Zenon
<1>7. CASE LettersOf(e) # {}
  <2>1. UNCHANGED <<letters, open>>  BY <1>2, <1>7, Zenon
  <2>2. Covered(e, 0)  BY <1>7, Zenon DEF LettersOf, IInv
  <2>3. Covered(Work(Sweep).event, Work(Sweep).letter)'
    BY <1>1, <1>2, <1>4, <1>5, <2>1, <2>2, Zenon DEF Covered, Tried
  <2> QED BY <1>2, <1>5, <2>1, <2>3, Actors, OneFlow, Zenon
<1> QED BY <1>6, <1>7

\* So its row may be given up.
LEMMA SweepExhaustsKeeps ==
    ASSUME IInv, SweepExhausts
    PROVE  IInv'
<1>1. PICK e, n : e = Work(Sweep).event /\ n = Replays  OBVIOUS
<1>2. /\ At(Sweep, "exhaust") /\ Leave(Sweep)
      /\ row' = [row EXCEPT ![e].state = "failed", ![e].attempts = n]
      /\ UNCHANGED <<letters, open, job, handled, forsaken>>
  BY <1>1, Zenon DEF SweepExhausts, ghost
<1>3. flow[Sweep].pc \notin {"idle", "next"} /\ Covered(e, Work(Sweep).letter)
  BY <1>1, <1>2, Actors, AcceptedIs, Zenon
<1>4. Work(Sweep).letter = 0  BY <1>3, Actors, WorkFits, Zenon
<1>5. Narrows(Sweep) /\ flow'[Sweep].pc \notin Sent
  BY <1>2, <1>3, Actors, LeaveNarrows, Pcs, Zenon DEF IInv
<1>6. e \in Event /\ n \in Nat
  <2>1. Work(Sweep) \in Item  BY <1>3, Actors, AtWork, Zenon DEF IInv
  <2>2. Work(Sweep).attempts \in Nat /\ Work(Sweep).event \in Event  BY <2>1, Zenon DEF Item
  <2> QED BY <1>1, <2>2, SMT DEF Replays
<1>7. PICK r \in Row : row' = [row EXCEPT ![e] = r] /\ r.state = "failed"
  BY <1>2, <1>6, RowGivenUp, Zenon DEF IInv
<1> QED BY <1>2, <1>3, <1>4, <1>5, <1>6, <1>7, Actors, OneRow, Zenon

\* A failed query of a sweep keeps the invariant.
LEMMA SweepQueryFailsKeeps ==
    ASSUME IInv, SweepQueryFails
    PROVE  IInv'
<1>1. flow[Sweep].pc \notin {"idle", "next"} /\ Leave(Sweep)
  BY Zenon DEF SweepQueryFails, Accepted, At
<1>2. UNCHANGED <<row, letters, open, job, handled, forsaken>>
  BY Zenon DEF SweepQueryFails, store, ghost
<1> QED BY <1>1, <1>2, Actors, LeaveKeeps, Zenon

\* A redrive's batch is of letters there are.
LEMMA RedriveStartKeeps ==
    ASSUME IInv, NEW i \in Instance, RedriveStart(i)
    PROVE  IInv'
<1>1. PICK B : /\ B \in Batches({l \in open : l[1][1] = i})
               /\ Rest(i, {[event |-> l[1], attempts |-> 0, letter |-> l[2]] : l \in B})
  BY Zenon DEF RedriveStart
<1>2. UNCHANGED <<row, letters, open, job, handled, forsaken>>
  BY Zenon DEF RedriveStart, store, ghost
<1>3. PICK S : S = {[event |-> l[1], attempts |-> 0, letter |-> l[2]] : l \in B}  OBVIOUS
<1>4. \A l \in B : l \in letters /\ l = <<l[1], l[2]>> /\ l[1] \in Event /\ l[2] \in Nat
  <2>1. B \subseteq open  BY <1>1, Zenon DEF Batches
  <2>2. open \subseteq letters /\ letters \subseteq Letter  BY Zenon DEF IInv, Types, LetterTypes
  <2>3. \A l \in Letter : l = <<l[1], l[2]>> /\ l[1] \in Event /\ l[2] \in Nat  BY SMT DEF Letter
  <2> QED BY <2>1, <2>2, <2>3, Zenon
<1>5. \A w \in S : w \in Item /\ <<w.event, w.letter>> \in letters
  <2>1. 0 \in Nat  OBVIOUS
  <2> SUFFICES ASSUME NEW l \in B, NEW w, w = [event |-> l[1], attempts |-> 0, letter |-> l[2]]
               PROVE  w \in Item /\ <<w.event, w.letter>> \in letters
    BY <1>3, Zenon
  <2>2. w.event = l[1] /\ w.letter = l[2]  BY Zenon
  <2>3. w \in Item  BY <1>4, <2>1, Zenon DEF Item
  <2> QED BY <1>4, <2>2, <2>3, Zenon
<1>6. /\ FlowTypes' /\ Works(i)' = S /\ flow'[i].pc \in {"idle", "next"}
      /\ \A b \in Actor \ {i} : flow'[b] = flow[b]
  <2>1. S \in SUBSET Item /\ Rest(i, S)  BY <1>1, <1>3, <1>5, Zenon
  <2> QED BY <2>1, Actors, Rests, Zenon DEF IInv
<1>7. \A w \in Works(i)' : Fits(i, w)  BY <1>5, <1>6, Actors, Zenon DEF Fits
<1> QED BY <1>2, <1>6, <1>7, Actors, FlowStarts, Pcs, Zenon

\* A redrive keeps the invariant: the letter it closes is covered by what came after it.
LEMMA RedrivesKeeps ==
    ASSUME IInv, NEW i \in Instance, Redrives(i)
    PROVE  IInv'
<1>0. i \in Actor  BY Actors, Zenon
<1>1. CASE RedriveNext(i)
  <2>1. /\ flow[i].pc = "next" /\ UNCHANGED <<row, letters, open, job, handled, forsaken>>
        /\ \E w \in flow[i].todo : Begin(i, w, flow[i].todo \ {w})
    BY <1>1, Zenon DEF RedriveNext, At, store, ghost
  <2> QED BY <1>0, <2>1, NextKeeps, Zenon
<1>2. CASE RedriveFails(i)
  <2>1. /\ flow[i].pc \notin {"idle", "next"} /\ Leave(i)
        /\ UNCHANGED <<row, letters, open, job, handled, forsaken>>
    BY <1>2, Zenon DEF RedriveFails, At, store, ghost
  <2> QED BY <1>0, <2>1, LeaveKeeps, Zenon
<1>3. CASE RedriveMarks(i)
  <2>1. PICK e, n : e = Work(i).event /\ n = Work(i).letter  OBVIOUS
  <2>2. /\ Accepted(i) /\ Goto(i, "retire") /\ UNCHANGED <<letters, open, job, handled, forsaken>>
        /\ row' = (IF row[e].state = "pending" THEN [row EXCEPT ![e].state = "dispatched"] ELSE row)
    BY <1>3, <2>1, Zenon DEF RedriveMarks, ghost
  <2>3. flow[i].pc \notin {"idle", "next"} /\ Covered(e, n)
    BY <1>0, <2>1, <2>2, AcceptedIs, Zenon
  <2>4. e \in Event /\ n \in Nat  BY <1>0, <2>1, <2>3, AtWork, Zenon DEF IInv
  <2>5. Narrows(i) /\ Work(i)' = Work(i)  BY <1>0, <2>2, <2>3, GotoNarrows, Pcs, Zenon DEF IInv
  <2>6. Covered(Work(i).event, Work(i).letter)'
    BY <2>1, <2>2, <2>3, <2>5, Zenon DEF Covered, Tried
  <2>7. CASE row[e].state = "pending"
    <3>1. row' = [row EXCEPT ![e].state = "dispatched"]  BY <2>2, <2>7, Zenon
    <3>2. PICK r \in Row : row' = [row EXCEPT ![e] = r] /\ r.state = "dispatched"
      BY <2>4, <3>1, Pcs, RowState, Zenon DEF IInv
    <3>3. Covered(e, 0)  BY <2>3, <2>4, CoversLess, Zenon
    <3> QED BY <1>0, <2>2, <2>4, <2>5, <2>6, <3>2, <3>3, OneRow, Zenon
  <2>8. CASE row[e].state # "pending"
    <3>1. row' = row  BY <2>2, <2>8, Zenon
    <3> QED BY <1>0, <2>2, <2>5, <2>6, <3>1, OneFlow, Zenon
  <2> QED BY <2>7, <2>8
<1>4. CASE RedriveRetires(i)
  <2>1. PICK e, m : e = Work(i).event /\ m = Work(i).letter  OBVIOUS
  <2>2. /\ At(i, "retire") /\ open' = open \ {<<e, m>>} /\ Leave(i)
        /\ UNCHANGED <<row, letters, job, handled, forsaken>>
    BY <1>4, <2>1, Zenon DEF RedriveRetires, ghost
  <2>3. flow[i].pc \notin {"idle", "next"} /\ Covered(e, m)
    BY <1>0, <2>1, <2>2, AcceptedIs, Zenon
  <2>4. e \in Event /\ m \in Nat  BY <1>0, <2>1, <2>3, AtWork, Zenon DEF IInv
  <2>5. Narrows(i) /\ flow'[i].pc \notin Sent
    BY <1>0, <2>2, <2>3, LeaveNarrows, Pcs, Zenon DEF IInv
  <2>6. Steady
    <3> SUFFICES ASSUME NEW x \in Event, NEW n \in Nat, Covered(x, n)  PROVE Covered(x, n)'
      BY Zenon DEF Steady
    <3>1. CASE x \in handled \cup forsaken  BY <2>2, <3>1, Zenon DEF Covered
    <3>2. CASE \E k \in JobId : Tried(k) /\ job[k].event = x
      BY <2>2, <3>2, Zenon DEF Covered, Tried
    <3>3. ASSUME NEW l \in open, l[1] = x, l[2] > n  PROVE Covered(x, n)'
      <4>1. CASE l \in open'  BY <3>3, <4>1, Zenon DEF Covered
      <4>2. CASE l \notin open'
        <5>1. l = <<e, m>>  BY <2>2, <4>2, Zenon
        <5>2. x = e /\ m > n  BY <3>3, <5>1, Zenon
        <5>3. CASE e \in handled \cup forsaken  BY <2>2, <5>2, <5>3, Zenon DEF Covered
        <5>4. CASE \E k \in JobId : Tried(k) /\ job[k].event = e
          BY <2>2, <5>2, <5>4, Zenon DEF Covered, Tried
        <5>5. ASSUME NEW p \in open, p[1] = e, p[2] > m  PROVE Covered(x, n)'
          <6>1. p \in Letter  BY Zenon DEF IInv, Types, LetterTypes
          <6>2. p[2] > n /\ p[2] # m
            <7>1. p[2] \in Nat  BY <6>1, SMT DEF Letter
            <7> QED BY <2>4, <5>2, <5>5, <7>1, SMT
          <6>3. p \in open'
            <7>1. p # <<e, m>>  BY <6>2
            <7> QED BY <2>2, <7>1, Zenon
          <6> QED BY <5>2, <5>5, <6>2, <6>3, Zenon DEF Covered
        <5> QED BY <2>3, <5>3, <5>4, <5>5, Zenon DEF Covered
      <4> QED BY <4>1, <4>2
    <3> QED BY <3>1, <3>2, <3>3, Zenon DEF Covered
  <2>7. open' \subseteq open  BY <2>2, Zenon
  <2> QED BY <1>0, <2>2, <2>5, <2>6, <2>7, FlowCloses, Zenon
<1> QED BY <1>1, <1>2, <1>3, <1>4, Zenon DEF Redrives

\* A failed query of a redrive keeps the invariant.
LEMMA RedriveQueryFailsKeeps ==
    ASSUME IInv, NEW i \in Instance, RedriveQueryFails(i)
    PROVE  IInv'
<1>0. i \in Actor  BY Actors, Zenon
<1>1. flow' = [flow EXCEPT ![i] = Idle] /\ UNCHANGED <<row, letters, open, job, handled, forsaken>>
  BY Zenon DEF RedriveQueryFails, store, ghost
<1>2. Rest(i, {})  BY <1>1, Zenon DEF Rest
<1>3. {} \in SUBSET Item  OBVIOUS
<1>4. /\ FlowTypes' /\ Works(i)' = {} /\ flow'[i].pc \in {"idle", "next"}
      /\ \A b \in Actor \ {i} : flow'[b] = flow[b]
  BY <1>0, <1>2, <1>3, Rests, Zenon DEF IInv
<1> QED BY <1>0, <1>1, <1>4, FlowStarts, Pcs, Zenon

-----------------------------------------------------------------------------
\* The invariant holds at first.
LEMMA InitKeeps == Init => IInv
<1> SUFFICES ASSUME Init  PROVE IInv
  OBVIOUS
<1>1. /\ letters = {} /\ open = {} /\ job = [k \in JobId |-> NoJob] /\ flow = [a \in Actor |-> Idle]
  BY Zenon DEF Init
<1>2. PICK o \in Orders, left \in SUBSET Earlier :
        /\ row = [e \in Event |->
                    [state |-> IF e \in left THEN "pending"
                               ELSE IF e \in Earlier THEN "dispatched" ELSE "absent",
                     attempts |-> 0, older |-> o[e], cooling |-> FALSE]]
        /\ handled = Earlier \ left
  BY Zenon DEF Init
<1>3. ASSUME NEW e \in Event
      PROVE  /\ row[e] \in Row
             /\ row[e].state \in {"dispatched", "failed"} => e \in handled
  <2>1. PICK st : st = IF e \in left THEN "pending"
                       ELSE IF e \in Earlier THEN "dispatched" ELSE "absent"
    OBVIOUS
  <2>2. row[e] = [state |-> st, attempts |-> 0, older |-> o[e], cooling |-> FALSE]
    BY <1>2, <2>1, Zenon
  <2>3. st \in State /\ (st \in {"dispatched", "failed"} => e \in Earlier \ left)
    BY <2>1, SMT DEF State
  <2>4. o[e] \in SUBSET Event
    BY IngressAssumption, Zenon DEF IngressAssumption, Orders
  <2>5. 0 \in Nat /\ FALSE \in BOOLEAN  OBVIOUS
  <2> QED BY <1>2, <2>2, <2>3, <2>4, <2>5, Zenon DEF Row
<1>4. row \in [Event -> Row]  BY <1>2, <1>3, Zenon
<1>5. \A e \in Event : row[e].state \in {"dispatched", "failed"} => e \in handled  BY <1>3, Zenon
<1>6. IsFiniteSet(letters)  BY <1>1, FS_EmptySet, Zenon
<1>7. Types
  BY <1>1, <1>4, <1>6, Zenon DEF Types, RowTypes, JobTypes, FlowTypes, LetterTypes, LettersOf
<1>8. \A e \in Event : RowFine(e)  BY <1>5, Zenon DEF RowFine, Covered
<1>9. \A k \in JobId : JobFine(k)
  <2>1. NoJob.state = "none"  BY Zenon DEF NoJob
  <2> QED BY <1>1, <2>1, Zenon DEF JobFine
<1>10. \A a \in Actor : FlowFine(a)
  <2>1. Idle.pc = "idle"  BY Zenon DEF Idle
  <2> QED BY <1>1, <2>1, Pcs, Zenon DEF FlowFine, Works
<1> QED BY <1>1, <1>7, <1>8, <1>9, <1>10, Zenon DEF IInv

\* Every step keeps it.
LEMMA StepKeeps == IInv /\ [Next]_vars => IInv'
<1> SUFFICES ASSUME IInv, [Next]_vars  PROVE IInv'
  OBVIOUS
<1>1. ASSUME NEW a \in Actor, Add(a) \/ AddRejected(a) \/ Inline(a)  PROVE IInv'
  BY <1>1, AddKeeps, InlineKeeps, Zenon
<1>2. ASSUME NEW e \in Event, Receive(e) \/ Live(e) \/ LiveWriteFails(e) \/ CoolsDown(e)  PROVE IInv'
  BY <1>2, ReceiveKeeps, LiveKeeps, LiveWriteFailsKeeps, CoolsDownKeeps, Zenon
<1>3. ASSUME NEW k \in JobId, Worker(k) \/ JobUnlettered(k)  PROVE IInv'
  BY <1>3, TakeKeeps, JobDoneKeeps, JobRetriedKeeps, JobLetteredKeeps, JobFailedKeeps,
     JobUnletteredKeeps, Zenon DEF Worker
<1>4. CASE SweepStart \/ Sweeps \/ SweepQueryFails
  BY <1>4, SweepStartKeeps, SweepNextKeeps, SweepMarksKeeps, SweepRetiresKeeps, SweepBacksOffKeeps,
     SweepLettersKeeps, SweepExhaustsKeeps, SweepQueryFailsKeeps, Zenon DEF Sweeps
<1>5. ASSUME NEW i \in Instance, RedriveStart(i) \/ Redrives(i) \/ RedriveQueryFails(i)  PROVE IInv'
  BY <1>5, RedriveStartKeeps, RedrivesKeeps, RedriveQueryFailsKeeps, Zenon
<1>6. ASSUME UNCHANGED <<row, letters, open, job, flow, handled, forsaken>>  PROVE IInv'
  <2>1. JobTypes'  BY <1>6, Zenon DEF IInv, Types, JobTypes
  <2> QED BY <1>6, <2>1, JobsMove, Zenon DEF Tried
<1>7. ASSUME NEW i \in Instance, SetEnabled(i)  PROVE IInv'
  BY <1>6, <1>7, Zenon DEF SetEnabled, store, ghost
<1>8. CASE UNCHANGED vars  BY <1>6, <1>8, Zenon DEF vars
<1> QED BY <1>1, <1>2, <1>3, <1>4, <1>5, <1>7, <1>8, CrashKeeps, RestartKeeps, Zenon DEF Next

\* The invariant holds of every behaviour.
THEOREM Invariance == Spec => []IInv
<1>1. Init => IInv  BY InitKeeps
<1>2. IInv /\ [Next]_vars => IInv'  BY StepKeeps
<1> QED BY <1>1, <1>2, PTL DEF Spec

\* An acknowledged delivery is handled or kept where some retry finds it, but for the four
\* ways of Kept to lose it: the ingress_events row, the queue, the worker's dead letter, the
\* reconciler and the redrive, in any interleaving and over any crash.
THEOREM DeliveriesAreKept == Spec => []Kept
<1>1. IInv => Kept
  <2> SUFFICES ASSUME IInv, NEW e \in Event, row[e].state # "absent"
               PROVE  e \in handled \/ Recoverable(e) \/ e \in forsaken
    BY Zenon DEF Kept
  <2>1. CASE row[e].state = "pending"  BY <2>1, Zenon DEF Recoverable
  <2>2. CASE row[e].state \in {"dispatched", "failed"}
    <3>1. Covered(e, 0)  BY <2>2, Zenon DEF IInv, RowFine
    <3>2. CASE e \in handled \cup forsaken  BY <3>2, Zenon
    <3>3. CASE \E l \in open : l[1] = e  BY <3>3, Zenon DEF Recoverable
    <3>4. ASSUME NEW k \in JobId, Tried(k), job[k].event = e  PROVE Recoverable(e)
      <4>1. NoJob.state = "none"  BY Zenon DEF NoJob
      <4>2. job[k].state \in {"waiting", "active", "lettered"} /\ job[k].state # "none"
        BY <3>4, Zenon DEF Tried
      <4> QED BY <3>4, <4>1, <4>2, Zenon DEF Recoverable, Queued
    <3> QED BY <3>1, <3>2, <3>3, <3>4, Zenon DEF Covered
  <2>3. row[e].state \in State  BY Zenon DEF IInv, Types, RowTypes, Row
  <2> QED BY <2>1, <2>2, <2>3, SMT DEF State
<1> QED BY <1>1, Invariance, PTL

-----------------------------------------------------------------------------
\* Settled deliveries.

\* Job k is e's, and has not ended.
InQueue(k, e) == job[k] # NoJob /\ job[k].event = e /\ job[k].state \in {"waiting", "active", "lettered"}

\* What a step leaves alone.
LEMMA StaysAway ==
    ASSUME NEW e \in Event, Settled(e), row'[e].state = row[e].state,
           \A k \in JobId : InQueue(k, e)' => InQueue(k, e), \A l \in open' : l[1] = e => l \in open,
           \A a \in Actor : Works(a)' \subseteq Works(a) \/ \A w \in Works(a)' : w.event # e
    PROVE  Settled(e)'
<1>1. ~Busy(e)'  BY Zenon DEF Settled, Busy
<1>2. ~Queued(e)'  BY Zenon DEF Settled, Recoverable, Queued, InQueue
<1>3. \A l \in open' : l[1] # e  BY Zenon DEF Settled, Recoverable
<1>4. row'[e].state \in {"dispatched", "failed"} /\ row'[e].state # "pending"
  BY Zenon DEF Settled, Recoverable
<1> QED BY <1>1, <1>2, <1>3, <1>4, Zenon DEF Settled, Recoverable

\* A flow takes up nothing new, and no job of e.
LEMMA FlowAway ==
    ASSUME NEW e \in Event, Settled(e), NEW a \in Actor, Narrows(a), row'[e] = row[e],
           \A k \in JobId : InQueue(k, e)' => InQueue(k, e), \A l \in open' : l[1] = e => l \in open
    PROVE  Settled(e)'
<1>1. \A b \in Actor : Works(b)' \subseteq Works(b)  BY Zenon DEF Narrows, Works, Work
<1> QED BY <1>1, StaysAway, Zenon

\* A flow at work is at work on another delivery.
LEMMA NotMine ==
    ASSUME IInv, NEW e \in Event, Settled(e), NEW a \in Actor, flow[a].pc \notin {"idle", "next"}
    PROVE  Work(a).event # e
<1>1. Work(a) \in Works(a)  BY AtWork, Zenon DEF IInv
<1> QED BY <1>1, Zenon DEF Settled, Busy

\* The letter of another delivery.
LEMMA SaveAway ==
    ASSUME NEW e, NEW x, x # e, Save(x)
    PROVE  \A l \in open' : l[1] = e => l \in open
<1>1. open' = open \cup {NewLetter(x)}  BY Zenon DEF Save
<1>2. NewLetter(x)[1] = x  BY DEF NewLetter
<1> QED BY <1>1, <1>2, Zenon

\* What is added to the queue is of another delivery.
LEMMA AddAway ==
    ASSUME IInv, NEW e \in Event, Settled(e), NEW a \in Actor, Add(a) \/ AddRejected(a)
    PROVE  Settled(e)'
<1>1. /\ flow[a].pc \notin {"idle", "next"} /\ UNCHANGED <<row, open>>
      /\ Put(a) \/ UNCHANGED job
  BY Zenon DEF Add, AddRejected, At, store
<1>2. PICK pc : pc \in {"queued", "inline"} /\ Goto(a, pc)  BY Zenon DEF Add, AddRejected
<1>3. pc \in PC \ {"idle", "next"}  BY <1>2, SMT DEF PC
<1>4. Narrows(a)  BY <1>1, <1>2, <1>3, GotoNarrows, Zenon DEF IInv
<1>5. ASSUME NEW k \in JobId, InQueue(k, e)'  PROVE InQueue(k, e)
  <2>1. CASE job'[k] = job[k]  BY <1>5, <2>1, Zenon DEF InQueue
  <2>2. CASE job'[k] # job[k]
    <3>1. PICK x, j : x = Work(a).event /\ j = [state |-> "waiting", event |-> x, tries |-> 0, stalls |-> 0]
      OBVIOUS
    <3>2. job' = [job EXCEPT ![KeyOf(a)] = j]  BY <1>1, <2>2, <3>1, Zenon DEF Put
    <3>3. job \in [JobId -> {NoJob} \cup Job]  BY Zenon DEF IInv, Types, JobTypes
    <3>4. job'[k] = j  BY <2>2, <3>2, <3>3, Zenon
    <3>5. job'[k].event = x /\ x # e
      <4>1. j.event = x  BY <3>1
      <4> QED BY <1>1, <3>1, <3>4, <4>1, NotMine, Zenon
    <3> QED BY <1>5, <3>5, Zenon DEF InQueue
  <2> QED BY <2>1, <2>2
<1> QED BY <1>1, <1>4, <1>5, FlowAway, Zenon

\* A row that cools down keeps its state.
LEMMA CoolsAway ==
    ASSUME IInv, NEW e \in Event, Settled(e), NEW x \in Event, CoolsDown(x)
    PROVE  Settled(e)'
<1>1. UNCHANGED <<open, job, flow>>  BY Zenon DEF CoolsDown
<1>2. row'[e].state = row[e].state  BY RowCooled, Zenon DEF CoolsDown, IInv
<1>3. \A a \in Actor : Works(a)' = Works(a)  BY <1>1, Zenon DEF Works, Work
<1>4. \A k \in JobId : InQueue(k, e)' => InQueue(k, e)  BY <1>1, Zenon DEF InQueue
<1> QED BY <1>1, <1>2, <1>3, <1>4, StaysAway, Zenon

\* The live path of a settled delivery is over, and its key is taken.
LEMMA LiveAway ==
    ASSUME IInv, NEW e \in Event, Settled(e), NEW x \in Event,
           Receive(x) \/ Live(x) \/ LiveWriteFails(x)
    PROVE  Settled(e)'
<1>0. x \in Actor  BY Zenon DEF Actor
<1>1. CASE Receive(x)
  <2>1. PICK w : w = [event |-> x, attempts |-> 0, letter |-> 0]  OBVIOUS
  <2>2. w \in Item /\ w.event = x
    <3>1. 0 \in Nat  OBVIOUS
    <3> QED BY <2>1, <3>1, Zenon DEF Item
  <2>3. /\ row[x].state = "absent" /\ Begin(x, w, {}) /\ UNCHANGED <<open, job>>
        /\ \E S \in SUBSET Event : row' = [row EXCEPT ![x].state = "pending", ![x].older = S]
    BY <1>1, <2>1, Zenon DEF Receive
  <2>4. x # e
    <3>1. "absent" \notin {"dispatched", "failed"}  OBVIOUS
    <3> QED BY <2>3, <3>1, Zenon DEF Settled
  <2>5. {} \in SUBSET Item  OBVIOUS
  <2>6. Works(x)' = {w} \cup {} /\ \A b \in Actor \ {x} : flow'[b] = flow[b]
    BY <1>0, <2>2, <2>3, <2>5, Begins, Zenon DEF IInv
  <2>7. \A a \in Actor : Works(a)' \subseteq Works(a) \/ \A v \in Works(a)' : v.event # e
    <3>1. \A a \in Actor \ {x} : Works(a)' = Works(a)  BY <2>6, Zenon DEF Works, Work
    <3> QED BY <2>2, <2>4, <2>6, <3>1, Zenon
  <2>8. row'[e] = row[e]
    <3>1. row \in [Event -> Row]  BY Zenon DEF IInv, Types, RowTypes
    <3> QED BY <2>3, <2>4, <3>1, SMT
  <2>9. \A k \in JobId : InQueue(k, e)' => InQueue(k, e)  BY <2>3, Zenon DEF InQueue
  <2>10. \A l \in open' : l[1] = e => l \in open  BY <2>3, Zenon
  <2> QED BY <2>7, <2>8, <2>9, <2>10, StaysAway, Zenon
<1>2. CASE Live(x) \/ LiveWriteFails(x)
  <2>1. /\ flow[x].pc \notin {"idle", "next"} /\ UNCHANGED job
        /\ Leave(x) \/ Goto(x, "letter")
    BY <1>2, Zenon DEF Live, Mark, Marks, DeadLetter, LiveWriteFails, Accepted, At
  <2>2. Narrows(x)
    BY <1>0, <2>1, LeaveNarrows, GotoNarrows, Pcs, Zenon DEF IInv
  <2>3. x # e  BY <1>0, <2>1, NotMine, WorkFits, Zenon
  <2>4. row'[e] = row[e]
    <3>1. row \in [Event -> Row]  BY Zenon DEF IInv, Types, RowTypes
    <3>2. \/ row' = row \/ row' = [row EXCEPT ![x].state = "dispatched"]
          \/ row' = [row EXCEPT ![x].attempts = @ + 1, ![x].cooling = TRUE]
      BY <1>2, Zenon DEF Live, Mark, Marks, DeadLetter, LiveWriteFails, store
    <3> QED BY <2>3, <3>1, <3>2, SMT
  <2>5. \A l \in open' : l[1] = e => l \in open
    <3>1. UNCHANGED open \/ Save(x)
      BY <1>2, Zenon DEF Live, Mark, DeadLetter, LiveWriteFails, store
    <3> QED BY <2>3, <3>1, SaveAway, Zenon
  <2>6. \A k \in JobId : InQueue(k, e)' => InQueue(k, e)  BY <2>1, Zenon DEF InQueue
  <2> QED BY <1>0, <2>2, <2>4, <2>5, <2>6, FlowAway, Zenon
<1> QED BY <1>1, <1>2

\* A step of the queue: the jobs there were, and no more.
LEMMA QueueAway ==
    ASSUME NEW e \in Event, Settled(e), UNCHANGED <<row, flow>>,
           \A k \in JobId : InQueue(k, e)' => InQueue(k, e), \A l \in open' : l[1] = e => l \in open
    PROVE  Settled(e)'
<1>1. \A a \in Actor : Works(a)' = Works(a)  BY Zenon DEF Works, Work
<1> QED BY <1>1, StaysAway, Zenon

\* The queue's jobs are of other deliveries.
LEMMA WorkerAway ==
    ASSUME IInv, NEW e \in Event, Settled(e), NEW k \in JobId, Worker(k) \/ JobUnlettered(k)
    PROVE  Settled(e)'
<1>1. job[k].state \in {"waiting", "active", "lettered"} /\ UNCHANGED <<row, flow>>
  BY Zenon DEF Worker, Take, JobDone, JobRetried, JobLettered, JobFailed, JobUnlettered, store
<1>2. job[k].state # "none"  BY <1>1
<1>3. job[k] \in Job  BY <1>2, JobIs, Zenon DEF IInv
<1>4. job[k].event # e
  <2>1. NoJob.state = "none"  BY Zenon DEF NoJob
  <2> QED BY <1>1, <1>2, <2>1, Zenon DEF Settled, Recoverable, Queued
<1>5. job'[k].event = job[k].event /\ \A i \in JobId \ {k} : job'[i] = job[i]
  <2>1. job \in [JobId -> {NoJob} \cup Job]  BY Zenon DEF IInv, Types, JobTypes
  <2>2. CASE job' = [job EXCEPT ![k].state = "active"] \/ job' = [job EXCEPT ![k].state = "lettered"]
    BY <1>3, <2>1, <2>2, SMT DEF Job
  <2>3. CASE job' = [job EXCEPT ![k].state = "waiting", ![k].tries = @ + 1]
    BY <1>3, <2>1, <2>3, SMT DEF Job
  <2>4. CASE End(k)
    <3>1. Ended(k).event = job[k].event  BY <1>2, EndedIs, Zenon DEF IInv
    <3> QED BY <2>1, <2>4, <3>1, Zenon DEF End
  <2> QED BY <2>2, <2>3, <2>4, Zenon DEF Worker, Take, JobDone, JobRetried, JobLettered, JobFailed,
             JobUnlettered
<1>6. \A i \in JobId : InQueue(i, e)' => InQueue(i, e)  BY <1>4, <1>5, Zenon DEF InQueue
<1>7. \A l \in open' : l[1] = e => l \in open
  <2>1. UNCHANGED open \/ Save(job[k].event)
    BY Zenon DEF Worker, Take, JobDone, JobRetried, JobLettered, JobFailed, JobUnlettered, store
  <2> QED BY <1>4, <2>1, SaveAway, Zenon
<1> QED BY <1>1, <1>6, <1>7, QueueAway, Zenon

\* A sweep takes pending rows only.
LEMMA SweepAway ==
    ASSUME IInv, NEW e \in Event, Settled(e), SweepStart \/ Sweeps \/ SweepQueryFails
    PROVE  Settled(e)'
<1>1. UNCHANGED job
  BY Zenon DEF SweepStart, Sweeps, SweepNext, SweepMarks, SweepRetires, SweepBacksOff, SweepLetters,
     SweepExhausts, SweepQueryFails
<1>2. \A k \in JobId : InQueue(k, e)' => InQueue(k, e)  BY <1>1, Zenon DEF InQueue
<1>3. CASE SweepStart
  <2>0. PICK D : D = {d \in Oldest : ~row[d].cooling}  OBVIOUS
  <2>1. PICK S : S = {[event |-> x, attempts |-> row[x].attempts, letter |-> 0] : x \in D}
    OBVIOUS
  <2>2. Rest(Sweep, S) /\ UNCHANGED <<row, open>>  BY <1>3, <2>0, <2>1, Zenon DEF SweepStart, store
  <2>3. e \notin D  BY <2>0, Zenon DEF Oldest, Settled, Recoverable, Stale
  <2>4. \A w \in S : w \in Item /\ w.event # e
    <3>1. 0 \in Nat  OBVIOUS
    <3>2. \A x \in D : x \in Event /\ row[x].attempts \in Nat
      BY <2>0, Zenon DEF Oldest, Stale, IInv, Types, RowTypes, Row
    <3> SUFFICES ASSUME NEW x \in D, NEW w,
                        w = [event |-> x, attempts |-> row[x].attempts, letter |-> 0]
                 PROVE  w \in Item /\ w.event # e
      BY <2>1, Zenon
    <3>3. w.event = x  BY Zenon
    <3>4. w \in Item  BY <3>1, <3>2, Zenon DEF Item
    <3> QED BY <2>3, <3>3, <3>4, Zenon
  <2>5. Works(Sweep)' = S /\ \A b \in Actor \ {Sweep} : flow'[b] = flow[b]
    BY <2>2, <2>4, Actors, Rests, Zenon DEF IInv
  <2>6. \A a \in Actor : Works(a)' \subseteq Works(a) \/ \A v \in Works(a)' : v.event # e
    <3>1. \A a \in Actor \ {Sweep} : Works(a)' = Works(a)  BY <2>5, Zenon DEF Works, Work
    <3> QED BY <2>4, <2>5, <3>1, Zenon
  <2>7. row'[e] = row[e] /\ \A l \in open' : l[1] = e => l \in open  BY <2>2, Zenon
  <2> QED BY <1>2, <2>6, <2>7, StaysAway, Zenon
<1>4. CASE SweepNext
  <2>1. PICK w \in flow[Sweep].todo : \/ Begin(Sweep, w, flow[Sweep].todo \ {w})
                                      \/ Rest(Sweep, flow[Sweep].todo \ {w})
    BY <1>4, Zenon DEF SweepNext
  <2>2. flow[Sweep].pc = "next" /\ UNCHANGED <<row, open>>  BY <1>4, Zenon DEF SweepNext, At, store
  <2>3. Narrows(Sweep)  BY <2>1, <2>2, Actors, NextNarrows, Zenon DEF IInv
  <2>4. row'[e] = row[e] /\ \A l \in open' : l[1] = e => l \in open  BY <2>2, Zenon
  <2> QED BY <1>2, <2>3, <2>4, Actors, FlowAway, Zenon
<1>5. CASE \/ SweepMarks \/ SweepRetires \/ SweepBacksOff \/ SweepLetters \/ SweepExhausts
           \/ SweepQueryFails
  <2>1. PICK x : x = Work(Sweep).event  OBVIOUS
  <2>2. /\ flow[Sweep].pc \notin {"idle", "next"}
        /\ Leave(Sweep) \/ Goto(Sweep, "retire") \/ Goto(Sweep, "exhaust")
    BY <1>5, Zenon DEF SweepMarks, SweepRetires, SweepBacksOff, SweepLetters, SweepExhausts,
       SweepQueryFails, Accepted, At
  <2>3. Narrows(Sweep)
    BY <2>2, Actors, LeaveNarrows, GotoNarrows, Pcs, Zenon DEF IInv
  <2>4. x # e  BY <2>1, <2>2, Actors, NotMine, Zenon
  <2>5. row'[e] = row[e]
    <3>1. row \in [Event -> Row]  BY Zenon DEF IInv, Types, RowTypes
    <3>2. PICK n : n = Replays  OBVIOUS
    <3>3. \/ row' = row \/ row' = [row EXCEPT ![x].state = "dispatched"]
          \/ row' = [row EXCEPT ![x].attempts = n, ![x].cooling = TRUE]
          \/ row' = [row EXCEPT ![x].state = "failed", ![x].attempts = n]
      BY <1>5, <2>1, <3>2, Zenon DEF SweepMarks, SweepRetires, SweepBacksOff, SweepLetters, SweepExhausts,
         SweepQueryFails, store
    <3> QED BY <2>4, <3>1, <3>3, SMT
  <2>6. \A l \in open' : l[1] = e => l \in open
    <3>1. open' \subseteq open \/ Save(x)
      BY <1>5, <2>1, Zenon DEF SweepMarks, SweepRetires, SweepBacksOff, SweepLetters, SweepExhausts,
         SweepQueryFails, store
    <3> QED BY <2>4, <3>1, SaveAway, Zenon
  <2> QED BY <1>2, <2>3, <2>5, <2>6, Actors, FlowAway, Zenon
<1> QED BY <1>3, <1>4, <1>5, Zenon DEF Sweeps

\* A redrive takes open letters only.
LEMMA RedriveAway ==
    ASSUME IInv, NEW e \in Event, Settled(e), NEW i \in Instance,
           RedriveStart(i) \/ Redrives(i) \/ RedriveQueryFails(i)
    PROVE  Settled(e)'
<1>0. i \in Actor  BY Actors, Zenon
<1>1. UNCHANGED job
  BY Zenon DEF RedriveStart, Redrives, RedriveNext, RedriveMarks, RedriveRetires, RedriveFails,
     RedriveQueryFails
<1>2. \A k \in JobId : InQueue(k, e)' => InQueue(k, e)  BY <1>1, Zenon DEF InQueue
<1>3. CASE RedriveStart(i)
  <2>1. PICK B : /\ B \in Batches({l \in open : l[1][1] = i})
                 /\ Rest(i, {[event |-> l[1], attempts |-> 0, letter |-> l[2]] : l \in B})
    BY <1>3, Zenon DEF RedriveStart
  <2>2. PICK S : S = {[event |-> l[1], attempts |-> 0, letter |-> l[2]] : l \in B}  OBVIOUS
  <2>3. UNCHANGED <<row, open>>  BY <1>3, Zenon DEF RedriveStart, store
  <2>4. \A l \in B : l[1] # e /\ l[1] \in Event /\ l[2] \in Nat
    <3>1. B \subseteq open  BY <2>1, Zenon DEF Batches
    <3>2. open \subseteq Letter  BY Zenon DEF IInv, Types, LetterTypes
    <3>3. \A l \in Letter : l[1] \in Event /\ l[2] \in Nat  BY SMT DEF Letter
    <3> QED BY <3>1, <3>2, <3>3, Zenon DEF Settled, Recoverable
  <2>5. \A w \in S : w \in Item /\ w.event # e
    <3>1. 0 \in Nat  OBVIOUS
    <3> SUFFICES ASSUME NEW l \in B, NEW w, w = [event |-> l[1], attempts |-> 0, letter |-> l[2]]
                 PROVE  w \in Item /\ w.event # e
      BY <2>2, Zenon
    <3>2. w.event = l[1]  BY Zenon
    <3>3. w \in Item  BY <2>4, <3>1, Zenon DEF Item
    <3> QED BY <2>4, <3>2, <3>3, Zenon
  <2>6. Works(i)' = S /\ \A b \in Actor \ {i} : flow'[b] = flow[b]
    <3>1. S \in SUBSET Item /\ Rest(i, S)  BY <2>1, <2>2, <2>5, Zenon
    <3> QED BY <1>0, <3>1, Rests, Zenon DEF IInv
  <2>7. \A a \in Actor : Works(a)' \subseteq Works(a) \/ \A v \in Works(a)' : v.event # e
    <3>1. \A a \in Actor \ {i} : Works(a)' = Works(a)  BY <2>6, Zenon DEF Works, Work
    <3> QED BY <2>5, <2>6, <3>1, Zenon
  <2>8. row'[e] = row[e] /\ \A l \in open' : l[1] = e => l \in open  BY <2>3, Zenon
  <2> QED BY <1>2, <2>7, <2>8, StaysAway, Zenon
<1>4. CASE RedriveNext(i)
  <2>1. PICK w \in flow[i].todo : Begin(i, w, flow[i].todo \ {w})  BY <1>4, Zenon DEF RedriveNext
  <2>2. flow[i].pc = "next" /\ UNCHANGED <<row, open>>  BY <1>4, Zenon DEF RedriveNext, At, store
  <2>3. Narrows(i)  BY <1>0, <2>1, <2>2, NextNarrows, Zenon DEF IInv
  <2>4. row'[e] = row[e] /\ \A l \in open' : l[1] = e => l \in open  BY <2>2, Zenon
  <2> QED BY <1>0, <1>2, <2>3, <2>4, FlowAway, Zenon
<1>5. CASE RedriveQueryFails(i)
  <2>1. flow' = [flow EXCEPT ![i] = Idle] /\ UNCHANGED <<row, open>>
    BY <1>5, Zenon DEF RedriveQueryFails, store
  <2>2. Rest(i, {}) /\ {} \in SUBSET Item  BY <2>1, Zenon DEF Rest
  <2>3. Narrows(i)
    <3>1. FlowTypes' /\ Works(i)' = {} /\ \A b \in Actor \ {i} : flow'[b] = flow[b]
      BY <1>0, <2>2, Rests, Zenon DEF IInv
    <3> QED BY <3>1, Zenon DEF Narrows
  <2>4. row'[e] = row[e] /\ \A l \in open' : l[1] = e => l \in open  BY <2>1, Zenon
  <2> QED BY <1>0, <1>2, <2>3, <2>4, FlowAway, Zenon
<1>6. CASE RedriveMarks(i) \/ RedriveRetires(i) \/ RedriveFails(i)
  <2>1. PICK x : x = Work(i).event  OBVIOUS
  <2>2. flow[i].pc \notin {"idle", "next"} /\ (Leave(i) \/ Goto(i, "retire"))
    BY <1>6, Zenon DEF RedriveMarks, RedriveRetires, RedriveFails, Accepted, At
  <2>3. Narrows(i)  BY <1>0, <2>2, LeaveNarrows, GotoNarrows, Pcs, Zenon DEF IInv
  <2>4. x # e  BY <1>0, <2>1, <2>2, NotMine, Zenon
  <2>5. row'[e] = row[e]
    <3>1. row \in [Event -> Row]  BY Zenon DEF IInv, Types, RowTypes
    <3>2. row' = row \/ row' = [row EXCEPT ![x].state = "dispatched"]
      BY <1>6, <2>1, Zenon DEF RedriveMarks, RedriveRetires, RedriveFails, store
    <3> QED BY <2>4, <3>1, <3>2, SMT
  <2>6. \A l \in open' : l[1] = e => l \in open
    BY <1>6, Zenon DEF RedriveMarks, RedriveRetires, RedriveFails, store
  <2> QED BY <1>0, <1>2, <2>3, <2>5, <2>6, FlowAway, Zenon
<1> QED BY <1>3, <1>4, <1>5, <1>6, Zenon DEF Redrives

\* A crash or a restart brings back what was in the queue, and no more.
LEMMA ProcessAway ==
    ASSUME IInv, NEW e \in Event, Settled(e), Crash \/ Restart
    PROVE  Settled(e)'
<1>1. UNCHANGED <<row, open>>  BY Zenon DEF Crash, Restart, store
<1>2. row'[e] = row[e] /\ \A l \in open' : l[1] = e => l \in open  BY <1>1, Zenon
<1>3. CASE Crash
  <2>1. flow' = [a \in Actor |-> Idle] /\ UNCHANGED job  BY <1>3, Zenon DEF Crash
  <2>2. \A a \in Actor : Works(a)' = {}  BY <2>1, Zenon DEF Works
  <2>3. \A k \in JobId : InQueue(k, e)' => InQueue(k, e)  BY <2>1, Zenon DEF InQueue
  <2> QED BY <1>2, <2>2, <2>3, StaysAway, Zenon
<1>4. CASE Restart
  <2>1. /\ job' = [k \in JobId |-> IF GivenUp(k) THEN Ended(k)
                                   ELSE IF Held(k) THEN [job[k] EXCEPT !.state = "waiting", !.stalls = @ + 1]
                                   ELSE job[k]]
        /\ UNCHANGED flow
    BY <1>4, Zenon DEF Restart
  <2>2. ASSUME NEW k \in JobId, InQueue(k, e)'  PROVE InQueue(k, e)
    <3>1. NoJob.state = "none"  BY Zenon DEF NoJob
    <3>2. CASE GivenUp(k)
      <4>1. job'[k].state = "ended"  BY <2>1, <3>2, Zenon DEF Ended
      <4>2. "ended" \notin {"waiting", "active", "lettered"}  OBVIOUS
      <4> QED BY <2>2, <4>1, <4>2, Zenon DEF InQueue
    <3>3. CASE ~GivenUp(k) /\ Held(k)
      <4>1. job[k].state \in {"active", "lettered"}  BY <3>3, Zenon DEF Held
      <4>2. job[k].state # "none" /\ job[k].state \in {"waiting", "active", "lettered"}  BY <4>1
      <4>3. job[k] \in Job  BY <4>2, JobIs, Zenon DEF IInv
      <4>4. job'[k] = [job[k] EXCEPT !.state = "waiting", !.stalls = @ + 1]  BY <2>1, <3>3, Zenon
      <4>5. job'[k].event = job[k].event  BY <4>3, <4>4, SMT DEF Job
      <4> QED BY <2>2, <3>1, <4>2, <4>5, Zenon DEF InQueue
    <3>4. CASE ~GivenUp(k) /\ ~Held(k)
      <4>1. job'[k] = job[k]  BY <2>1, <3>4, Zenon
      <4> QED BY <2>2, <4>1, Zenon DEF InQueue
    <3> QED BY <3>2, <3>3, <3>4
  <2> QED BY <1>1, <1>2, <2>1, <2>2, QueueAway, Zenon
<1> QED BY <1>3, <1>4

\* No step brings a settled delivery back.
LEMMA StepSettles ==
    ASSUME IInv, [Next]_vars, NEW e \in Event, Settled(e)
    PROVE  Settled(e)'
<1>1. ASSUME UNCHANGED <<row, open, job, flow>>  PROVE Settled(e)'
  BY <1>1, QueueAway, Zenon DEF InQueue
<1>2. ASSUME NEW a \in Actor, Add(a) \/ AddRejected(a) \/ Inline(a)  PROVE Settled(e)'
  <2>1. CASE Inline(a)
    <3>1. /\ flow[a].pc \notin {"idle", "next"} /\ UNCHANGED <<row, open, job>>
          /\ Goto(a, "dispatched") \/ Goto(a, "failed")
      BY <2>1, Zenon DEF Inline, At, store
    <3>2. "dispatched" \in PC \ {"idle", "next"} /\ "failed" \in PC \ {"idle", "next"}
      BY SMT DEF PC
    <3>3. Narrows(a)  BY <3>1, <3>2, GotoNarrows, Zenon DEF IInv
    <3>4. row'[e] = row[e] /\ \A l \in open' : l[1] = e => l \in open  BY <3>1, Zenon
    <3>5. \A k \in JobId : InQueue(k, e)' => InQueue(k, e)  BY <3>1, Zenon DEF InQueue
    <3> QED BY <3>3, <3>4, <3>5, FlowAway, Zenon
  <2> QED BY <1>2, <2>1, AddAway, Zenon
<1>3. ASSUME NEW i \in Instance, SetEnabled(i)  PROVE Settled(e)'
  BY <1>1, <1>3, Zenon DEF SetEnabled, store
<1>4. CASE UNCHANGED vars  BY <1>1, <1>4, Zenon DEF vars
<1> QED BY <1>2, <1>3, <1>4, LiveAway, CoolsAway, WorkerAway, SweepAway, RedriveAway, ProcessAway, Zenon DEF Next

\* A settled delivery stays settled: no retry of the provider, no sweep, no redrive and no
\* restarted worker brings it back.
THEOREM SettledStays == Spec => StaysSettled
<1>1. IInv /\ [Next]_vars => [\A e \in Event : Settled(e) => Settled(e)']_vars
  BY StepSettles, Zenon
<1>2. Spec => [][Next]_vars  BY PTL DEF Spec
<1> QED BY <1>1, <1>2, Invariance, PTL DEF StaysSettled
==============================================================================
