----------------------- MODULE OutgoingMessagesProofs -----------------------
(***************************************************************************)
(* Proofs about OutgoingMessages, for any messages, reactors and faults:   *)
(* what a message ends as, whichever of its writers came first.            *)
(*                                                                         *)
(* Nothing relates two messages, so the invariant is local to one.  It     *)
(* follows the race of the request and its echo for the unique id: at most *)
(* one of the two rows is found under the id (Holder), it is never taken   *)
(* away, and what the request still holds says which of them it will be.   *)
(***************************************************************************)
EXTENDS OutgoingMessages, TLAPS

\* The sender's row has the engine's id.
Known(m) == own[m] # NoRow /\ own[m].known

\* Where a request is, and what it has of its message.
RequestFine(m) ==
    /\ pc[m] \in {"idle", "sending", "rejected"} => result[m] = "none"
    /\ pc[m] = "idle" => own[m] = NoRow /\ m \notin sent
    /\ pc[m] \notin {"idle", "done"} => kind[m].origin # "phone"
    /\ pc[m] \in {"rejected", "dropping"} => kind[m].origin = "api"
    /\ pc[m] \notin {"idle", "done"} /\ kind[m].origin = "api" => own[m] # NoRow
    /\ kind[m].origin = "phone" => own[m] = NoRow
    /\ kind[m].origin = "bulk" /\ pc[m] # "done" => own[m] = NoRow
    /\ pc[m] = "rejected" => m \in hit
    /\ create[m] = "none" <=> m \notin sent

\* One row at most is found under the id; the other is not read or written by it.
RaceFine(m) ==
    /\ Known(m) => pc[m] = "done" /\ echo[m] = NoRow /\ own[m].status # "pending"
    /\ own[m] # NoRow /\ ~Known(m) => own[m].reactions = {}
    /\ pc[m] \in {"merging", "dropping"} => echo[m] # NoRow
    /\ create[m] \in {"none", "event", "hook"} => echo[m] = NoRow

\* Why a row says FAILED.
FailedFine(m) ==
    \A row \in {own[m], echo[m]} \ {NoRow} :
        row.status = "failed" => \/ ack[m]["failed"] # "none"
                                 \/ row.reaped
                                 \/ pc[m] = "done" /\ result[m] = "none" /\ m \in hit

\* What the chain of reactions has read is what it will find when it writes.
ChainFine(m) ==
    /\ Holder(m) = NoRow => read[m] = NoRow /\ reacted[m] = {}
    /\ kind[m].payload # "bytes" /\ Holder(m) # NoRow =>
          /\ Holder(m).reactions = reacted[m]
          /\ read[m] # NoRow => read[m].reactions = reacted[m]
    /\ m \notin crossed /\ read[m] # NoRow => read[m].media = Holder(m).media

\* A message no fault struck: it is in the table, and with its bytes.
SoundFine(m) ==
    m \notin hit =>
        /\ create[m] = "done" => Holder(m) # NoRow
        /\ pc[m] # "idle" /\ pc[m] # "sending" /\ m \in sent /\ kind[m].origin # "phone"
              => result[m] = "id"
        /\ pc[m] = "done" /\ m \in sent /\ kind[m].origin # "phone"
              => Known(m) \/ (own[m] = NoRow /\ echo[m] # NoRow)
        /\ m \notin crossed /\ kind[m].payload = "bytes" =>
              /\ Known(m) => own[m].media = "bytes"
              /\ ~Known(m) /\ echo[m] # NoRow
                    /\ (kind[m].origin = "phone" \/ pc[m] \in {"dropping", "done"})
                 => echo[m].media = "bytes"

Fine(m) == RequestFine(m) /\ RaceFine(m) /\ FailedFine(m) /\ ChainFine(m) /\ SoundFine(m)

\* The inductive invariant.
IInv == TypeOK /\ \A m \in Msg : Fine(m)

-----------------------------------------------------------------------------
\* Types.

PCs == {"idle", "sending", "accepted", "rejected", "merging", "dropping", "done"}

LEMMA Budget ==
    ASSUME TypeOK, NEW m \in Msg, NEW kinds, Sound \/ Fault(kinds, m)
    PROVE  faults' \in 0..MaxFaults /\ hit' \subseteq Msg
BY OutgoingAssumption DEF TypeOK, Sound, Fault, OutgoingAssumption

LEMMA HolderType ==
    ASSUME TypeOK, NEW m \in Msg
    PROVE  Holder(m) \in Row \cup {NoRow}
BY DEF TypeOK, Holder

LEMMA NewRowType ==
    ASSUME TypeOK, NEW m \in Msg, NEW status \in Status, NEW known \in BOOLEAN
    PROVE  NewRow(m, status, known) \in Row
<1>1. kind[m].payload \in Media
  BY OutgoingAssumption DEF TypeOK, Kind, OutgoingAssumption, Media
<1> QED BY <1>1 DEF NewRow, Row

\* A row written back where it was found is a row.
LEMMA UpdateType ==
    ASSUME TypeOK, NEW m \in Msg, NEW row \in Row, UpdateHolder(m, row)
    PROVE  own' \in [Msg -> Row \cup {NoRow}] /\ echo' \in [Msg -> Row \cup {NoRow}]
BY DEF TypeOK, UpdateHolder

LEMMA ApplyType ==
    ASSUME NEW work \in Work, NEW set \in SUBSET Reactor
    PROVE  Apply(work, set) \in SUBSET Reactor
BY DEF Apply, Work

\* The head of a chain is work, and the rest is a chain.
LEMMA ChainType ==
    ASSUME NEW q \in Seq(Work), q # <<>>
    PROVE  Head(q) \in Work /\ Tail(q) \in Seq(Work)
OBVIOUS

LEMMA FailedRowType ==
    ASSUME TypeOK, NEW m \in Msg, own[m] \in Row
    PROVE  FailedRow(m) \in Row /\ [FailedRow(m) EXCEPT !.reaped = TRUE] \in Row
BY DEF FailedRow, Row, Status, Media

LEMMA SendTypes ==
    ASSUME TypeOK, NEW m \in Msg, Fine(m), SendStep(m) \/ Begin(m) \/ Transmit(m) \/ Accept(m) \/ Reject(m)
    PROVE  TypeOK'
<1> USE DEF rows, send, mutation
<1>1. CASE Begin(m)
  <2>1. NewRow(m, "pending", FALSE) \in Row  BY NewRowType DEF Status
  <2>2. own' \in [Msg -> Row \cup {NoRow}]  BY <1>1, <2>1 DEF Begin, TypeOK
  <2> QED BY <1>1, <2>2 DEF Begin, TypeOK, Sound
<1>2. CASE Transmit(m)
  BY <1>2 DEF Transmit, TypeOK, Sound
<1>3. CASE Accept(m)
  <2>1. faults' \in 0..MaxFaults /\ hit' \subseteq Msg  BY <1>3, Budget DEF Accept
  <2> QED BY <1>3, <2>1 DEF Accept, TypeOK
<1>4. CASE Reject(m)
  <2>1. faults' \in 0..MaxFaults /\ hit' \subseteq Msg  BY <1>4, Budget DEF Reject
  <2> QED BY <1>4, <2>1 DEF Reject, TypeOK
<1>5. CASE SaveFailed(m)
  <2>1. faults' \in 0..MaxFaults /\ hit' \subseteq Msg  BY <1>5, Budget DEF SaveFailed
  <2>2. own[m] \in Row  BY <1>5 DEF SaveFailed, Fine, RequestFine, TypeOK
  <2>a. FailedRow(m) \in Row  BY <2>2, FailedRowType
  <2>b. own' = [own EXCEPT ![m] = FailedRow(m)] \/ own' = own  BY <1>5 DEF SaveFailed
  <2>3. own' \in [Msg -> Row \cup {NoRow}]  BY <2>a, <2>b DEF TypeOK
  <2> QED BY <1>5, <2>1, <2>3 DEF SaveFailed, TypeOK
<1>6. CASE SaveSent(m)
  <2>1. faults' \in 0..MaxFaults /\ hit' \subseteq Msg  BY <1>6, Budget DEF SaveSent
  <2>2. own[m] \in Row  BY <1>6 DEF SaveSent, Fine, RequestFine, TypeOK
  <2>3. kind[m].payload \in Media
    BY OutgoingAssumption DEF TypeOK, Kind, OutgoingAssumption, Media
  <2>4. SentRow(m) \in Row
    BY <2>2, <2>3 DEF SentRow, Row, Status
  <2>5. own' \in [Msg -> Row \cup {NoRow}]
    BY <1>6, <2>4 DEF SaveSent, TypeOK
  <2> QED BY <1>6, <2>1, <2>5 DEF SaveSent, TypeOK
<1>7. CASE SaveBulk(m)
  <2>1. faults' \in 0..MaxFaults /\ hit' \subseteq Msg  BY <1>7, Budget DEF SaveBulk
  <2>2. NewRow(m, "sent", result[m] = "id") \in Row  BY NewRowType DEF Status
  <2>3. own' \in [Msg -> Row \cup {NoRow}]  BY <1>7, <2>2 DEF SaveBulk, TypeOK
  <2> QED BY <1>7, <2>1, <2>3 DEF SaveBulk, TypeOK
<1>8. CASE Merge(m)
  <2>1. faults' \in 0..MaxFaults /\ hit' \subseteq Msg  BY <1>8, Budget DEF Merge
  <2>2. echo[m] \in Row  BY <1>8 DEF Merge, Fine, RaceFine, TypeOK
  <2>3. Merged(m) \in Row  BY <2>2 DEF Merged, Row, Status, Media
  <2>4. echo' \in [Msg -> Row \cup {NoRow}]  BY <1>8, <2>3 DEF Merge, TypeOK
  <2> QED BY <1>8, <2>1, <2>4 DEF Merge, TypeOK
<1>9. CASE Drop(m)
  <2>1. faults' \in 0..MaxFaults /\ hit' \subseteq Msg  BY <1>9, Budget DEF Drop
  <2> QED BY <1>9, <2>1 DEF Drop, TypeOK
<1> QED BY <1>1, <1>2, <1>3, <1>4, <1>5, <1>6, <1>7, <1>8, <1>9 DEF SendStep

LEMMA EventTypes ==
    ASSUME TypeOK, NEW m \in Msg, Fine(m), EventStep(m) \/ ReapRow(m)
    PROVE  TypeOK'
<1> USE DEF rows, send, mutation
<1>1. CASE EchoArrives(m)
  BY <1>1 DEF EchoArrives, TypeOK, Sound
<1>2. CASE EchoPersists(m)
  <2>1. faults' \in 0..MaxFaults /\ hit' \subseteq Msg  BY <1>2, Budget DEF EchoPersists
  <2>2. NewRow(m, "sent", TRUE) \in Row  BY NewRowType DEF Status
  <2>3. \A media \in EchoMedia(m) : [NewRow(m, "sent", TRUE) EXCEPT !.media = media] \in Row
    BY <2>2 DEF EchoMedia, Row, Media
  <2>4. echo' \in [Msg -> Row \cup {NoRow}]  BY <1>2, <2>3 DEF EchoPersists, TypeOK
  <2> QED BY <1>2, <2>1, <2>4 DEF EchoPersists, TypeOK
<1>3. CASE ReadReactions(m)
  <2>1. Tail(queue[m]) \in Seq(Work)  BY <1>3, ChainType DEF ReadReactions, TypeOK
  <2>2. Holder(m) \in Row \cup {NoRow}  BY HolderType
  <2>3. queue' \in [Msg -> Seq(Work)]  BY <1>3, <2>1 DEF ReadReactions, Dequeue, TypeOK
  <2>4. read' \in [Msg -> Row \cup {NoRow}]  BY <1>3, <2>2 DEF ReadReactions, TypeOK
  <2> QED BY <1>3, <2>3, <2>4 DEF ReadReactions, TypeOK, Sound
<1>4. CASE WriteReactions(m)
  <2>1. Head(queue[m]) \in Work /\ Tail(queue[m]) \in Seq(Work)
    BY <1>4, ChainType DEF WriteReactions, TypeOK
  <2>2. Holder(m) \in Row /\ read[m] \in Row
    BY <1>4, HolderType DEF WriteReactions, TypeOK, Fine, ChainFine
  <2>3. Apply(Head(queue[m]), read[m].reactions) \in SUBSET Reactor
    BY <2>1, <2>2, ApplyType DEF Row
  <2>4. [Holder(m) EXCEPT !.media = read[m].media,
             !.reactions = Apply(Head(queue[m]), read[m].reactions)] \in Row
    BY <2>2, <2>3 DEF Row
  <2>5. own' \in [Msg -> Row \cup {NoRow}] /\ echo' \in [Msg -> Row \cup {NoRow}]
    BY <1>4, <2>4, UpdateType DEF WriteReactions, TypeOK
  <2>6. Apply(Head(queue[m]), reacted[m]) \in SUBSET Reactor
    BY <2>1, ApplyType DEF TypeOK
  <2>7. reacted' \in [Msg -> SUBSET Reactor]  BY <1>4, <2>6 DEF WriteReactions, TypeOK
  <2>8. queue' \in [Msg -> Seq(Work)]  BY <1>4, <2>1 DEF WriteReactions, Dequeue, TypeOK
  <2>9. faults' \in 0..MaxFaults /\ hit' \subseteq Msg  BY <1>4, Budget DEF WriteReactions
  <2> QED BY <1>4, <2>5, <2>7, <2>8, <2>9 DEF WriteReactions, TypeOK
<1>5. CASE ReapRow(m)
  <2>1. faults' \in 0..MaxFaults /\ hit' \subseteq Msg  BY <1>5, Budget DEF ReapRow
  <2>2. own' \in [Msg -> Row \cup {NoRow}]
    <3>1. Pending(m) => [FailedRow(m) EXCEPT !.reaped = TRUE] \in Row
      BY FailedRowType DEF Pending, TypeOK
    <3> QED BY <1>5, <3>1 DEF ReapRow, TypeOK
  <2> QED BY <1>5, <2>1, <2>2 DEF ReapRow, TypeOK
<1> QED BY <1>1, <1>2, <1>3, <1>4, <1>5 DEF EventStep

LEMMA ReceiptTypes ==
    ASSUME TypeOK, NEW m \in Msg, NEW a \in Ack, AckArrives(m, a) \/ AdvanceAck(m, a)
    PROVE  TypeOK'
<1> USE DEF rows, send, mutation
<1>1. CASE AckArrives(m, a)
  BY <1>1, OutgoingAssumption DEF AckArrives, TypeOK, Sound, OutgoingAssumption
<1>2. CASE AdvanceAck(m, a)
  <2>1. faults' \in 0..MaxFaults /\ hit' \subseteq Msg  BY <1>2, Budget DEF AdvanceAck
  <2>2. ASSUME Advances(m, a)
        PROVE  [Holder(m) EXCEPT !.status = a] \in Row
    BY <2>2, HolderType DEF Advances, Row, Status, Ack
  <2>3. own' \in [Msg -> Row \cup {NoRow}] /\ echo' \in [Msg -> Row \cup {NoRow}]
    BY <1>2, <2>2, UpdateType DEF AdvanceAck, TypeOK
  <2>4. ack' \in [Msg -> [Ack -> {"none", "first", "timer", "done"}]]
    <3>1. PICK v \in {"timer", "done"} : ack' = [ack EXCEPT ![m] = [ack[m] EXCEPT ![a] = v]]
      BY <1>2 DEF AdvanceAck, TypeOK
    <3>2. [ack[m] EXCEPT ![a] = v] \in [Ack -> {"none", "first", "timer", "done"}]
      BY DEF TypeOK
    <3> QED BY <3>1, <3>2 DEF TypeOK
  <2> QED BY <1>2, <2>1, <2>3, <2>4 DEF AdvanceAck, TypeOK
<1> QED BY <1>1, <1>2

LEMMA ReactionTypes ==
    ASSUME TypeOK, NEW m \in Msg, NEW r \in Reactor, NEW given \in BOOLEAN, ReactionArrives(m, r, given)
    PROVE  TypeOK'
<1> USE DEF rows, send, mutation
<1>1. [by |-> r, given |-> given] \in Work  BY DEF Work
<1>2. queue' \in [Msg -> Seq(Work)]  BY <1>1 DEF ReactionArrives, TypeOK
<1> QED BY <1>2, OutgoingAssumption DEF ReactionArrives, TypeOK, Sound, OutgoingAssumption

LEMMA ProcessTypes ==
    ASSUME TypeOK, Retire \/ Crash \/ \E stale \in SUBSET Msg : Sweep(stale)
    PROVE  TypeOK'
<1> USE DEF rows, send, mutation
<1>1. CASE Retire
  BY <1>1, OutgoingAssumption DEF Retire, TypeOK, OutgoingAssumption
<1>2. CASE Crash
  <2>1. queue' \in [Msg -> Seq(Work)]  BY <1>2 DEF Crash
  <2>2. ack' \in [Msg -> [Ack -> {"none", "first", "timer", "done"}]]  BY <1>2 DEF Crash, TypeOK
  <2> QED BY <1>2, <2>1, <2>2, OutgoingAssumption DEF Crash, TypeOK, OutgoingAssumption
<1>3. CASE \E stale \in SUBSET Msg : Sweep(stale)
  BY <1>3 DEF Sweep, TypeOK, Sound
<1> QED BY <1>1, <1>2, <1>3

-----------------------------------------------------------------------------
\* A step is about one message, and says nothing of the others.

Same(n) ==
    /\ kind' = kind
    /\ own'[n] = own[n] /\ echo'[n] = echo[n]
    /\ pc'[n] = pc[n] /\ result'[n] = result[n] /\ create'[n] = create[n]
    /\ ack'[n] = ack[n] /\ read'[n] = read[n] /\ reacted'[n] = reacted[n]
    /\ (n \in sent' <=> n \in sent) /\ (n \in crossed' <=> n \in crossed)
    /\ (n \in hit' <=> n \in hit)

LEMMA FineSame ==
    ASSUME NEW n \in Msg, Same(n), Fine(n)
    PROVE  Fine(n)'
<1> USE DEF Same
<1>1. RequestFine(n)'  BY DEF Fine, RequestFine
<1>2. RaceFine(n)'  BY DEF Fine, RaceFine, Known
<1>3. FailedFine(n)'  BY DEF Fine, FailedFine
<1>4. ChainFine(n)'  BY DEF Fine, ChainFine, Holder
<1>5. SoundFine(n)'  BY DEF Fine, SoundFine, Known, Holder
<1> QED BY <1>1, <1>2, <1>3, <1>4, <1>5 DEF Fine

SomeStep(m) == \/ Begin(m) \/ Transmit(m) \/ Accept(m) \/ Reject(m)
               \/ SendStep(m) \/ EventStep(m) \/ ReapRow(m)
               \/ \E a \in Ack : AckArrives(m, a) \/ AdvanceAck(m, a)
               \/ \E r \in Reactor, given \in BOOLEAN : ReactionArrives(m, r, given)

LEMMA OthersSame ==
    ASSUME TypeOK, NEW m \in Msg, SomeStep(m), NEW n \in Msg, n # m
    PROVE  Same(n)
<1> USE DEF Same, TypeOK, rows, send, mutation, Sound, Fault, UpdateHolder
<1>1. CASE Begin(m)  BY <1>1 DEF Begin
<1>2. CASE Transmit(m)  BY <1>2 DEF Transmit
<1>3. CASE Accept(m)  BY <1>3 DEF Accept
<1>4. CASE Reject(m)  BY <1>4 DEF Reject
<1>5. CASE SaveFailed(m)  BY <1>5 DEF SaveFailed
<1>6. CASE SaveSent(m)  BY <1>6 DEF SaveSent
<1>7. CASE SaveBulk(m)  BY <1>7 DEF SaveBulk
<1>8. CASE Merge(m)  BY <1>8 DEF Merge
<1>9. CASE Drop(m)  BY <1>9 DEF Drop
<1>10. CASE EchoArrives(m)  BY <1>10 DEF EchoArrives
<1>11. CASE EchoPersists(m)  BY <1>11 DEF EchoPersists
<1>12. CASE ReadReactions(m)  BY <1>12 DEF ReadReactions
<1>13. CASE WriteReactions(m)  BY <1>13 DEF WriteReactions
<1>14. CASE ReapRow(m)  BY <1>14 DEF ReapRow
<1>15. ASSUME NEW a \in Ack, AckArrives(m, a)  PROVE Same(n)  BY <1>15 DEF AckArrives
<1>16. ASSUME NEW a \in Ack, AdvanceAck(m, a)  PROVE Same(n)  BY <1>16 DEF AdvanceAck
<1>17. ASSUME NEW r \in Reactor, NEW given \in BOOLEAN, ReactionArrives(m, r, given)  PROVE Same(n)
  BY <1>17 DEF ReactionArrives
<1> HIDE DEF Same, TypeOK, Sound, Fault
<1> QED BY <1>1, <1>2, <1>3, <1>4, <1>5, <1>6, <1>7, <1>8, <1>9, <1>10, <1>11, <1>12, <1>13,
           <1>14, <1>15, <1>16, <1>17 DEF SomeStep, SendStep, EventStep

-----------------------------------------------------------------------------
\* The request.

LEMMA BeginFine ==
    ASSUME TypeOK, NEW m \in Msg, Fine(m), Begin(m)
    PROVE  Fine(m)'
<1> USE DEF Begin, Sound, TypeOK, mutation
<1>1. own[m] = NoRow
  BY DEF Fine, RequestFine
<1>2. NewRow(m, "pending", FALSE) # NoRow
  <2>1. NewRow(m, "pending", FALSE) \in Row  BY NewRowType DEF Status
  <2> QED BY <2>1, NoRowAssumption
<1>3. /\ own'[m] = NoRow \/ own'[m] = NewRow(m, "pending", FALSE)
      /\ (kind[m].origin = "bulk" \/ pc'[m] = "done") => own'[m] = NoRow
      /\ kind[m].origin = "api" /\ pc'[m] = "sending" => own'[m] # NoRow
      /\ pc'[m] \in {"sending", "done"} /\ pc[m] = "idle" /\ kind[m].origin # "phone"
  <2>1. /\ pc'[m] \in {"sending", "done"} /\ pc[m] = "idle" /\ kind[m].origin # "phone"
        /\ pc'[m] = "done" => own' = own
        /\ pc'[m] = "sending" => own' = IF kind[m].origin = "api"
                                          THEN [own EXCEPT ![m] = NewRow(m, "pending", FALSE)]
                                          ELSE own
    OBVIOUS
  <2>2. pc'[m] = "sending" /\ kind[m].origin = "api" => own'[m] = NewRow(m, "pending", FALSE)
    BY <2>1
  <2>3. pc'[m] = "done" \/ kind[m].origin # "api" => own'[m] = own[m]
    BY <2>1
  <2> HIDE DEF Begin, TypeOK
  <2> QED BY <1>1, <1>2, <2>1, <2>2, <2>3
<1>4. ~Known(m) /\ ~Known(m)' /\ Holder(m)' = Holder(m)
  BY <1>1, <1>3 DEF Known, Holder, NewRow
<1>5. RequestFine(m)'  BY <1>3 DEF Fine, RequestFine
<1>6. RaceFine(m)'  BY <1>3, <1>4 DEF Fine, RaceFine, NewRow
<1>7. FailedFine(m)'  BY <1>3 DEF Fine, FailedFine, NewRow
<1>8. ChainFine(m)'  BY <1>4 DEF Fine, ChainFine
<1>9. SoundFine(m)'  BY <1>3, <1>4 DEF Fine, SoundFine, RequestFine, RaceFine
<1> QED BY <1>5, <1>6, <1>7, <1>8, <1>9 DEF Fine

LEMMA TransmitFine ==
    ASSUME TypeOK, NEW m \in Msg, Fine(m), Transmit(m)
    PROVE  Fine(m)'
<1> USE DEF Transmit, Sound, TypeOK, mutation
<1>1. /\ own' = own /\ echo' = echo /\ Holder(m)' = Holder(m) /\ (Known(m)' <=> Known(m))
      /\ m \in sent' /\ create'[m] = "event" /\ create[m] = "none" /\ result'[m] = "none"
      /\ \/ kind[m].origin = "phone" /\ pc[m] = "idle" /\ pc'[m] = "done"
         \/ kind[m].origin # "phone" /\ pc[m] = "sending" /\ pc'[m] = "sending"
  BY DEF Holder, Known, Fine, RequestFine
<1>2. RequestFine(m)'  BY <1>1 DEF Fine, RequestFine
<1>3. RaceFine(m)'  BY <1>1 DEF Fine, RaceFine
<1>4. FailedFine(m)'  BY <1>1 DEF Fine, FailedFine
<1>5. ChainFine(m)'  BY <1>1 DEF Fine, ChainFine
<1>6. SoundFine(m)'  BY <1>1 DEF Fine, SoundFine, RequestFine, RaceFine
<1> QED BY <1>2, <1>3, <1>4, <1>5, <1>6 DEF Fine

\* The engine's answer, and the end of a request that leaves the rows alone.
LEMMA AnswerFine ==
    ASSUME TypeOK, NEW m \in Msg, Fine(m), Accept(m) \/ Reject(m)
    PROVE  Fine(m)'
<1> USE DEF Accept, Reject, Sound, Fault, TypeOK, mutation, rows
<1>1. /\ own' = own /\ echo' = echo /\ Holder(m)' = Holder(m) /\ (Known(m)' <=> Known(m))
      /\ pc[m] = "sending" /\ sent' = sent /\ create' = create /\ hit \subseteq hit'
      /\ \/ pc'[m] = "accepted" /\ m \in sent /\ (m \notin hit' => result'[m] = "id")
         \/ /\ m \in hit' /\ result'[m] = result[m]
            /\ pc'[m] = IF kind[m].origin = "api" THEN "rejected" ELSE "done"
  BY DEF Holder, Known
<1>2. RequestFine(m)'  BY <1>1 DEF Fine, RequestFine
<1>3. RaceFine(m)'  BY <1>1 DEF Fine, RaceFine
<1>4. FailedFine(m)'  BY <1>1 DEF Fine, FailedFine
<1>5. ChainFine(m)'  BY <1>1 DEF Fine, ChainFine
<1>6. SoundFine(m)'  BY <1>1 DEF Fine, SoundFine, RequestFine, RaceFine
<1> QED BY <1>2, <1>3, <1>4, <1>5, <1>6 DEF Fine

LEMMA SaveFailedFine ==
    ASSUME TypeOK, NEW m \in Msg, Fine(m), SaveFailed(m)
    PROVE  Fine(m)'
<1> USE DEF SaveFailed, Sound, Fault, TypeOK, mutation
<1>1. own[m] \in Row /\ ~own[m].known
  BY DEF Fine, RequestFine, RaceFine, Known
<1>2. /\ FailedRow(m) # NoRow /\ ~FailedRow(m).known
      /\ FailedRow(m).reactions = own[m].reactions
  BY <1>1, FailedRowType, NoRowAssumption DEF FailedRow, Row
<1>3. /\ own'[m] # NoRow /\ ~own'[m].known /\ own'[m].reactions = own[m].reactions
      /\ pc[m] = "rejected" /\ pc'[m] = "done" /\ hit \subseteq hit'
      /\ echo' = echo /\ sent' = sent /\ create' = create /\ result' = result
  BY <1>1, <1>2, NoRowAssumption
<1>4. ~Known(m)' /\ ~Known(m) /\ Holder(m)' = Holder(m)
  BY <1>1, <1>3 DEF Known, Holder
<1>5. kind[m].origin = "api" /\ m \in hit /\ result[m] = "none"
  BY <1>3 DEF Fine, RequestFine
<1>6. RequestFine(m)'  BY <1>3, <1>5 DEF Fine, RequestFine
<1>7. RaceFine(m)'  BY <1>1, <1>3, <1>4, NoRowAssumption DEF Fine, RaceFine, Known
<1>8. FailedFine(m)'  BY <1>3, <1>5 DEF Fine, FailedFine
<1>9. ChainFine(m)'  BY <1>4 DEF Fine, ChainFine
<1>10. SoundFine(m)'  BY <1>3, <1>5 DEF Fine, SoundFine
<1> QED BY <1>6, <1>7, <1>8, <1>9, <1>10 DEF Fine

\* A request that finds its echo's row, or whose write fails, leaves the rows alone.
LEMMA SaveNothingFine ==
    ASSUME TypeOK, NEW m \in Msg, Fine(m), pc[m] = "accepted", own' = own, echo' = echo,
           UNCHANGED <<kind, result, sent, create, ack, mutation>>, hit \subseteq hit',
           \/ pc' = [pc EXCEPT ![m] = "merging"] /\ echo[m] # NoRow
           \/ pc' = [pc EXCEPT ![m] = "done"] /\ m \in hit'
    PROVE  Fine(m)'
<1> USE DEF TypeOK, mutation
<1>1. Holder(m)' = Holder(m) /\ (Known(m)' <=> Known(m))
  BY DEF Holder, Known
<1>2. RequestFine(m)'  BY <1>1 DEF Fine, RequestFine
<1>3. RaceFine(m)'  BY <1>1 DEF Fine, RaceFine
<1>4. FailedFine(m)'  BY <1>1 DEF Fine, FailedFine
<1>5. ChainFine(m)'  BY <1>1 DEF Fine, ChainFine
<1>6. SoundFine(m)'  BY <1>1 DEF Fine, SoundFine, RequestFine, RaceFine
<1> QED BY <1>2, <1>3, <1>4, <1>5, <1>6 DEF Fine

\* The row that is written under the id, or (an answer without one) beside it.
LEMMA SaveRowFine ==
    ASSUME TypeOK, NEW m \in Msg, Fine(m), pc[m] = "accepted", NEW row \in Row,
           row.status = "sent", row.known <=> result[m] = "id", row.media = kind[m].payload,
           row.reactions = {}, result[m] = "empty" \/ echo[m] = NoRow,
           own' = [own EXCEPT ![m] = row], pc' = [pc EXCEPT ![m] = "done"],
           UNCHANGED <<kind, echo, result, sent, create, ack, mutation>>, Sound
    PROVE  Fine(m)'
<1> USE DEF TypeOK, mutation, Sound
<1>1. /\ own'[m] = row /\ row # NoRow /\ pc'[m] = "done" /\ ~Known(m)
      /\ kind[m].origin # "phone"
  BY NoRowAssumption DEF Fine, RaceFine, RequestFine
<1>2. Known(m)' <=> result[m] = "id"
  BY <1>1 DEF Known
<1>3. Holder(m) = echo[m] /\ Holder(m)' = IF result[m] = "id" THEN row ELSE echo[m]
  BY <1>1 DEF Holder, Known
<1>4. RequestFine(m)'  BY <1>1 DEF Fine, RequestFine
<1>5. RaceFine(m)'  BY <1>1, <1>2 DEF Fine, RaceFine
<1>6. FailedFine(m)'  BY <1>1 DEF Fine, FailedFine
<1>7. ChainFine(m)'
  <2>1. CASE result[m] = "id"  BY <1>1, <1>3, <2>1 DEF Fine, ChainFine
  <2>2. CASE result[m] # "id"  BY <1>3, <2>2 DEF Fine, ChainFine
  <2> QED BY <2>1, <2>2
<1>8. SoundFine(m)'
  <2>1. m \notin hit /\ m \in sent => result[m] = "id"
    BY <1>1 DEF Fine, SoundFine
  <2>2. m \notin sent => create[m] = "none" /\ echo[m] = NoRow
    BY DEF Fine, RequestFine, RaceFine
  <2>3. create'[m] = "done" /\ m \notin hit' => Holder(m)' # NoRow
    BY <1>1, <1>3, <2>1, <2>2
  <2>4. (Known(m)' => own'[m].media = kind[m].payload)
        /\ (m \notin hit /\ echo'[m] # NoRow => Known(m)')
    BY <1>1, <1>2, <2>1, <2>2
  <2> QED BY <1>1, <1>2, <2>1, <2>3, <2>4 DEF SoundFine
<1> QED BY <1>4, <1>5, <1>6, <1>7, <1>8 DEF Fine

LEMMA SaveSentFine ==
    ASSUME TypeOK, NEW m \in Msg, Fine(m), SaveSent(m)
    PROVE  Fine(m)'
<1>1. own[m] \in Row /\ own[m].reactions = {}
  BY DEF SaveSent, TypeOK, Fine, RequestFine, RaceFine, Known
<1>2. kind[m].payload \in Media
  BY OutgoingAssumption DEF TypeOK, Kind, OutgoingAssumption, Media
<1>3. /\ SentRow(m) \in Row /\ SentRow(m).status = "sent" /\ SentRow(m).media = kind[m].payload
      /\ (SentRow(m).known <=> result[m] = "id") /\ SentRow(m).reactions = {}
  BY <1>1, <1>2 DEF SentRow, Row, Status
<1>4. CASE own' = [own EXCEPT ![m] = SentRow(m)] /\ pc' = [pc EXCEPT ![m] = "done"] /\ Sound
           /\ (result[m] = "empty" \/ echo[m] = NoRow)
  BY <1>3, <1>4, SaveRowFine DEF SaveSent
<1>5. CASE UNCHANGED own /\ echo[m] # NoRow /\ pc' = [pc EXCEPT ![m] = "merging"] /\ Sound
  BY <1>5, SaveNothingFine DEF SaveSent, Sound
<1>6. CASE UNCHANGED own /\ pc' = [pc EXCEPT ![m] = "done"] /\ Fault({"database"}, m)
  BY <1>6, SaveNothingFine DEF SaveSent, Fault
<1> QED BY <1>4, <1>5, <1>6 DEF SaveSent

LEMMA SaveBulkFine ==
    ASSUME TypeOK, NEW m \in Msg, Fine(m), SaveBulk(m)
    PROVE  Fine(m)'
<1> DEFINE row == NewRow(m, "sent", result[m] = "id")
<1>1. /\ row \in Row /\ row.status = "sent" /\ row.media = kind[m].payload
      /\ (row.known <=> result[m] = "id") /\ row.reactions = {}
  <2>1. row \in Row  BY NewRowType DEF Status
  <2> QED BY <2>1 DEF NewRow
<1>2. CASE own' = [own EXCEPT ![m] = row] /\ pc' = [pc EXCEPT ![m] = "done"] /\ Sound
           /\ (result[m] = "empty" \/ echo[m] = NoRow)
  <2> HIDE DEF row
  <2> QED BY <1>1, <1>2, SaveRowFine DEF SaveBulk
<1>3. CASE UNCHANGED own /\ echo[m] # NoRow /\ pc' = [pc EXCEPT ![m] = "merging"] /\ Sound
  BY <1>3, SaveNothingFine DEF SaveBulk, Sound
<1>4. CASE UNCHANGED own /\ pc' = [pc EXCEPT ![m] = "done"] /\ Fault({"database"}, m)
  BY <1>4, SaveNothingFine DEF SaveBulk, Fault
<1> QED BY <1>2, <1>3, <1>4 DEF SaveBulk

LEMMA MergeFine ==
    ASSUME TypeOK, NEW m \in Msg, Fine(m), Merge(m)
    PROVE  Fine(m)'
<1> USE DEF Merge, Sound, Fault, TypeOK
<1>1. /\ pc[m] = "merging" /\ echo[m] \in Row /\ echo[m] # NoRow /\ ~Known(m)
      /\ kind[m].origin # "phone"
  BY NoRowAssumption DEF Fine, RaceFine, RequestFine
<1>2. /\ Merged(m) \in Row /\ Merged(m) # NoRow /\ Merged(m).status = "sent"
      /\ (kind[m].payload = "bytes" => Merged(m).media = "bytes")
      /\ (kind[m].payload # "bytes" => /\ Merged(m).reactions = echo[m].reactions
                                      /\ Merged(m).media = echo[m].media)
  <2>1. CASE kind[m].payload = "bytes"
    <3>1. Merged(m) = [echo[m] EXCEPT !.status = "sent", !.media = "bytes", !.reactions = {}]
      BY <2>1 DEF Merged
    <3>2. Merged(m) \in Row
      BY <1>1, <3>1 DEF Row, Status, Media
    <3>3. Merged(m).status = "sent" /\ Merged(m).media = "bytes"
      BY <1>1, <3>1 DEF Row
    <3> QED BY <2>1, <3>2, <3>3, NoRowAssumption
  <2>2. CASE kind[m].payload # "bytes"
    <3>1. Merged(m) = [echo[m] EXCEPT !.status = "sent"]
      BY <2>2 DEF Merged
    <3>2. Merged(m) \in Row
      BY <1>1, <3>1 DEF Row, Status
    <3>3. /\ Merged(m).status = "sent" /\ Merged(m).reactions = echo[m].reactions
          /\ Merged(m).media = echo[m].media
      BY <1>1, <3>1 DEF Row
    <3> QED BY <2>2, <3>2, <3>3, NoRowAssumption
  <2> QED
    BY <2>1, <2>2
<1>3. /\ pc'[m] = (IF kind[m].origin = "api" THEN "dropping" ELSE "done") /\ own' = own
      /\ \/ echo'[m] = Merged(m) /\ hit' = hit
         \/ echo'[m] = echo[m] /\ m \in hit' /\ hit \subseteq hit'
      /\ read[m] # NoRow => m \in crossed'
      /\ crossed \subseteq crossed'
  BY <1>1
<1>4. Holder(m) = echo[m] /\ Holder(m)' = echo'[m] /\ ~Known(m)'
  BY <1>1, <1>3 DEF Holder, Known
<1>5. RequestFine(m)'  BY <1>1, <1>3 DEF Fine, RequestFine
<1>6. RaceFine(m)'  BY <1>1, <1>2, <1>3, <1>4 DEF Fine, RaceFine
<1>7. FailedFine(m)'  BY <1>1, <1>2, <1>3 DEF Fine, FailedFine
<1>8. ChainFine(m)'  BY <1>1, <1>2, <1>3, <1>4 DEF Fine, ChainFine
<1>9. SoundFine(m)'
  <2>1. m \notin hit' => (m \in sent => result'[m] = "id")
    BY <1>1, <1>3 DEF Fine, SoundFine
  <2>2. kind[m].origin = "bulk" => own[m] = NoRow
    BY <1>1 DEF Fine, RequestFine
  <2>3. Holder(m)' # NoRow
    BY <1>1, <1>2, <1>3, <1>4
  <2>4. pc'[m] = "done" => own'[m] = NoRow /\ echo'[m] # NoRow
    BY <1>1, <1>2, <1>3, <2>2, OutgoingAssumption DEF Kind, OutgoingAssumption
  <2>5. m \notin hit' /\ kind[m].payload = "bytes" => echo'[m].media = "bytes"
    BY <1>2, <1>3
  <2> QED BY <1>1, <1>4, <2>1, <2>3, <2>4, <2>5 DEF SoundFine
<1> QED BY <1>5, <1>6, <1>7, <1>8, <1>9 DEF Fine

LEMMA DropFine ==
    ASSUME TypeOK, NEW m \in Msg, Fine(m), Drop(m)
    PROVE  Fine(m)'
<1> USE DEF Drop, Sound, Fault, TypeOK, mutation
<1>1. /\ pc[m] = "dropping" /\ pc'[m] = "done" /\ echo' = echo /\ echo[m] # NoRow /\ ~Known(m)
      /\ \/ own'[m] = NoRow /\ hit' = hit
         \/ own'[m] = own[m] /\ m \in hit' /\ hit \subseteq hit'
      /\ kind[m].origin = "api"
  BY DEF Fine, RaceFine, RequestFine
<1>2. ~Known(m)' /\ Holder(m) = echo[m] /\ Holder(m)' = echo[m]
  BY <1>1 DEF Known, Holder
<1>3. RequestFine(m)'  BY <1>1 DEF Fine, RequestFine
<1>4. RaceFine(m)'  BY <1>1, <1>2 DEF Fine, RaceFine
<1>5. FailedFine(m)'  BY <1>1 DEF Fine, FailedFine
<1>6. ChainFine(m)'  BY <1>1, <1>2 DEF Fine, ChainFine
<1>7. SoundFine(m)'  BY <1>1, <1>2 DEF Fine, SoundFine
<1> QED BY <1>3, <1>4, <1>5, <1>6, <1>7 DEF Fine

-----------------------------------------------------------------------------
\* The engine's events.

LEMMA EchoArrivesFine ==
    ASSUME TypeOK, NEW m \in Msg, Fine(m), EchoArrives(m)
    PROVE  Fine(m)'
<1> USE DEF EchoArrives, Sound, TypeOK, mutation, rows, send
<1>1. /\ create[m] = "event" /\ create'[m] = "hook"
      /\ Holder(m)' = Holder(m) /\ (Known(m)' <=> Known(m))
  BY DEF Holder, Known
<1>2. RequestFine(m)'  BY <1>1 DEF Fine, RequestFine
<1>3. RaceFine(m)'  BY <1>1 DEF Fine, RaceFine
<1>4. FailedFine(m)'  BY <1>1 DEF Fine, FailedFine
<1>5. ChainFine(m)'  BY <1>1 DEF Fine, ChainFine
<1>6. SoundFine(m)'  BY <1>1 DEF Fine, SoundFine
<1> QED BY <1>2, <1>3, <1>4, <1>5, <1>6 DEF Fine

LEMMA EchoPersistsFine ==
    ASSUME TypeOK, NEW m \in Msg, Fine(m), EchoPersists(m)
    PROVE  Fine(m)'
<1> USE DEF EchoPersists, Sound, Fault, TypeOK, mutation, send
<1>1. create[m] = "hook" /\ create'[m] = "done" /\ echo[m] = NoRow /\ own' = own /\ m \in sent
  BY DEF Fine, RaceFine, RequestFine
<1>2. CASE echo' = echo /\ (m \in hit' \/ Holder(m) # NoRow) /\ hit \subseteq hit'
  <2>1. Holder(m)' = Holder(m) /\ (Known(m)' <=> Known(m))
    BY <1>2 DEF Holder, Known
  <2>2. RequestFine(m)'  BY <1>1, <2>1 DEF Fine, RequestFine
  <2>3. RaceFine(m)'  BY <1>1, <1>2, <2>1 DEF Fine, RaceFine
  <2>4. FailedFine(m)'  BY <1>1, <1>2, <2>1 DEF Fine, FailedFine
  <2>5. ChainFine(m)'  BY <1>1, <1>2, <2>1 DEF Fine, ChainFine
  <2>6. SoundFine(m)'  BY <1>1, <1>2, <2>1 DEF Fine, SoundFine
  <2> QED BY <2>2, <2>3, <2>4, <2>5, <2>6 DEF Fine
<1>3. CASE Holder(m) = NoRow /\ Sound
           /\ \E media \in EchoMedia(m) :
                 echo' = [echo EXCEPT ![m] = [NewRow(m, "sent", TRUE) EXCEPT !.media = media]]
  <2>1. PICK media \in EchoMedia(m) :
             echo' = [echo EXCEPT ![m] = [NewRow(m, "sent", TRUE) EXCEPT !.media = media]]
    BY <1>3
  <2>2. NewRow(m, "sent", TRUE) \in Row /\ media \in Media
    BY NewRowType DEF Status, EchoMedia, Media
  <2>3. /\ [NewRow(m, "sent", TRUE) EXCEPT !.media = media] \in Row
        /\ echo'[m] = [NewRow(m, "sent", TRUE) EXCEPT !.media = media]
    BY <2>1, <2>2 DEF Row
  <2>4. /\ echo'[m] \in Row /\ echo'[m] # NoRow /\ echo'[m].status = "sent"
        /\ echo'[m].media = media /\ echo'[m].reactions = {}
    BY <2>3, NoRowAssumption DEF NewRow
  <2>5. ~Known(m) /\ ~Known(m)' /\ Holder(m)' = echo'[m]
    BY <1>1, <1>3 DEF Holder, Known
  <2>6. RequestFine(m)'  BY <1>1, <1>3 DEF Fine, RequestFine
  <2>7. RaceFine(m)'  BY <1>1, <1>3, <2>4, <2>5 DEF Fine, RaceFine
  <2>8. FailedFine(m)'  BY <1>1, <1>3, <2>4 DEF Fine, FailedFine
  <2>9. ChainFine(m)'  BY <1>1, <1>3, <2>4, <2>5 DEF Fine, ChainFine
  <2>10. SoundFine(m)'
    <3>1. kind[m].origin = "phone" /\ kind[m].payload = "bytes" => media = "bytes"
      BY DEF EchoMedia
    <3>2. pc[m] # "dropping"
      BY <1>1 DEF Fine, RaceFine
    <3> QED BY <1>1, <1>3, <2>4, <2>5, <3>1, <3>2 DEF Fine, SoundFine
  <2> QED BY <2>6, <2>7, <2>8, <2>9, <2>10 DEF Fine
<1> QED BY <1>2, <1>3

LEMMA ReadReactionsFine ==
    ASSUME TypeOK, NEW m \in Msg, Fine(m), ReadReactions(m)
    PROVE  Fine(m)'
<1> USE DEF ReadReactions, Sound, TypeOK, rows, send
<1>1. /\ Holder(m)' = Holder(m) /\ (Known(m)' <=> Known(m))
      /\ read'[m] = IF Holder(m) = NoRow THEN read[m] ELSE Holder(m)
  BY DEF Holder, Known
<1>2. RequestFine(m)'  BY <1>1 DEF Fine, RequestFine
<1>3. RaceFine(m)'  BY <1>1 DEF Fine, RaceFine
<1>4. FailedFine(m)'  BY <1>1 DEF Fine, FailedFine
<1>5. ChainFine(m)'  BY <1>1 DEF Fine, ChainFine
<1>6. SoundFine(m)'  BY <1>1 DEF Fine, SoundFine
<1> QED BY <1>2, <1>3, <1>4, <1>5, <1>6 DEF Fine

\* A row written back under the id is found there, and the other row is not touched.
LEMMA Updated ==
    ASSUME TypeOK, NEW m \in Msg, NEW row \in Row, Holder(m) # NoRow,
           row.known = Holder(m).known, UpdateHolder(m, row)
    PROVE  /\ Holder(m)' = row /\ (Known(m)' <=> Known(m))
           /\ Known(m) => own'[m] = row /\ echo' = echo /\ Holder(m) = own[m]
           /\ ~Known(m) => own' = own /\ echo'[m] = row /\ Holder(m) = echo[m]
<1> USE DEF TypeOK, UpdateHolder, Holder
<1>1. CASE Known(m)
  BY <1>1, NoRowAssumption DEF Known
<1>2. CASE ~Known(m)
  BY <1>2, NoRowAssumption DEF Known
<1> QED BY <1>1, <1>2

LEMMA WriteReactionsFine ==
    ASSUME TypeOK, NEW m \in Msg, Fine(m), WriteReactions(m)
    PROVE  Fine(m)'
<1> USE DEF WriteReactions, Sound, Fault, TypeOK, send
<1>1. Holder(m) \in Row /\ read[m] \in Row /\ read'[m] = NoRow
  BY HolderType DEF Fine, ChainFine
<1>2. CASE UNCHANGED <<own, echo, reacted>> /\ Fault({"database"}, m)
  <2>1. Holder(m)' = Holder(m) /\ (Known(m)' <=> Known(m)) /\ m \in hit'
    BY <1>2 DEF Holder, Known
  <2>2. RequestFine(m)'  BY <1>2, <2>1 DEF Fine, RequestFine
  <2>3. RaceFine(m)'  BY <1>2, <2>1 DEF Fine, RaceFine
  <2>4. FailedFine(m)'  BY <1>2, <2>1 DEF Fine, FailedFine
  <2>5. ChainFine(m)'  BY <1>1, <1>2, <2>1 DEF Fine, ChainFine
  <2>6. SoundFine(m)'  BY <1>2, <2>1 DEF Fine, SoundFine
  <2> QED BY <2>2, <2>3, <2>4, <2>5, <2>6 DEF Fine
<1> DEFINE row == [Holder(m) EXCEPT !.media = read[m].media,
                       !.reactions = Apply(Head(queue[m]), read[m].reactions)]
<1>3. CASE UpdateHolder(m, row) /\ reacted' = [reacted EXCEPT ![m] = Apply(Head(queue[m]), reacted[m])]
           /\ Sound
  <2>1. Apply(Head(queue[m]), read[m].reactions) \in SUBSET Reactor
    BY <1>1, ApplyType, ChainType DEF Row
  <2>2. /\ row \in Row /\ row.known = Holder(m).known /\ row.status = Holder(m).status
        /\ row.reaped = Holder(m).reaped /\ row.media = read[m].media
        /\ row.reactions = Apply(Head(queue[m]), read[m].reactions)
    BY <1>1, <2>1 DEF Row
  <2> HIDE DEF row
  <2>3. /\ Holder(m)' = row /\ (Known(m)' <=> Known(m))
        /\ Known(m) => own'[m] = row /\ echo' = echo /\ Holder(m) = own[m]
        /\ ~Known(m) => own' = own /\ echo'[m] = row /\ Holder(m) = echo[m]
    BY <1>1, <1>3, <2>2, Updated, NoRowAssumption
  <2>4. Holder(m) # NoRow /\ row # NoRow
    BY <1>1, <2>2, NoRowAssumption
  <2>5. RequestFine(m)'  BY <1>3, <2>3, <2>4 DEF Fine, RequestFine, Known
  <2>6. RaceFine(m)'  BY <1>3, <2>2, <2>3, <2>4 DEF Fine, RaceFine
  <2>7. FailedFine(m)'  BY <1>3, <2>2, <2>3, <2>4 DEF Fine, FailedFine
  <2>8. ChainFine(m)'
    <3>1. kind[m].payload # "bytes" => row.reactions = reacted'[m]
      BY <1>1, <1>3, <2>2, <2>4, NoRowAssumption DEF Fine, ChainFine
    <3> QED BY <1>1, <2>3, <2>4, <3>1 DEF ChainFine
  <2>9. SoundFine(m)'
    <3>1. m \notin crossed => row.media = Holder(m).media
      BY <1>1, <2>2, NoRowAssumption DEF Fine, ChainFine
    <3> QED BY <1>3, <2>3, <2>4, <3>1 DEF Fine, SoundFine
  <2> QED BY <2>5, <2>6, <2>7, <2>8, <2>9 DEF Fine
<1> QED BY <1>2, <1>3

LEMMA AckArrivesFine ==
    ASSUME TypeOK, NEW m \in Msg, NEW a \in Ack, Fine(m), AckArrives(m, a)
    PROVE  Fine(m)'
<1> USE DEF AckArrives, Sound, TypeOK, mutation, rows, send
<1>1. /\ Holder(m)' = Holder(m) /\ (Known(m)' <=> Known(m))
      /\ ack[m]["failed"] # "none" => ack'[m]["failed"] # "none"
  BY DEF Holder, Known, Ack
<1>2. RequestFine(m)'  BY <1>1 DEF Fine, RequestFine
<1>3. RaceFine(m)'  BY <1>1 DEF Fine, RaceFine
<1>4. FailedFine(m)'  BY <1>1 DEF Fine, FailedFine
<1>5. ChainFine(m)'  BY <1>1 DEF Fine, ChainFine
<1>6. SoundFine(m)'  BY <1>1 DEF Fine, SoundFine
<1> QED BY <1>2, <1>3, <1>4, <1>5, <1>6 DEF Fine

LEMMA AdvanceAckFine ==
    ASSUME TypeOK, NEW m \in Msg, NEW a \in Ack, Fine(m), AdvanceAck(m, a)
    PROVE  Fine(m)'
<1> USE DEF AdvanceAck, Sound, Fault, TypeOK, mutation, send
<1>1. /\ ack[m]["failed"] # "none" => ack'[m]["failed"] # "none"
      /\ a = "failed" => ack'[m]["failed"] # "none"
  <2>1. PICK v \in {"timer", "done"} : ack' = [ack EXCEPT ![m] = [ack[m] EXCEPT ![a] = v]]
    OBVIOUS
  <2> QED BY <2>1 DEF Ack
<1>2. CASE UNCHANGED rows /\ hit \subseteq hit'
  <2> USE DEF rows
  <2>1. Holder(m)' = Holder(m) /\ (Known(m)' <=> Known(m))
    BY <1>2 DEF Holder, Known
  <2>2. RequestFine(m)'  BY <1>2, <2>1 DEF Fine, RequestFine
  <2>3. RaceFine(m)'  BY <1>2, <2>1 DEF Fine, RaceFine
  <2>4. FailedFine(m)'  BY <1>1, <1>2, <2>1 DEF Fine, FailedFine
  <2>5. ChainFine(m)'  BY <1>2, <2>1 DEF Fine, ChainFine
  <2>6. SoundFine(m)'  BY <1>2, <2>1 DEF Fine, SoundFine
  <2> QED BY <2>2, <2>3, <2>4, <2>5, <2>6 DEF Fine
<1> DEFINE row == [Holder(m) EXCEPT !.status = a]
<1>3. CASE Advances(m, a) /\ UpdateHolder(m, row) /\ Sound
  <2>1. Holder(m) \in Row
    BY <1>3, HolderType DEF Advances
  <2>2. /\ row \in Row /\ row.known = Holder(m).known /\ row.status = a
        /\ row.reaped = Holder(m).reaped /\ row.media = Holder(m).media
        /\ row.reactions = Holder(m).reactions
    BY <2>1 DEF Row, Status, Ack
  <2> HIDE DEF row
  <2>3. /\ Holder(m)' = row /\ (Known(m)' <=> Known(m))
        /\ Known(m) => own'[m] = row /\ echo' = echo /\ Holder(m) = own[m]
        /\ ~Known(m) => own' = own /\ echo'[m] = row /\ Holder(m) = echo[m]
    BY <1>3, <2>1, <2>2, Updated, NoRowAssumption
  <2>4. Holder(m) # NoRow /\ row # NoRow /\ a # "pending"
    BY <2>1, <2>2, NoRowAssumption DEF Ack
  <2>5. RequestFine(m)'  BY <1>3, <2>3, <2>4 DEF Fine, RequestFine, Known
  <2>6. RaceFine(m)'  BY <1>3, <2>2, <2>3, <2>4 DEF Fine, RaceFine
  <2>7. FailedFine(m)'  BY <1>1, <1>3, <2>2, <2>3, <2>4 DEF Fine, FailedFine
  <2>8. ChainFine(m)'  BY <1>3, <2>2, <2>3, <2>4 DEF Fine, ChainFine
  <2>9. SoundFine(m)'  BY <1>3, <2>2, <2>3, <2>4 DEF Fine, SoundFine
  <2> QED BY <2>5, <2>6, <2>7, <2>8, <2>9 DEF Fine
<1> QED BY <1>2, <1>3

LEMMA ReapRowFine ==
    ASSUME TypeOK, NEW m \in Msg, Fine(m), ReapRow(m)
    PROVE  Fine(m)'
<1> USE DEF ReapRow, Sound, Fault, TypeOK, mutation, send
<1>1. CASE own' = own /\ hit \subseteq hit'
  <2>1. Holder(m)' = Holder(m) /\ (Known(m)' <=> Known(m))
    BY <1>1 DEF Holder, Known
  <2>2. RequestFine(m)'  BY <1>1, <2>1 DEF Fine, RequestFine
  <2>3. RaceFine(m)'  BY <1>1, <2>1 DEF Fine, RaceFine
  <2>4. FailedFine(m)'  BY <1>1, <2>1 DEF Fine, FailedFine
  <2>5. ChainFine(m)'  BY <1>1, <2>1 DEF Fine, ChainFine
  <2>6. SoundFine(m)'  BY <1>1, <2>1 DEF Fine, SoundFine
  <2> QED BY <2>2, <2>3, <2>4, <2>5, <2>6 DEF Fine
<1>2. CASE Pending(m) /\ own' = [own EXCEPT ![m] = [FailedRow(m) EXCEPT !.reaped = TRUE]] /\ Sound
  <2>1. own[m] \in Row /\ ~own[m].known /\ own[m].reactions = {}
    BY <1>2, NoRowAssumption DEF Pending, Fine, RaceFine, Known
  <2>2. own'[m] \in Row /\ ~own'[m].known /\ own'[m].reactions = {} /\ own'[m].reaped
    BY <1>2, <2>1, FailedRowType DEF FailedRow, Row
  <2>3. own[m] # NoRow /\ own'[m] # NoRow
    BY <2>1, <2>2, NoRowAssumption
  <2>4. ~Known(m) /\ ~Known(m)' /\ Holder(m)' = Holder(m)
    BY <2>1, <2>2 DEF Known, Holder
  <2>5. RequestFine(m)'  BY <1>2, <2>3 DEF Fine, RequestFine
  <2>6. RaceFine(m)'  BY <1>2, <2>2, <2>4 DEF Fine, RaceFine
  <2>7. FailedFine(m)'  BY <1>2, <2>2 DEF Fine, FailedFine
  <2>8. ChainFine(m)'  BY <1>2, <2>4 DEF Fine, ChainFine
  <2>9. SoundFine(m)'  BY <1>2, <2>3, <2>4 DEF Fine, SoundFine
  <2> QED BY <2>5, <2>6, <2>7, <2>8, <2>9 DEF Fine
<1> QED BY <1>1, <1>2

LEMMA RetireFine ==
    ASSUME TypeOK, NEW m \in Msg, Fine(m), Retire
    PROVE  Fine(m)'
<1> USE DEF Retire, TypeOK, mutation, send, rows
<1>1. /\ Holder(m)' = Holder(m) /\ (Known(m)' <=> Known(m)) /\ hit \subseteq hit'
      /\ \/ create'[m] = create[m]
         \/ create[m] \in {"event", "hook"} /\ create'[m] = "done" /\ m \in hit'
  BY DEF Holder, Known
<1>2. RequestFine(m)'  BY <1>1 DEF Fine, RequestFine
<1>3. RaceFine(m)'  BY <1>1 DEF Fine, RaceFine
<1>4. FailedFine(m)'  BY <1>1 DEF Fine, FailedFine
<1>5. ChainFine(m)'  BY <1>1 DEF Fine, ChainFine
<1>6. SoundFine(m)'  BY <1>1 DEF Fine, SoundFine
<1> QED BY <1>2, <1>3, <1>4, <1>5, <1>6 DEF Fine

LEMMA CrashFine ==
    ASSUME TypeOK, NEW m \in Msg, Fine(m), Crash
    PROVE  Fine(m)'
<1> USE DEF Crash, TypeOK, rows
<1>1. /\ Holder(m)' = Holder(m) /\ (Known(m)' <=> Known(m)) /\ m \in hit'
      /\ pc'[m] = (IF pc[m] = "idle" THEN "idle" ELSE "done")
      /\ create'[m] = (IF create[m] = "none" THEN "none" ELSE "done")
      /\ ack[m]["failed"] # "none" => ack'[m]["failed"] # "none"
      /\ read'[m] = NoRow
  BY DEF Holder, Known, Ack
<1>2. RequestFine(m)'  BY <1>1 DEF Fine, RequestFine
<1>3. RaceFine(m)'  BY <1>1 DEF Fine, RaceFine
<1>4. FailedFine(m)'  BY <1>1 DEF Fine, FailedFine
<1>5. ChainFine(m)'  BY <1>1 DEF Fine, ChainFine
<1>6. SoundFine(m)'  BY <1>1 DEF SoundFine
<1> QED BY <1>2, <1>3, <1>4, <1>5, <1>6 DEF Fine

-----------------------------------------------------------------------------
\* The invariant.

LEMMA InitKeeps == Init => IInv
<1> SUFFICES ASSUME Init PROVE IInv  OBVIOUS
<1>1. TypeOK
  BY OutgoingAssumption DEF Init, TypeOK, OutgoingAssumption
<1>2. ASSUME NEW m \in Msg  PROVE Fine(m)
  BY DEF Init, Fine, RequestFine, RaceFine, FailedFine, ChainFine, SoundFine, Known, Holder
<1> QED BY <1>1, <1>2 DEF IInv

LEMMA MessageKeeps ==
    ASSUME IInv, NEW m \in Msg, SomeStep(m)
    PROVE  IInv'
<1> USE DEF IInv
<1>1. TypeOK'
  BY SendTypes, EventTypes, ReceiptTypes, ReactionTypes, Zenon DEF SomeStep
<1>2. Fine(m)'
  <2>1. CASE Begin(m)  BY <2>1, BeginFine
  <2>2. CASE Transmit(m)  BY <2>2, TransmitFine
  <2>3. CASE Accept(m) \/ Reject(m)  BY <2>3, AnswerFine
  <2>4. CASE SendStep(m)
    BY <2>4, SaveFailedFine, SaveSentFine, SaveBulkFine, MergeFine, DropFine DEF SendStep
  <2>5. CASE EventStep(m)
    BY <2>5, EchoArrivesFine, EchoPersistsFine, ReadReactionsFine, WriteReactionsFine DEF EventStep
  <2>6. CASE ReapRow(m)  BY <2>6, ReapRowFine
  <2>7. CASE \E a \in Ack : AckArrives(m, a) \/ AdvanceAck(m, a)
    BY <2>7, AckArrivesFine, AdvanceAckFine
  <2>8. CASE \E r \in Reactor, given \in BOOLEAN : ReactionArrives(m, r, given)
    <3>1. Same(m)  BY <2>8 DEF ReactionArrives, Same, rows, send, Sound
    <3> QED BY <3>1, FineSame
  <2> QED BY <2>1, <2>2, <2>3, <2>4, <2>5, <2>6, <2>7, <2>8 DEF SomeStep
<1>3. ASSUME NEW n \in Msg, n # m  PROVE Fine(n)'
  BY <1>3, OthersSame, FineSame
<1> QED BY <1>1, <1>2, <1>3

LEMMA NextIs ==
    ASSUME Next
    PROVE  \/ \E m \in Msg : SomeStep(m)
           \/ Retire \/ Crash \/ \E stale \in SUBSET Msg : Sweep(stale)
BY Zenon DEF Next, SomeStep

LEMMA StepKeeps == IInv /\ [Next]_vars => IInv'
<1> SUFFICES ASSUME IInv, [Next]_vars  PROVE IInv'  OBVIOUS
<1>1. CASE \E m \in Msg : SomeStep(m)
  BY <1>1, MessageKeeps
<1>2. CASE Retire
  BY <1>2, RetireFine, ProcessTypes DEF IInv
<1>3. CASE Crash
  BY <1>3, CrashFine, ProcessTypes DEF IInv
<1>4. CASE \E stale \in SUBSET Msg : Sweep(stale)
  <2>1. ASSUME NEW n \in Msg  PROVE Same(n)
    BY <1>4 DEF Sweep, Same, rows, send, mutation, Sound
  <2> QED BY <1>4, <2>1, FineSame, ProcessTypes DEF IInv
<1>5. CASE UNCHANGED vars
  <2>1. ASSUME NEW n \in Msg  PROVE Same(n)
    BY <1>5 DEF Same, vars
  <2>2. TypeOK'  BY <1>5 DEF IInv, TypeOK, vars
  <2> QED BY <2>1, <2>2, FineSame DEF IInv
<1> QED BY <1>1, <1>2, <1>3, <1>4, <1>5, NextIs

THEOREM Invariance == Spec => []IInv
BY InitKeeps, StepKeeps, PTL DEF Spec

\* Every variable keeps to its range.
THEOREM Typed == Spec => []TypeOK
<1>1. IInv => TypeOK  BY DEF IInv
<1> QED BY <1>1, Invariance, PTL

\* A message that was accepted is stored FAILED only for a reason that is true.
THEOREM FailuresAreTrue == Spec => []FailedIsTrue
<1>1. IInv => FailedIsTrue  BY DEF IInv, Fine, FailedFine, FailedIsTrue, TypeOK
<1> QED BY <1>1, Invariance, PTL

\* Unless a fault struck it, a message ends in one row, whichever writer came first.
THEOREM CopiesAreOne == Spec => []OneCopy
<1>1. ASSUME IInv, NEW m \in sent \ hit, pc[m] = "done", create[m] = "done"
      PROVE  (own[m] = NoRow) # (echo[m] = NoRow)
  <2>1. m \in Msg /\ Fine(m) /\ Holder(m) # NoRow  BY <1>1 DEF IInv, TypeOK, Fine, SoundFine
  <2>2. Known(m) => own[m] # NoRow /\ echo[m] = NoRow  BY <2>1 DEF Fine, RaceFine, Known
  <2>3. ~Known(m) => own[m] = NoRow /\ echo[m] # NoRow
    BY <1>1, <2>1 DEF Fine, SoundFine, RequestFine, Holder, Known
  <2> QED BY <2>2, <2>3
<1>2. IInv => OneCopy  BY <1>1 DEF OneCopy
<1> QED BY <1>2, Invariance, PTL

\* The bytes of a message and its reactions survive both races.
THEOREM ContentsAreKept == Spec => []ContentKept
<1>1. ASSUME IInv, NEW m \in sent \ (hit \cup crossed), pc[m] = "done", create[m] = "done",
             kind[m].payload = "bytes"
      PROVE  Holder(m).media = "bytes"
  <2>1. m \in Msg /\ Fine(m) /\ Holder(m) # NoRow  BY <1>1 DEF IInv, TypeOK, Fine, SoundFine
  <2> QED BY <1>1, <2>1 DEF Fine, SoundFine, Holder, Known
<1>2. IInv => MediaKept  BY <1>1 DEF MediaKept
<1>3. IInv => ReactionsKept  BY DEF IInv, Fine, ChainFine, ReactionsKept
<1> QED BY <1>2, <1>3, Invariance, PTL DEF ContentKept

-----------------------------------------------------------------------------
\* The state shown only advances.

Advancing(m) ==
    Holder(m) # NoRow /\ Holder(m)' # NoRow /\ Holder(m).status # Holder(m)'.status
        => <<Holder(m).status, Holder(m)'.status>> \in Forward \/ pc[m] = "merging"

\* A step that leaves the row under the id where it is and as it is.
LEMMA Still ==
    ASSUME NEW m, Holder(m)' = Holder(m)
    PROVE  Advancing(m)
BY DEF Advancing

\* What a request does to its own row is not seen while that is not under the id.
LEMMA RequestAdvances ==
    ASSUME IInv, NEW m \in Msg, SendStep(m) \/ Begin(m)
    PROVE  Advancing(m)
<1> USE DEF IInv, TypeOK
<1>1. Fine(m)  OBVIOUS
<1>2. CASE Begin(m)
  <2>1. own[m] = NoRow  BY <1>1, <1>2 DEF Begin, Fine, RequestFine
  <2>2. echo' = echo /\ (own'[m] = NoRow \/ ~own'[m].known)
    BY <1>2, <2>1 DEF Begin, NewRow
  <2>3. Holder(m)' = Holder(m)  BY <2>1, <2>2 DEF Holder
  <2> QED BY <2>3, Still
<1>3. CASE SaveFailed(m)
  <2>1. own[m] \in Row /\ ~own[m].known
    BY <1>1, <1>3 DEF SaveFailed, Fine, RequestFine, RaceFine, Known
  <2>2. ~own'[m].known /\ echo' = echo
    <3>1. ~FailedRow(m).known  BY <2>1 DEF FailedRow, Row
    <3> QED BY <1>3, <2>1, <3>1 DEF SaveFailed
  <2>3. Holder(m)' = Holder(m)  BY <2>1, <2>2 DEF Holder
  <2> QED BY <2>3, Still
<1>4. CASE SaveSent(m)
  <2>1. own[m] \in Row /\ ~own[m].known
    BY <1>1, <1>4 DEF SaveSent, Fine, RequestFine, RaceFine, Known
  <2>2. echo[m] = NoRow \/ ~own'[m].known
    <3>1. SentRow(m).known <=> result[m] = "id"  BY <2>1 DEF SentRow, Row
    <3> QED BY <1>4, <2>1, <3>1 DEF SaveSent
  <2>3. echo' = echo  BY <1>4 DEF SaveSent
  <2>4. Holder(m) = NoRow \/ Holder(m)' = Holder(m)  BY <2>1, <2>2, <2>3 DEF Holder
  <2> QED BY <2>4 DEF Advancing
<1>5. CASE SaveBulk(m)
  <2>1. own[m] = NoRow
    BY <1>1, <1>5 DEF SaveBulk, Fine, RequestFine
  <2>2. echo[m] = NoRow \/ own'[m] = NoRow \/ ~own'[m].known
    <3>1. NewRow(m, "sent", result[m] = "id").known <=> result[m] = "id"  BY DEF NewRow
    <3> QED BY <1>5, <2>1, <3>1 DEF SaveBulk
  <2>3. echo' = echo  BY <1>5 DEF SaveBulk
  <2>4. Holder(m) = NoRow \/ Holder(m)' = Holder(m)  BY <2>1, <2>2, <2>3 DEF Holder
  <2> QED BY <2>4 DEF Advancing
<1>6. CASE Merge(m)
  BY <1>6 DEF Merge, Advancing
<1>7. CASE Drop(m)
  <2>1. ~Known(m)  BY <1>1, <1>7 DEF Drop, Fine, RaceFine
  <2>2. (own'[m] = NoRow \/ own'[m] = own[m]) /\ echo' = echo  BY <1>7 DEF Drop
  <2>3. Holder(m)' = Holder(m)  BY <2>1, <2>2 DEF Holder, Known
  <2> QED BY <2>3, Still
<1> QED BY <1>2, <1>3, <1>4, <1>5, <1>6, <1>7 DEF SendStep

LEMMA EventAdvances ==
    ASSUME IInv, NEW m \in Msg, EventStep(m) \/ ReapRow(m)
    PROVE  Advancing(m)
<1> USE DEF IInv, TypeOK
<1>1. Fine(m)  OBVIOUS
<1>2. CASE EchoArrives(m) \/ ReadReactions(m)
  BY <1>2, Still DEF EchoArrives, ReadReactions, Holder, rows
<1>3. CASE EchoPersists(m)
  <2>1. Holder(m) = NoRow \/ Holder(m)' = Holder(m)  BY <1>3 DEF EchoPersists, Holder
  <2> QED BY <2>1 DEF Advancing
<1>4. CASE WriteReactions(m)
  <2>1. Holder(m) \in Row /\ read[m] \in Row
    BY <1>1, <1>4, HolderType DEF WriteReactions, Fine, ChainFine
  <2>2. CASE UNCHANGED <<own, echo>>  BY <2>2, Still DEF Holder
  <2> DEFINE row == [Holder(m) EXCEPT !.media = read[m].media,
                         !.reactions = Apply(Head(queue[m]), read[m].reactions)]
  <2>3. CASE UpdateHolder(m, row)
    <3>1. Apply(Head(queue[m]), read[m].reactions) \in SUBSET Reactor
      BY <1>4, <2>1, ApplyType, ChainType DEF Row, WriteReactions
    <3>2. row \in Row /\ row.known = Holder(m).known /\ row.status = Holder(m).status
      BY <2>1, <3>1 DEF Row
    <3> HIDE DEF row
    <3>3. Holder(m)' = row
      BY <2>1, <2>3, <3>2, Updated, NoRowAssumption
    <3> QED BY <3>2, <3>3 DEF Advancing
  <2> QED BY <1>4, <2>2, <2>3 DEF WriteReactions
<1>5. CASE ReapRow(m)
  <2>1. CASE own' = own  BY <1>5, <2>1, Still DEF ReapRow, Holder
  <2>2. CASE Pending(m) /\ own' = [own EXCEPT ![m] = [FailedRow(m) EXCEPT !.reaped = TRUE]]
    <3>1. own[m] \in Row /\ ~own[m].known
      BY <1>1, <2>2 DEF Pending, Fine, RaceFine, Known
    <3>2. ~own'[m].known
      BY <2>2, <3>1 DEF FailedRow, Row
    <3>3. Holder(m)' = Holder(m)  BY <1>5, <3>1, <3>2 DEF Holder, ReapRow
    <3> QED BY <3>3, Still
  <2> QED BY <1>5, <2>1, <2>2 DEF ReapRow
<1> QED BY <1>2, <1>3, <1>4, <1>5 DEF EventStep

LEMMA ReceiptAdvances ==
    ASSUME IInv, NEW m \in Msg, NEW a \in Ack, AdvanceAck(m, a)
    PROVE  Advancing(m)
<1> USE DEF IInv
<1>1. CASE UNCHANGED rows  BY <1>1, Still DEF Holder, rows
<1> DEFINE row == [Holder(m) EXCEPT !.status = a]
<1>2. CASE Advances(m, a) /\ UpdateHolder(m, row)
  <2>1. Holder(m) \in Row  BY <1>2, HolderType DEF Advances
  <2>2. row \in Row /\ row.known = Holder(m).known /\ row.status = a
    BY <2>1 DEF Row, Status, Ack
  <2> HIDE DEF row
  <2>3. Holder(m)' = row  BY <1>2, <2>1, <2>2, Updated, NoRowAssumption
  <2>4. <<Holder(m).status, a>> \in Forward
    BY <1>2 DEF Advances, AckFrom, Forward, Ack
  <2> QED BY <2>2, <2>3, <2>4 DEF Advancing
<1> QED BY <1>1, <1>2 DEF AdvanceAck

\* What is shown under the id of a message only advances, but for the merge.
THEOREM OnlyMergesRegress == Spec => OnlyMergeRegresses
<1>1. ASSUME IInv, [Next]_vars, NEW m \in Msg  PROVE Advancing(m)
  <2>1. CASE \E n \in Msg : SomeStep(n)
    <3>1. PICK n \in Msg : SomeStep(n)  BY <2>1
    <3>2. CASE n # m
      <4>1. Same(m)  BY <1>1, <3>1, <3>2, OthersSame DEF IInv
      <4> QED BY <4>1, Still DEF Same, Holder
    <3>3. CASE n = m
      <4>1. CASE SendStep(m) \/ Begin(m)  BY <1>1, <4>1, RequestAdvances
      <4>2. CASE EventStep(m) \/ ReapRow(m)  BY <1>1, <4>2, EventAdvances
      <4>3. CASE \E a \in Ack : AdvanceAck(m, a)  BY <1>1, <4>3, ReceiptAdvances
      <4>4. CASE own' = own /\ echo' = echo  BY <4>4, Still DEF Holder
      <4>5. Transmit(m) \/ Accept(m) \/ Reject(m) => own' = own /\ echo' = echo
        BY DEF Transmit, Accept, Reject, rows
      <4>6. (\E a \in Ack : AckArrives(m, a)) => own' = own /\ echo' = echo
        BY DEF AckArrives, rows
      <4>7. (\E r \in Reactor, given \in BOOLEAN : ReactionArrives(m, r, given))
              => own' = own /\ echo' = echo
        BY DEF ReactionArrives, rows
      <4> QED BY <3>1, <3>3, <4>1, <4>2, <4>3, <4>4, <4>5, <4>6, <4>7 DEF SomeStep
    <3> QED BY <3>2, <3>3
  <2>2. CASE Retire \/ Crash \/ (\E stale \in SUBSET Msg : Sweep(stale)) \/ UNCHANGED vars
    <3>1. own' = own /\ echo' = echo  BY <2>2 DEF Retire, Crash, Sweep, rows, vars
    <3> QED BY <3>1, Still DEF Holder
  <2> QED BY <1>1, <2>1, <2>2, NextIs
<1>2. IInv /\ [Next]_vars =>
        [\A m \in Msg :
            LET was == Holder(m)  is == Holder(m)'
            IN  was # NoRow /\ is # NoRow /\ was.status # is.status
                => <<was.status, is.status>> \in Forward \/ pc[m] = "merging"]_vars
  BY <1>1 DEF Advancing
<1> QED BY <1>2, Invariance, PTL DEF Spec, OnlyMergeRegresses
=============================================================================
