-------------------------- MODULE OutgoingMessages --------------------------
(***************************************************************************)
(* The rows of the messages table that stand for what an account sent.     *)
(*                                                                         *)
(* Four writers meet on one message.  The request that sends it saves a    *)
(* PENDING row first and resolves it once the engine has answered (a bulk  *)
(* item is saved only then).  The engine's own-send echo inserts a row of  *)
(* its own under the unique (sessionId, waMessageId).  Acknowledgements    *)
(* advance the row that carries the id, and reactions rewrite its          *)
(* metadata.  A reaper fails the PENDING rows that nobody resolved.        *)
(* Every action is one statement on the table, or what runs between two.   *)
(***************************************************************************)
EXTENDS Naturals, Sequences

CONSTANTS Msg, NoRow,
          Reactor,      \* the senders of reactions
          Origins,      \* who sends: a request, a bulk batch, the linked phone
          Payloads,     \* what is sent: text, media by URL, media bytes
          Faults,       \* what may go wrong
          MaxEvents,    \* bound on the receipts and reactions of a behaviour
          MaxFaults     \* bound on the faults of a behaviour

ASSUME OutgoingAssumption ==
    /\ Origins \subseteq {"api", "bulk", "phone"} /\ Origins # {}
    /\ Payloads \subseteq {"none", "url", "bytes"} /\ Payloads # {}
    /\ Faults \subseteq {"refused", "unsure", "noid", "database", "retire", "crash"}
    /\ MaxFaults \in Nat /\ MaxEvents \in Nat

VARIABLES
    kind,        \* [Msg -> Kind]: who sends it, and what it carries
    own, echo,   \* [Msg -> Row]: the sender's row, and the one its echo inserted
    pc, result,  \* where the sending request is, and the id the engine gave it
    sent,        \* the messages WhatsApp has accepted
    create,      \* the own-send echo: on its way, in its hook, or past its insert
    ack,         \* [Msg -> [Ack -> where the handler of that receipt is]]
    queue, read, \* the mutation chain of a message, and what its head has read
    reacted,     \* ghost: the reactions of a message as they were applied
    crossed,     \* ghost: a merge came between the read and the write of a reaction
    events,      \* the receipts and reactions left
    sweep,       \* the rows the reaper has listed
    hit, faults  \* ghost: the messages a fault struck; the faults left

rows == <<own, echo>>
send == <<pc, result, sent>>
mutation == <<queue, read, reacted, crossed>>
vars == <<kind, own, echo, pc, result, sent, create, ack, queue, read, reacted,
          crossed, sweep, hit, faults, events>>

Status == {"pending", "sent", "delivered", "read", "failed"}
Ack    == {"delivered", "read", "failed"}
Media  == {"none", "url", "bytes", "marker", "stripped"}
Kind   == [origin : Origins, payload : Payloads]
Row    == [status : Status, known : BOOLEAN, media : Media,
           reactions : SUBSET Reactor, reaped : BOOLEAN]
Work   == [by : Reactor, given : BOOLEAN]

ASSUME NoRowAssumption == NoRow \notin Row

\* A row of this message's payload, with or without the engine's id.
NewRow(m, status, known) ==
    [status |-> status, known |-> known, media |-> kind[m].payload,
     reactions |-> {}, reaped |-> FALSE]

\* The row that UPDATE ... WHERE waMessageId = m finds.
Holder(m) == IF own[m] # NoRow /\ own[m].known THEN own[m] ELSE echo[m]

\* Writes a row back where Holder found it.
UpdateHolder(m, row) ==
    IF own[m] # NoRow /\ own[m].known
      THEN own' = [own EXCEPT ![m] = row] /\ UNCHANGED echo
      ELSE echo' = [echo EXCEPT ![m] = row] /\ UNCHANGED own

\* Mutant: every receipt is written.
AckFromAny(a) == Status

\* Mutant: only the state a send leaves is advanced.
AckFromSent(a) == {"pending", "sent"}

\* ackStatusTransitionFrom: the states a receipt may advance a row from.
AckFrom(a) == IF a = "read" THEN {"pending", "sent", "delivered"} ELSE {"pending", "sent"}

Fault(kinds, m) == /\ faults > 0 /\ kinds \cap Faults # {}
                   /\ faults' = faults - 1
                   /\ hit' = hit \cup {m}

Sound == UNCHANGED <<hit, faults>>

Init == /\ kind \in [Msg -> Kind]
        /\ own = [m \in Msg |-> NoRow] /\ echo = [m \in Msg |-> NoRow]
        /\ pc = [m \in Msg |-> "idle"] /\ result = [m \in Msg |-> "none"]
        /\ sent = {}
        /\ create = [m \in Msg |-> "none"]
        /\ ack = [m \in Msg |-> [a \in Ack |-> "none"]]
        /\ queue = [m \in Msg |-> <<>>] /\ read = [m \in Msg |-> NoRow]
        /\ reacted = [m \in Msg |-> {}] /\ crossed = {} /\ events = MaxEvents
        /\ sweep = {} /\ hit = {} /\ faults = MaxFaults

-----------------------------------------------------------------------------
(* The request (sendText and its kin), and the bulk item.                  *)

\* The gate passed: the PENDING row is saved before the engine is asked.  A bulk
\* item asks first.  Nothing is left behind when the gate or the save refuses.
Begin(m) ==
    /\ pc[m] = "idle" /\ kind[m].origin # "phone"
    /\ \/ /\ pc' = [pc EXCEPT ![m] = "sending"]
          /\ own' = IF kind[m].origin = "api"
                      THEN [own EXCEPT ![m] = NewRow(m, "pending", FALSE)] ELSE own
       \/ pc' = [pc EXCEPT ![m] = "done"] /\ UNCHANGED own
    /\ UNCHANGED <<kind, events, echo, result, sent, create, ack, mutation, sweep>> /\ Sound

\* WhatsApp takes the message, while the request still waits for the engine.
Transmit(m) ==
    /\ m \notin sent
    /\ IF kind[m].origin = "phone"
         THEN pc[m] = "idle" /\ pc' = [pc EXCEPT ![m] = "done"]
         ELSE pc[m] = "sending" /\ UNCHANGED pc
    /\ sent' = sent \cup {m}
    /\ create' = [create EXCEPT ![m] = "event"]
    /\ UNCHANGED <<kind, events, own, echo, result, ack, mutation, sweep>> /\ Sound

\* The engine answers, with the id or (an id it could not read back) without one.
Accept(m) ==
    /\ pc[m] = "sending" /\ m \in sent
    /\ pc' = [pc EXCEPT ![m] = "accepted"]
    /\ \/ result' = [result EXCEPT ![m] = "id"] /\ Sound
       \/ result' = [result EXCEPT ![m] = "empty"] /\ Fault({"noid"}, m)
    /\ UNCHANGED <<kind, events, rows, sent, create, ack, mutation, sweep>>

\* The engine throws: nothing left the account, or (unsure) something did.
Reject(m) ==
    /\ pc[m] = "sending"
    /\ IF m \in sent THEN Fault({"unsure"}, m) ELSE Fault({"refused"}, m)
    /\ pc' = [pc EXCEPT ![m] = IF kind[m].origin = "api" THEN "rejected" ELSE "done"]
    /\ UNCHANGED <<kind, events, rows, result, sent, create, ack, mutation, sweep>>

\* The sender's row as FAILED, without the payload's bytes.
FailedRow(m) == [own[m] EXCEPT !.status = "failed",
                    !.media = IF kind[m].payload = "none" THEN own[m].media ELSE "stripped"]

\* failSend and saveFailedMessage.
SaveFailed(m) ==
    /\ pc[m] = "rejected"
    /\ pc' = [pc EXCEPT ![m] = "done"]
    /\ \/ own' = [own EXCEPT ![m] = FailedRow(m)] /\ Sound
       \/ UNCHANGED own /\ Fault({"database"}, m)
    /\ UNCHANGED <<kind, events, echo, result, sent, create, ack, mutation, sweep>>

\* The metadata of the whole-entity save replaces what the reaper stored, if any.
SentRow(m) == [own[m] EXCEPT !.status = "sent", !.known = (result[m] = "id"),
                  !.media = kind[m].payload,
                  !.reaped = own[m].reaped /\ kind[m].payload = "none"]

\* Mutant: a SENT write that fails is treated as a failed send.
SaveSentStrict(m) ==
    /\ pc[m] = "accepted" /\ kind[m].origin = "api"
    /\ \/ /\ result[m] = "id" /\ echo[m] # NoRow
          /\ pc' = [pc EXCEPT ![m] = "rejected"]
          /\ UNCHANGED own /\ Sound
       \/ /\ result[m] = "empty" \/ echo[m] = NoRow
          /\ pc' = [pc EXCEPT ![m] = "done"]
          /\ own' = [own EXCEPT ![m] = SentRow(m)] /\ Sound
    /\ UNCHANGED <<kind, events, echo, result, sent, create, ack, mutation, sweep>>

\* persistSentState: the row becomes SENT under its id, unless the echo has the
\* id already.  A write that fails is only logged: the message has been sent.
SaveSent(m) ==
    /\ pc[m] = "accepted" /\ kind[m].origin = "api"
    /\ \/ /\ result[m] = "id" /\ echo[m] # NoRow
          /\ pc' = [pc EXCEPT ![m] = "merging"]
          /\ UNCHANGED own /\ Sound
       \/ /\ result[m] = "empty" \/ echo[m] = NoRow
          /\ pc' = [pc EXCEPT ![m] = "done"]
          /\ own' = [own EXCEPT ![m] = SentRow(m)] /\ Sound
       \/ /\ pc' = [pc EXCEPT ![m] = "done"]
          /\ UNCHANGED own /\ Fault({"database"}, m)
    /\ UNCHANGED <<kind, events, echo, result, sent, create, ack, mutation, sweep>>

\* saveOutgoingMessage of a bulk item: the row is inserted SENT, under its id.
SaveBulk(m) ==
    /\ pc[m] = "accepted" /\ kind[m].origin = "bulk"
    /\ \/ /\ result[m] = "id" /\ echo[m] # NoRow
          /\ pc' = [pc EXCEPT ![m] = "merging"]
          /\ UNCHANGED own /\ Sound
       \/ /\ result[m] = "empty" \/ echo[m] = NoRow
          /\ pc' = [pc EXCEPT ![m] = "done"]
          /\ own' = [own EXCEPT ![m] = NewRow(m, "sent", result[m] = "id")] /\ Sound
       \/ /\ pc' = [pc EXCEPT ![m] = "done"]
          /\ UNCHANGED own /\ Fault({"database"}, m)
    /\ UNCHANGED <<kind, events, echo, result, sent, create, ack, mutation, sweep>>

\* Mutant: only the state is merged.
MergedBare(m) == [echo[m] EXCEPT !.status = "sent"]

\* The echo's row as the merge leaves it: SENT whatever it was, and this send's
\* metadata in place of its own when there is a payload other than a URL.
Merged(m) == IF kind[m].payload = "bytes"
               THEN [echo[m] EXCEPT !.status = "sent", !.media = "bytes",
                                    !.reactions = {}]
               ELSE [echo[m] EXCEPT !.status = "sent"]

\* The echo won: merge onto its row.  A failing merge does not keep the request
\* from dropping its own.
Merge(m) ==
    /\ pc[m] = "merging"
    /\ pc' = [pc EXCEPT ![m] = IF kind[m].origin = "api" THEN "dropping" ELSE "done"]
    /\ \/ echo' = [echo EXCEPT ![m] = Merged(m)] /\ Sound
       \/ UNCHANGED echo /\ Fault({"database"}, m)
    /\ crossed' = IF read[m] = NoRow THEN crossed ELSE crossed \cup {m}
    /\ UNCHANGED <<kind, events, own, result, sent, create, ack, queue, read, reacted, sweep>>

\* Mutant: the redundant row stays.
DropNothing(m) ==
    /\ pc[m] = "dropping"
    /\ pc' = [pc EXCEPT ![m] = "done"]
    /\ UNCHANGED <<kind, events, rows, result, sent, create, ack, mutation, sweep>> /\ Sound

Drop(m) ==
    /\ pc[m] = "dropping"
    /\ pc' = [pc EXCEPT ![m] = "done"]
    /\ \/ own' = [own EXCEPT ![m] = NoRow] /\ Sound
       \/ UNCHANGED own /\ Fault({"database"}, m)
    /\ UNCHANGED <<kind, events, echo, result, sent, create, ack, mutation, sweep>>

-----------------------------------------------------------------------------
(* The engine's events (MessageProjector).                                 *)

\* handleOwnSendEcho: a live engine's echo goes through the message:sent hook.
EchoArrives(m) ==
    /\ create[m] = "event"
    /\ create' = [create EXCEPT ![m] = "hook"]
    /\ UNCHANGED <<kind, events, rows, send, ack, mutation, sweep>> /\ Sound

\* What an echo carries of the media: the bytes, downloaded, or (Baileys, for what
\* this gateway sent) a marker.
EchoMedia(m) == IF kind[m].payload = "none" THEN {"none"}
                ELSE IF kind[m].origin = "phone" THEN {"bytes"} ELSE {"bytes", "marker"}

\* After the hook the row is inserted, unless the send has stored the id.
EchoPersists(m) ==
    /\ create[m] = "hook"
    /\ create' = [create EXCEPT ![m] = "done"]
    /\ \/ /\ Holder(m) = NoRow
          /\ \E media \in EchoMedia(m) :
                echo' = [echo EXCEPT ![m] = [NewRow(m, "sent", TRUE) EXCEPT !.media = media]]
          /\ Sound
       \/ Holder(m) # NoRow /\ UNCHANGED echo /\ Sound
       \/ UNCHANGED echo /\ Fault({"database"}, m)
    /\ UNCHANGED <<kind, events, own, send, ack, mutation, sweep>>

\* handleMessageAck: each receipt is handled on its own, whatever their order.
AckArrives(m, a) ==
    /\ m \in sent /\ ack[m][a] = "none" /\ events > 0
    /\ events' = events - 1
    /\ ack' = [ack EXCEPT ![m][a] = "first"]
    /\ UNCHANGED <<kind, rows, send, create, mutation, sweep>> /\ Sound

Advances(m, a) == Holder(m) # NoRow /\ Holder(m).status \in AckFrom(a)

\* advanceAck: the guarded UPDATE; a first one that matches no row arms the
\* timer, a second one gives up, and so does either when the statement fails.
AdvanceAck(m, a) ==
    /\ ack[m][a] \in {"first", "timer"}
    /\ \/ /\ Advances(m, a)
          /\ UpdateHolder(m, [Holder(m) EXCEPT !.status = a])
          /\ ack' = [ack EXCEPT ![m][a] = "done"] /\ Sound
       \/ /\ ~Advances(m, a)
          /\ ack' = [ack EXCEPT ![m][a] = IF @ = "first" THEN "timer" ELSE "done"]
          /\ UNCHANGED rows /\ Sound
       \/ /\ ack' = [ack EXCEPT ![m][a] = "done"]
          /\ UNCHANGED rows /\ Fault({"database"}, m)
    /\ UNCHANGED <<kind, events, send, create, mutation, sweep>>

\* applyReactionQueued: the work, a reaction given or withdrawn, goes to the end of
\* the message's chain.
ReactionArrives(m, r, given) ==
    /\ m \in sent /\ events > 0
    /\ events' = events - 1
    /\ queue' = [queue EXCEPT ![m] = Append(@, [by |-> r, given |-> given])]
    /\ UNCHANGED <<kind, rows, send, create, ack, read, reacted, crossed, sweep>> /\ Sound

\* The reactions of a message once a reaction has been applied to them.
Apply(work, set) == IF work.given THEN set \cup {work.by} ELSE set \ {work.by}

\* The head of the chain has settled: the next work runs.
Dequeue(m) == queue' = [queue EXCEPT ![m] = Tail(@)]

\* applyReaction reads the row; without one it only notifies.
ReadReactions(m) ==
    /\ queue[m] # <<>> /\ read[m] = NoRow
    /\ IF Holder(m) = NoRow
         THEN Dequeue(m) /\ UNCHANGED read
         ELSE read' = [read EXCEPT ![m] = Holder(m)] /\ UNCHANGED queue
    /\ UNCHANGED <<kind, events, rows, send, create, ack, reacted, crossed, sweep>> /\ Sound

\* Mutant: the row that was read is kept for the next work of the chain.
WriteReactionsCached(m) ==
    /\ queue[m] # <<>> /\ read[m] # NoRow
    /\ UpdateHolder(m, [Holder(m) EXCEPT !.media = read[m].media,
                           !.reactions = Apply(Head(queue[m]), read[m].reactions)])
    /\ reacted' = [reacted EXCEPT ![m] = Apply(Head(queue[m]), @)] /\ Sound
    /\ Dequeue(m)
    /\ UNCHANGED <<kind, events, send, create, ack, read, crossed, sweep>>

\* ... and writes the metadata column, that alone, from what it read.
WriteReactions(m) ==
    /\ queue[m] # <<>> /\ read[m] # NoRow
    /\ \/ /\ UpdateHolder(m, [Holder(m) EXCEPT !.media = read[m].media,
                                  !.reactions = Apply(Head(queue[m]), read[m].reactions)])
          /\ reacted' = [reacted EXCEPT ![m] = Apply(Head(queue[m]), @)] /\ Sound
       \/ UNCHANGED <<own, echo, reacted>> /\ Fault({"database"}, m)
    /\ Dequeue(m)
    /\ read' = [read EXCEPT ![m] = NoRow]
    /\ UNCHANGED <<kind, events, send, create, ack, crossed, sweep>>

-----------------------------------------------------------------------------
(* The reaper, and the faults of the process.                              *)

Pending(m) == own[m] # NoRow /\ own[m].status = "pending"

\* The rows that have been PENDING for longer than the grace window.
Sweep(stale) ==
    /\ sweep = {} /\ stale # {}
    /\ \A m \in stale : Pending(m)
    /\ sweep' = stale
    /\ UNCHANGED <<kind, events, rows, send, create, ack, mutation>> /\ Sound

\* Mutant: the guard names the state the row is to have.
ReapRowGuarded(m) ==
    /\ m \in sweep
    /\ sweep' = sweep \ {m}
    /\ UNCHANGED <<kind, events, rows, send, create, ack, mutation>> /\ Sound

\* reapRow: the guard is in the UPDATE, so a send that resolved keeps its outcome.
ReapRow(m) ==
    /\ m \in sweep
    /\ sweep' = sweep \ {m}
    /\ \/ /\ Pending(m)
          /\ own' = [own EXCEPT ![m] = [FailedRow(m) EXCEPT !.reaped = TRUE]]
          /\ Sound
       \/ ~Pending(m) /\ UNCHANGED own /\ Sound
       \/ UNCHANGED own /\ Fault({"database"}, m)
    /\ UNCHANGED <<kind, events, echo, send, create, ack, mutation>>

\* The engine is replaced: its echoes that are not yet inserted are dropped.
Retire ==
    /\ faults > 0 /\ "retire" \in Faults /\ faults' = faults - 1
    /\ LET lost == {m \in Msg : create[m] \in {"event", "hook"}} IN
       /\ lost # {} /\ hit' = hit \cup lost
       /\ create' = [m \in Msg |-> IF m \in lost THEN "done" ELSE create[m]]
    /\ UNCHANGED <<kind, events, rows, send, ack, mutation, sweep>>

\* The process dies: what it had in memory is gone, the rows stay.
Crash ==
    /\ faults > 0 /\ "crash" \in Faults
    /\ faults' = faults - 1 /\ hit' = Msg
    /\ pc' = [m \in Msg |-> IF pc[m] = "idle" THEN "idle" ELSE "done"]
    /\ create' = [m \in Msg |-> IF create[m] = "none" THEN "none" ELSE "done"]
    /\ ack' = [m \in Msg |-> [a \in Ack |-> IF ack[m][a] = "none" THEN "none" ELSE "done"]]
    /\ queue' = [m \in Msg |-> <<>>] /\ read' = [m \in Msg |-> NoRow]
    /\ sweep' = {}
    /\ UNCHANGED <<kind, events, rows, result, sent, reacted, crossed>>

SendStep(m) == \/ SaveFailed(m) \/ SaveSent(m) \/ SaveBulk(m) \/ Merge(m) \/ Drop(m)
EventStep(m) == \/ EchoArrives(m) \/ EchoPersists(m)
                \/ ReadReactions(m) \/ WriteReactions(m)

Next == \/ \E m \in Msg : \/ Begin(m) \/ Transmit(m) \/ Accept(m) \/ Reject(m)
                          \/ SendStep(m) \/ EventStep(m) \/ ReapRow(m)
                          \/ \E a \in Ack : AckArrives(m, a) \/ AdvanceAck(m, a)
                          \/ \E r \in Reactor, given \in BOOLEAN : ReactionArrives(m, r, given)
        \/ \E stale \in SUBSET Msg : Sweep(stale)
        \/ Retire \/ Crash

Spec == Init /\ [][Next]_vars

\* Statements settle and timers fire; the engine owes no answer.
FairSpec ==
    /\ Spec
    /\ \A m \in Msg : /\ WF_vars(SendStep(m)) /\ WF_vars(EventStep(m))
                      /\ WF_vars(ReapRow(m))
                      /\ WF_vars(\E stale \in SUBSET Msg : m \in stale /\ Sweep(stale))
                      /\ \A a \in Ack : WF_vars(AdvanceAck(m, a))

-----------------------------------------------------------------------------
(* Properties.                                                             *)

\* Every variable keeps to its range.
TypeOK ==
    /\ kind \in [Msg -> Kind]
    /\ own \in [Msg -> Row \cup {NoRow}] /\ echo \in [Msg -> Row \cup {NoRow}]
    /\ pc \in [Msg -> {"idle", "sending", "accepted", "rejected", "merging", "dropping", "done"}]
    /\ result \in [Msg -> {"none", "id", "empty"}]
    /\ sent \subseteq Msg
    /\ create \in [Msg -> {"none", "event", "hook", "done"}]
    /\ ack \in [Msg -> [Ack -> {"none", "first", "timer", "done"}]]
    /\ queue \in [Msg -> Seq(Work)]
    /\ read \in [Msg -> Row \cup {NoRow}]
    /\ reacted \in [Msg -> SUBSET Reactor] /\ crossed \subseteq Msg
    /\ events \in 0..MaxEvents
    /\ sweep \subseteq Msg /\ hit \subseteq Msg
    /\ faults \in 0..MaxFaults

\* A message WhatsApp accepted is stored FAILED only if WhatsApp said so in a
\* receipt, the engine threw although it had sent it, or the reaper marked the
\* row as its own doing: neither a failing write nor a lost race of
\* persistSentState turns a sent message into a failed one.
FailedIsTrue ==
    \A m \in sent : \A row \in {own[m], echo[m]} \ {NoRow} :
        row.status = "failed" => \/ ack[m]["failed"] # "none"
                                 \/ row.reaped
                                 \/ result[m] = "none" /\ m \in hit

\* Unless a fault struck it, a message that was sent ends in one row: the request
\* that lost the race to its echo drops its own, and neither writer leaves none.
OneCopy ==
    \A m \in sent \ hit :
        pc[m] = "done" /\ create[m] = "done" =>
            (own[m] = NoRow) # (echo[m] = NoRow)

\* What was sent with its bytes is stored with its bytes, whichever of the send
\* and its echo stored it first.  crossed is the exception: the merge is not on the
\* chain that serializes the other writers of the metadata.
MediaKept ==
    \A m \in sent \ (hit \cup crossed) :
        pc[m] = "done" /\ create[m] = "done" /\ kind[m].payload = "bytes"
        => Holder(m).media = "bytes"

\* The same without the exception.
MediaSafe ==
    \A m \in sent \ hit :
        pc[m] = "done" /\ create[m] = "done" /\ kind[m].payload = "bytes"
        => Holder(m).media = "bytes"

\* The stored reactions are those applied, in the order they arrived: the chain of
\* a message runs one read-modify-write at a time (a merge that carries metadata starts afresh).
ReactionsKept ==
    \A m \in Msg : kind[m].payload # "bytes" /\ Holder(m) # NoRow
                   => Holder(m).reactions = reacted[m]

\* What a message consists of survives both races.
ContentKept == MediaKept /\ ReactionsKept

Forward == {<<"pending", "sent">>, <<"pending", "delivered">>, <<"pending", "read">>,
            <<"pending", "failed">>, <<"sent", "delivered">>, <<"sent", "read">>,
            <<"sent", "failed">>, <<"delivered", "read">>}

\* The delivery state shown under a message's id only advances, with one writer
\* excepted, the merge onto the echo's row: no late or repeated receipt, no
\* reaction, no reap and no save takes it back.
OnlyMergeRegresses ==
    [][\A m \in Msg :
          LET was == Holder(m)  is == Holder(m)'
          IN  was # NoRow /\ is # NoRow /\ was.status # is.status
              => <<was.status, is.status>> \in Forward \/ pc[m] = "merging"]_vars

\* No row stays PENDING: the request resolves it, or the reaper does, after a
\* crash, a failed write or an engine that never answers.
Resolves == \A m \in Msg : Pending(m) ~> ~Pending(m)

\* A read receipt that meets a stored message ends in READ, unless the message
\* is shown FAILED: one that came before the row had its id has its retry.
ReadShown ==
    \A m \in Msg :
        /\ pc[m] = "done" /\ m \notin hit /\ Holder(m) # NoRow
        /\ ack[m]["read"] \in {"first", "timer"}
        ~> \/ Holder(m) # NoRow /\ Holder(m).status \in {"read", "failed"}
           \/ m \in hit
=============================================================================
