------------------------------- MODULE Lease -------------------------------
(***************************************************************************)
(* What the sessions table promises the processes of the cluster about a   *)
(* session's claim: while its lease has not run out, a claim is prolonged, *)
(* given up or replaced by a statement of its own holder only, whatever    *)
(* statements the others have sent from an older view of the row, and a    *)
(* process that is told it owns a session does own it at that moment.      *)
(* Only the deletion of the row itself asks for no holder.                 *)
(*                                                                         *)
(* The table is seen from its clients: `sent` holds the statements a       *)
(* process has sent and that have not reached the table, `granted` the     *)
(* claims it has been answered.  A statement leaves `sent` in the step     *)
(* that executes it, or in one that loses it (a failure, a crash).         *)
(* SessionOwnership implements this with the column `nodeId` for the       *)
(* holder and "leaseExpiresAt is in the past" for the expiry.              *)
(***************************************************************************)
CONSTANTS Node,      \* the processes that may host an engine (NODE_ID)
          Session,   \* the rows of the sessions table
          NoNode     \* nodeId IS NULL

VARIABLES holder,    \* [Session -> Node \cup {NoNode}]
          expired,   \* [Session -> BOOLEAN]: leaseExpiresAt < now
          sent,      \* [Node -> Statements]: on their way to the table
          granted    \* [Node -> SUBSET Session]: claims answered with "yours"

leaseVars == <<holder, expired, sent, granted>>

\* For each kind of statement, the rows it names.
Statements == [renew : SUBSET Session, release : SUBSET Session,
               releaseAll : SUBSET Session, remove : SUBSET Session]
Nothing    == [renew |-> {}, release |-> {}, releaseAll |-> {}, remove |-> {}]

LeaseTypeOK == /\ holder \in [Session -> Node \cup {NoNode}]
               /\ expired \in [Session -> BOOLEAN]
               /\ sent \in [Node -> Statements]
               /\ granted \in [Node -> SUBSET Session]

Init == /\ holder = [s \in Session |-> NoNode]
        /\ expired = [s \in Session |-> FALSE]
        /\ sent = [n \in Node |-> Nothing]
        /\ granted = [n \in Node |-> {}]

\* The step in which a statement that n sent has reached the row, or is lost.
Consumed(n, kind, s) == s \in sent[n][kind] /\ s \notin sent'[n][kind]

\* The step in which n is told that it owns the session.
Told(n, s) == s \in granted'[n] /\ s \notin granted[n]

Vacated(s) == holder'[s] = NoNode /\ ~expired'[s]

Expire(s) == holder[s] # NoNode /\ holder'[s] = holder[s] /\ expired'[s]

\* claim(): of nobody's row, one's own, or one whose lease has run out.
Acquire(n, s) == /\ Told(n, s)
                 /\ holder[s] \in {NoNode, n} \/ expired[s]
                 /\ holder'[s] = n /\ ~expired'[s]

\* renew(): of one's own claim only, run out or not.
Extend(n, s) == /\ Consumed(n, "renew", s)
                /\ holder[s] = n
                /\ holder'[s] = n /\ ~expired'[s]

\* release(): of one's own claim, or of one whose lease has run out.
Release(n, s) == /\ Consumed(n, "release", s)
                 /\ holder[s] = n \/ expired[s]
                 /\ Vacated(s)

\* releaseAll(): of one's own claim only.
ReleaseAll(n, s) == Consumed(n, "releaseAll", s) /\ holder[s] = n /\ Vacated(s)

\* delete(): the row goes, whoever holds it.
Remove(n, s) == Consumed(n, "remove", s) /\ Vacated(s)

Unchanged(s) == holder'[s] = holder[s] /\ expired'[s] = expired[s]

\* One statement may name several rows (a batched renewal), so a step is a
\* conjunction over the rows rather than the choice of one of them.
Next == /\ LeaseTypeOK'
        /\ \A s \in Session :
              \/ Unchanged(s) \/ Expire(s)
              \/ \E n \in Node : \/ Acquire(n, s) \/ Extend(n, s) \/ Release(n, s)
                                 \/ ReleaseAll(n, s) \/ Remove(n, s)
        /\ \A n \in Node, s \in Session : Told(n, s) => Acquire(n, s)

Spec == Init /\ [][Next]_leaseVars
=============================================================================
