------------------------- MODULE BaileysConnection --------------------------
(***************************************************************************)
(* The connection of one Baileys adapter (engine/adapters/                 *)
(* baileys-lifecycle.ts): the socket it holds, the attempt and the timer   *)
(* that replace a socket that dropped, the latch that retires the adapter, *)
(* its logout, and the credentials it removes when the device is no longer *)
(* linked.  JavaScript runs an event handler to its end, so an event and   *)
(* its handler are one action; awaits separate actions.                    *)
(***************************************************************************)
EXTENDS Naturals, FiniteSets

CONSTANTS Socket, None,
          Faults, MaxFaults   \* what may go wrong, and how often

ASSUME ConnectionAssumption ==
    /\ None \notin Socket
    /\ Faults \subseteq {"drop", "twice", "load", "unlink", "refuse", "rm"}
    /\ MaxFaults \in Nat

VARIABLES
    status,      \* EngineStatus
    latch,       \* intentionalClose
    connect,     \* connect(): "idle", or awaiting on behalf of "init" or "timer"
    timer,       \* reconnectTimer is set
    sock, live,  \* this.sock; the sockets that are connected or connecting
    open, creds, \* of this.sock: it has opened; the credentials it was made with
    linked,      \* WhatsApp knows this device
    auth,        \* the credentials on disk
    wiping,      \* who is removing them: "logout", "remote"
    logout,      \* where the logout request is
    source,      \* the socket it captured
    rendering,   \* a QR is being rendered
    terminal,    \* ghost: the adapter reported that it will not reconnect, and stands by it
    doubled,     \* ghost: a second close of one drop came during the next attempt
    faults

adapter == <<status, latch, connect, timer, sock, live, open, creds>>
request == <<wiping, logout, source>>
vars == <<status, latch, connect, timer, sock, live, open, creds, linked, auth, wiping,
          logout, source, rendering, terminal, doubled, faults>>

Status == {"disconnected", "initializing", "qr", "ready", "failed"}
Fault(kind) == faults > 0 /\ kind \in Faults /\ faults' = faults - 1

Init == /\ status = "disconnected" /\ latch = FALSE
        /\ connect = "new" /\ timer = FALSE
        /\ sock = None /\ live = {} /\ open = FALSE /\ creds = "none"
        /\ linked \in BOOLEAN /\ auth = IF linked THEN "kept" ELSE "none"
        /\ wiping = {} /\ logout = "idle" /\ source = None
        /\ rendering = FALSE /\ terminal = FALSE /\ doubled = FALSE
        /\ faults = MaxFaults

-----------------------------------------------------------------------------
(* Connecting.                                                             *)

\* initialize(): a retired adapter does not start.
Initialize ==
    /\ connect = "new"
    /\ IF latch THEN connect' = "idle" /\ UNCHANGED status
                ELSE connect' = "init" /\ status' = "initializing"
    /\ UNCHANGED <<latch, timer, sock, live, open, creds, linked, auth, request,
                   rendering, terminal, doubled, faults>>

Connecting == connect \in {"init", "timer"}

\* Mutant: the latch is read before the awaits only.
RetiredUnread == FALSE

\* connectInner, after its awaits: the adapter was stopped meanwhile.
Retired == latch

\* Mutant: the previous socket is left to itself.
ReplacedLeaking(s) == live' = live \cup {s} /\ sock' = s

\* The previous socket loses its listeners and is ended; the new one takes its place.
Replaced(s) == live' = (live \ {sock}) \cup {s} /\ sock' = s

\* connectInner loaded the credentials and the version, and makes the socket, which
\* reports 'connecting' in the next tick.
Loaded ==
    /\ Connecting /\ connect' = "idle"
    /\ IF Retired
         THEN UNCHANGED <<sock, live, open, creds, status>>
         ELSE /\ status' = "initializing"
              /\ \E s \in Socket \ (live \cup {sock, source}) : Replaced(s)
              /\ open' = FALSE
              /\ creds' \in IF wiping = {} THEN {auth} ELSE {auth, "none"}
    /\ UNCHANGED <<latch, timer, linked, auth, request, rendering, terminal, doubled, faults>>

\* scheduleReconnect(): one timer, and none for a retired adapter.
Reschedule == IF latch THEN UNCHANGED timer ELSE timer' = TRUE

\* An await of connect() rejects: fatal for initialize(), a retry for the timer.
LoadFails ==
    /\ Connecting /\ Fault("load")
    /\ connect' = "idle"
    /\ IF connect = "init"
         THEN status' = "failed" /\ terminal' = TRUE /\ UNCHANGED timer
         ELSE Reschedule /\ UNCHANGED <<status, terminal>>
    /\ UNCHANGED <<latch, sock, live, open, creds, linked, auth, request, rendering, doubled>>

\* Mutant: the timer waits for a state that a drop no longer leaves.
TimerFiresWaiting ==
    /\ timer /\ ~rendering
    /\ UNCHANGED <<adapter, linked, auth, request, rendering, terminal, doubled, faults>>

\* The timer fires: connect(), unless the adapter is retired or an attempt is under
\* way.  The delay is a second at least, longer than a QR takes to render.
TimerFires ==
    /\ timer /\ ~rendering
    /\ timer' = FALSE
    /\ IF latch \/ Connecting
         THEN UNCHANGED <<connect, status>>
         ELSE connect' = "timer" /\ status' = "initializing"
    /\ UNCHANGED <<latch, sock, live, open, creds, linked, auth, request, rendering,
                   terminal, doubled, faults>>

-----------------------------------------------------------------------------
(* Events of the socket (handleConnectionUpdate).                          *)

Up == sock \in live

\* connection 'open'.
Opens ==
    /\ Up /\ ~open /\ creds = "kept" /\ linked
    /\ open' = TRUE /\ status' = "ready"
    /\ UNCHANGED <<latch, connect, timer, sock, live, creds, linked, auth, request,
                   rendering, terminal, doubled, faults>>

\* A device that is not linked is sent a QR, which is rendered asynchronously.
QrArrives ==
    /\ Up /\ creds = "none" /\ ~rendering /\ status # "qr"
    /\ rendering' = TRUE
    /\ UNCHANGED <<adapter, linked, auth, request, terminal, doubled, faults>>

\* handleQrCode, after its await.
QrRendered ==
    /\ rendering /\ rendering' = FALSE
    /\ status' = "qr"
    /\ UNCHANGED <<latch, connect, timer, sock, live, open, creds, linked, auth, request,
                   terminal, doubled, faults>>

\* A close that is not terminal: the state drops at once, one timer is armed.
Transient ==
    IF latch THEN status' = "disconnected" /\ UNCHANGED timer
             ELSE status' = "initializing" /\ Reschedule

\* The QR is scanned: the credentials are saved and WhatsApp restarts the connection.
Pairs ==
    /\ Up /\ creds = "none" /\ status = "qr"
    /\ linked' = TRUE /\ auth' = "kept"
    /\ live' = live \ {sock} /\ open' = FALSE /\ Transient
    /\ UNCHANGED <<latch, connect, sock, creds, request, rendering, terminal, doubled, faults>>

Drops ==
    /\ Up /\ Fault("drop")
    /\ live' = live \ {sock} /\ open' = FALSE /\ Transient
    /\ UNCHANGED <<latch, connect, sock, creds, linked, auth, request, rendering,
                   terminal, doubled>>

\* The second close event of a drop, on a socket that has not been replaced; with a code
\* that is transient it revives an adapter that 440 or 403 had finished.
DropsAgain ==
    /\ sock # None /\ ~Up /\ Fault("twice")
    /\ Transient
    /\ IF latch \/ doubled THEN UNCHANGED terminal ELSE terminal' = FALSE
    /\ IF Connecting THEN doubled' = TRUE ELSE UNCHANGED doubled
    /\ UNCHANGED <<latch, connect, sock, live, open, creds, linked, auth, request, rendering>>

\* 440 and 403: another instance took the account over, or WhatsApp rejects it.
Refused ==
    /\ Up /\ Fault("refuse")
    /\ live' = live \ {sock} /\ open' = FALSE
    /\ IF latch THEN status' = "disconnected" /\ UNCHANGED terminal
                ELSE status' = "failed" /\ terminal' = TRUE
    /\ UNCHANGED <<latch, connect, timer, sock, creds, linked, auth, request, rendering, doubled>>

\* The device is removed on the phone.
Unlinks ==
    /\ linked /\ Fault("unlink")
    /\ linked' = FALSE
    /\ UNCHANGED <<adapter, auth, request, rendering, terminal, doubled>>

\* 401, handleRemoteLoggedOut: the credentials are not those of a linked device; the
\* connection is torn down before they are removed.
Rejected ==
    /\ Up /\ creds = "kept" /\ ~linked
    /\ live' = live \ {sock} /\ open' = FALSE /\ status' = "disconnected"
    /\ IF latch THEN UNCHANGED <<sock, wiping, terminal>>
                ELSE sock' = None /\ wiping' = wiping \cup {"remote"} /\ terminal' = TRUE
    /\ UNCHANGED <<latch, connect, timer, creds, linked, auth, logout, source, rendering,
                   doubled, faults>>

-----------------------------------------------------------------------------
(* Requests of the session service.                                        *)

\* disconnect(), destroy(), forceDestroy().
Disconnect ==
    /\ ~latch \/ Up
    /\ latch' = TRUE /\ timer' = FALSE
    /\ live' = live \ {sock} /\ sock' = None /\ open' = FALSE
    /\ status' = "disconnected"
    /\ UNCHANGED <<connect, creds, linked, auth, request, rendering, terminal, doubled, faults>>

\* logout(): retired first; refused without a socket or an identity.
Logout ==
    /\ logout = "idle"
    /\ latch' = TRUE /\ timer' = FALSE
    /\ IF sock = None
         THEN logout' = "failed" /\ UNCHANGED source
         ELSE logout' = "asked" /\ source' = sock
    /\ UNCHANGED <<status, connect, sock, live, open, creds, linked, auth, wiping,
                   rendering, terminal, doubled, faults>>

\* localSocketShutdown(source).
Shut == /\ live' = live \ {source}
        /\ IF sock = source THEN open' = FALSE /\ sock' = None
                            ELSE UNCHANGED <<open, sock>>
        /\ status' = "disconnected" /\ timer' = FALSE

\* WhatsApp removes the device.
UnlinkServed ==
    /\ logout = "asked" /\ source \in live /\ open
    /\ logout' = "served" /\ linked' = FALSE
    /\ UNCHANGED <<adapter, auth, wiping, source, rendering, terminal, doubled, faults>>

\* Mutant: a request that left counts as served.
AckedBySending == logout \in {"asked", "served"}

\* The result of the unlink request has come.
Acked == logout = "served"

\* The unlink is acknowledged: the socket is shut and the credentials removed.
UnlinkAcked ==
    /\ Acked /\ source \in live
    /\ Shut
    /\ logout' = "clearing" /\ wiping' = wiping \cup {"logout"}
    /\ UNCHANGED <<latch, connect, creds, linked, auth, source, rendering, terminal,
                   doubled, faults>>

\* Mutant: the request has no deadline of its own.
UnlinkFailsOnClose ==
    /\ logout \in {"asked", "served"} /\ source \notin live
    /\ Shut
    /\ logout' = "failed"
    /\ UNCHANGED <<latch, connect, creds, linked, auth, wiping, source, rendering,
                   terminal, doubled, faults>>

\* No identity, a connection that closed, no answer in time (which may have been
\* served): the credentials stay.
UnlinkFails ==
    /\ logout \in {"asked", "served"}
    /\ Shut
    /\ logout' = "failed"
    /\ UNCHANGED <<latch, connect, creds, linked, auth, wiping, source, rendering,
                   terminal, doubled, faults>>

\* Mutant: a failing removal is swallowed.
RmVerdictIgnored == "ok"

\* The verdict of a logout whose credentials could not be removed.
RmVerdict == "failed"

\* clearAuthState() ends: the request, or the report of the remote logout, with it.
Wiped(who) ==
    /\ who \in wiping /\ wiping' = wiping \ {who}
    /\ \/ /\ auth' = "none"
          /\ logout' = IF who = "logout" THEN "ok" ELSE logout
          /\ UNCHANGED <<status, faults>>
       \/ /\ Fault("rm") /\ UNCHANGED auth
          /\ logout' = IF who = "logout" THEN RmVerdict ELSE logout
          /\ status' = IF who = "logout" THEN "disconnected" ELSE "failed"
    /\ UNCHANGED <<latch, connect, timer, sock, live, open, creds, linked, source,
                   rendering, terminal, doubled>>

Attempt == Loaded \/ LoadFails
Next == \/ Initialize \/ Attempt \/ TimerFires
        \/ Opens \/ QrArrives \/ QrRendered \/ Pairs \/ Drops \/ DropsAgain
        \/ Refused \/ Unlinks \/ Rejected
        \/ Disconnect \/ Logout \/ UnlinkServed \/ UnlinkAcked \/ UnlinkFails
        \/ \E who \in {"logout", "remote"} : Wiped(who)

Spec == Init /\ [][Next]_vars

\* Awaits end and timers fire; WhatsApp accepts a linked device, refuses one that is
\* not, and answers an unlink request or lets it time out.
FairSpec == /\ Spec
            /\ WF_vars(Attempt) /\ WF_vars(TimerFires) /\ WF_vars(QrRendered)
            /\ WF_vars(Opens \/ Rejected)
            /\ WF_vars(UnlinkAcked \/ UnlinkFails)
            /\ \A who \in {"logout", "remote"} : WF_vars(Wiped(who))

-----------------------------------------------------------------------------
(* Properties.                                                             *)

\* Every variable keeps to its range.
TypeOK ==
    /\ status \in Status /\ latch \in BOOLEAN
    /\ connect \in {"new", "idle", "init", "timer"} /\ timer \in BOOLEAN
    /\ sock \in Socket \cup {None} /\ live \subseteq Socket
    /\ open \in BOOLEAN /\ creds \in {"none", "kept"}
    /\ linked \in BOOLEAN /\ auth \in {"none", "kept"}
    /\ wiping \subseteq {"logout", "remote"}
    /\ logout \in {"idle", "asked", "served", "clearing", "ok", "failed"}
    /\ source \in Socket \cup {None}
    /\ rendering \in BOOLEAN /\ terminal \in BOOLEAN /\ doubled \in BOOLEAN
    /\ faults \in 0..MaxFaults

\* No socket runs that the adapter has lost sight of: two would replace each other at
\* WhatsApp for ever, and one left behind would outlive every teardown.
OneSocket == live \subseteq {sock}

\* A retired adapter has no connection and will not make one, whatever attempt, timer
\* or event was under way; a logout keeps its socket until its request is over.
StopHolds == latch => /\ live # {} => logout \in {"asked", "served"}
                      /\ ~timer

\* READY is not reported over a connection that is gone: what probeLiveness tells the
\* watchdog and what the senders rely on.
ReadyIsOpen == status = "ready" => Up /\ open

\* The credentials on disk are removed only once the device is unlinked: a logout that
\* was not served leaves what is needed to try again.  (After a doubled close the
\* adapter may pair anew while it still removes what a 401 had invalidated.)
CredentialsKept == (wiping # {} \/ auth = "none") /\ ~doubled => ~linked

\* A logout that succeeded did all of it.
LogoutMeansIt == logout = "ok" => ~linked /\ auth = "none" /\ live = {}

\* An adapter that is neither retired nor finished is never left without a
\* connection, an attempt or a timer that leads to one.
Pursued == ~latch /\ ~terminal => connect # "idle" \/ timer \/ Up

\* A terminal close is final: unless a second close event, of an earlier drop or after it,
\* arms a timer of its own, no socket is made after it.
TerminalSticks == [][terminal /\ ~doubled => live' \subseteq live]_vars

\* A linked adapter that dropped comes back, unless it is stopped or finished.
Reconnects == (linked /\ connect # "new") ~> (status = "ready" \/ latch \/ terminal)

\* A logout ends, with its verdict.
LogoutEnds == logout = "asked" ~> logout \in {"ok", "failed"}

\* The adapter always gets somewhere, whatever drops or answers too late.
Progress == Reconnects /\ LogoutEnds
=============================================================================
