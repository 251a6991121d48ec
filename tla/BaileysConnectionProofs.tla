---------------------- MODULE BaileysConnectionProofs -----------------------
(***************************************************************************)
(* The safety properties of BaileysConnection, proved for every set of     *)
(* sockets and every budget of faults.  None of them is inductive: whether *)
(* a logout was served, or whether a terminal close really is the end,     *)
(* depends on which sockets, timers and attempts can exist at that point,  *)
(* which is what the parts of IInv record.                                 *)
(***************************************************************************)
EXTENDS BaileysConnection, TLAPS

\* An adapter that has not finished its first connect() has no socket and no timer.
Fresh == connect \in {"new", "init"} => sock = None /\ ~timer /\ ~terminal

\* Without a doubled close there is one thing at a time: a connection, the timer that
\* follows it or the attempt that follows the timer; and nothing after a terminal end.
OneThing == ~doubled => /\ timer => ~Up /\ ~Connecting
                        /\ Up => ~Connecting
                        /\ terminal => live = {} /\ ~timer /\ ~Connecting

\* A connection that opened has credentials.
OpenKept == open => Up /\ creds = "kept"

\* A logout retires the adapter, and what is left of its socket is the one it captured.
Asking == /\ logout # "idle" => latch
          /\ logout \in {"asked", "served"} => live \subseteq {source}

\* A logout that was served left the device unlinked, which only a QR could undo.
Served == /\ logout = "served" => ~linked /\ (Up => creds = "kept")
          /\ logout \in {"clearing", "ok"} => ~linked /\ live = {}
          /\ logout = "ok" => auth = "none"
          /\ "logout" \in wiping => logout = "clearing"

\* The other removal follows a terminal close, and the adapter let go of its socket.
RemoteEnds == "remote" \in wiping => terminal /\ (doubled \/ sock = None)

\* TypeOK, in the parts the provers take one at a time.
Names == /\ status \in Status /\ connect \in {"new", "idle", "init", "timer"}
         /\ creds \in {"none", "kept"} /\ auth \in {"none", "kept"}
         /\ logout \in {"idle", "asked", "served", "clearing", "ok", "failed"}
Places == /\ sock \in Socket \cup {None} /\ live \subseteq Socket
          /\ source \in Socket \cup {None} /\ wiping \subseteq {"logout", "remote"}
Flags == /\ latch \in BOOLEAN /\ timer \in BOOLEAN /\ open \in BOOLEAN
         /\ linked \in BOOLEAN /\ rendering \in BOOLEAN
         /\ terminal \in BOOLEAN /\ doubled \in BOOLEAN
Budget == faults \in 0..MaxFaults

IInv == /\ Names /\ Places /\ Flags /\ Budget
        /\ OneSocket /\ StopHolds /\ ReadyIsOpen /\ CredentialsKept /\ Pursued
        /\ Fresh /\ OneThing /\ OpenKept /\ Asking /\ Served /\ RemoteEnds

-----------------------------------------------------------------------------

\* The initial states satisfy the invariant.
LEMMA InitIInv == Init => IInv
<1> SUFFICES ASSUME Init PROVE IInv  OBVIOUS
<1> USE DEF Init
<1>1. Names /\ Places  BY SMT DEF Names, Places, Status
<1>2. Flags  BY Zenon DEF Flags
<1>3. Budget  BY ConnectionAssumption, SMT DEF Budget, ConnectionAssumption
<1>4. OneSocket /\ StopHolds /\ ReadyIsOpen /\ CredentialsKept /\ Pursued
  BY SMT DEF OneSocket, StopHolds, ReadyIsOpen, CredentialsKept, Pursued
<1>5. Fresh /\ OneThing /\ OpenKept /\ Asking /\ Served /\ RemoteEnds
  BY SMT DEF Fresh, OneThing, OpenKept, Asking, Served, RemoteEnds, Up, Connecting
<1>6. QED  BY <1>1, <1>2, <1>3, <1>4, <1>5 DEF IInv

\* A step that changes nothing keeps it.
LEMMA StutterIInv == IInv /\ UNCHANGED vars => IInv'
  BY DEF vars, IInv, Names, Places, Flags, Budget, Status, OneSocket, StopHolds,
         ReadyIsOpen, CredentialsKept, Pursued, Fresh, OneThing, OpenKept, Asking, Served,
         RemoteEnds, Up, Connecting

\* Every step keeps the ranges of the names.
LEMMA NamesKept ==
    ASSUME Names, Next  PROVE Names'
<1> USE DEF Names, Status
<1>1. CASE Initialize   BY <1>1, SMT DEF Initialize, request
<1>2. CASE Loaded       BY <1>2, SMT DEF Loaded, request, Retired, Replaced
<1>3. CASE LoadFails    BY <1>3, SMT DEF LoadFails, request, Fault, Reschedule
<1>4. CASE TimerFires   BY <1>4, SMT DEF TimerFires, request
<1>5. CASE Opens        BY <1>5, SMT DEF Opens, request
<1>6. CASE QrArrives    BY <1>6, SMT DEF QrArrives, request, adapter
<1>7. CASE QrRendered   BY <1>7, SMT DEF QrRendered, request
<1>8. CASE Pairs        BY <1>8, SMT DEF Pairs, request, Transient, Reschedule
<1>9. CASE Drops        BY <1>9, SMT DEF Drops, request, Fault, Transient, Reschedule
<1>10. CASE DropsAgain   BY <1>10, SMT DEF DropsAgain, request, Fault, Transient, Reschedule
<1>11. CASE Refused      BY <1>11, SMT DEF Refused, request, Fault
<1>12. CASE Unlinks      BY <1>12, SMT DEF Unlinks, request, Fault, adapter
<1>13. CASE Rejected     BY <1>13, SMT DEF Rejected, request
<1>14. CASE Disconnect   BY <1>14, SMT DEF Disconnect, request
<1>15. CASE Logout       BY <1>15, SMT DEF Logout, request
<1>16. CASE UnlinkServed BY <1>16, SMT DEF UnlinkServed, request, adapter
<1>17. CASE UnlinkAcked  BY <1>17, SMT DEF UnlinkAcked, request, Acked, Shut
<1>18. CASE UnlinkFails  BY <1>18, SMT DEF UnlinkFails, request, Shut
<1>19. ASSUME NEW who \in {"logout", "remote"}, Wiped(who)  PROVE Names'
  BY <1>19, SMT DEF Wiped, RmVerdict, Fault
<1>20. QED
  BY <1>1, <1>2, <1>3, <1>4, <1>5, <1>6, <1>7, <1>8, <1>9, <1>10, <1>11, <1>12, <1>13,
     <1>14, <1>15, <1>16, <1>17, <1>18, <1>19 DEF Next, Attempt

\* Every step keeps the sockets, and who removes the credentials, in range.
LEMMA PlacesKept ==
    ASSUME Places, Next  PROVE Places'
<1> USE DEF Places
<1>1. CASE Initialize   BY <1>1, SMT DEF Initialize, request
<1>2. CASE Loaded       BY <1>2, SMT DEF Loaded, request, Retired, Replaced
<1>3. CASE LoadFails    BY <1>3, SMT DEF LoadFails, request, Fault, Reschedule
<1>4. CASE TimerFires   BY <1>4, SMT DEF TimerFires, request
<1>5. CASE Opens        BY <1>5, SMT DEF Opens, request
<1>6. CASE QrArrives    BY <1>6, SMT DEF QrArrives, request, adapter
<1>7. CASE QrRendered   BY <1>7, SMT DEF QrRendered, request
<1>8. CASE Pairs        BY <1>8, SMT DEF Pairs, request, Transient, Reschedule
<1>9. CASE Drops        BY <1>9, SMT DEF Drops, request, Fault, Transient, Reschedule
<1>10. CASE DropsAgain   BY <1>10, SMT DEF DropsAgain, request, Fault, Transient, Reschedule
<1>11. CASE Refused      BY <1>11, SMT DEF Refused, request, Fault
<1>12. CASE Unlinks      BY <1>12, SMT DEF Unlinks, request, Fault, adapter
<1>13. CASE Rejected
  <2>1. /\ sock' \in Socket \cup {None} /\ live' \subseteq Socket
        /\ source' \in Socket \cup {None}
    BY <1>13, SMT DEF Rejected
  <2>2. wiping' \subseteq wiping \cup {"remote"}
    BY <1>13 DEF Rejected
  <2>3. wiping \cup {"remote"} \subseteq {"logout", "remote"}
    OBVIOUS
  <2>4. QED  BY <2>1, <2>2, <2>3, Zenon
<1>14. CASE Disconnect   BY <1>14, SMT DEF Disconnect, request
<1>15. CASE Logout       BY <1>15, SMT DEF Logout, request
<1>16. CASE UnlinkServed BY <1>16, SMT DEF UnlinkServed, request, adapter
<1>17. CASE UnlinkAcked  BY <1>17, SMT DEF UnlinkAcked, request, Acked, Shut
<1>18. CASE UnlinkFails  BY <1>18, SMT DEF UnlinkFails, request, Shut
<1>19. ASSUME NEW who \in {"logout", "remote"}, Wiped(who)  PROVE Places'
  BY <1>19, SMT DEF Wiped, RmVerdict, Fault
<1>20. QED
  BY <1>1, <1>2, <1>3, <1>4, <1>5, <1>6, <1>7, <1>8, <1>9, <1>10, <1>11, <1>12, <1>13,
     <1>14, <1>15, <1>16, <1>17, <1>18, <1>19 DEF Next, Attempt

\* Every step keeps the flags Boolean.
LEMMA FlagsKept ==
    ASSUME Flags, Next  PROVE Flags'
<1> USE DEF Flags
<1>1. CASE Initialize   BY <1>1, Zenon DEF Initialize, request
<1>2. CASE Loaded       BY <1>2, Zenon DEF Loaded, request, Retired, Replaced
<1>3. CASE LoadFails    BY <1>3, Zenon DEF LoadFails, request, Fault, Reschedule
<1>4. CASE TimerFires   BY <1>4, Zenon DEF TimerFires, request
<1>5. CASE Opens        BY <1>5, Zenon DEF Opens, request
<1>6. CASE QrArrives    BY <1>6, Zenon DEF QrArrives, request, adapter
<1>7. CASE QrRendered   BY <1>7, Zenon DEF QrRendered, request
<1>8. CASE Pairs        BY <1>8, Zenon DEF Pairs, request, Transient, Reschedule
<1>9. CASE Drops        BY <1>9, Zenon DEF Drops, request, Fault, Transient, Reschedule
<1>10. CASE DropsAgain   BY <1>10, Zenon DEF DropsAgain, request, Fault, Transient, Reschedule
<1>11. CASE Refused      BY <1>11, Zenon DEF Refused, request, Fault
<1>12. CASE Unlinks      BY <1>12, Zenon DEF Unlinks, request, Fault, adapter
<1>13. CASE Rejected     BY <1>13, Zenon DEF Rejected, request
<1>14. CASE Disconnect   BY <1>14, Zenon DEF Disconnect, request
<1>15. CASE Logout       BY <1>15, Zenon DEF Logout, request
<1>16. CASE UnlinkServed BY <1>16, Zenon DEF UnlinkServed, request, adapter
<1>17. CASE UnlinkAcked  BY <1>17, Zenon DEF UnlinkAcked, request, Acked, Shut
<1>18. CASE UnlinkFails  BY <1>18, Zenon DEF UnlinkFails, request, Shut
<1>19. ASSUME NEW who \in {"logout", "remote"}, Wiped(who)  PROVE Flags'
  BY <1>19, Zenon DEF Wiped, RmVerdict, Fault
<1>20. QED
  BY <1>1, <1>2, <1>3, <1>4, <1>5, <1>6, <1>7, <1>8, <1>9, <1>10, <1>11, <1>12, <1>13,
     <1>14, <1>15, <1>16, <1>17, <1>18, <1>19 DEF Next, Attempt

\* Every step keeps the budget of faults in range.
LEMMA BudgetKept ==
    ASSUME Budget, Next  PROVE Budget'
<1> USE ConnectionAssumption DEF Budget, ConnectionAssumption
<1>1. CASE Initialize   BY <1>1, SMT DEF Initialize, request
<1>2. CASE Loaded       BY <1>2, SMT DEF Loaded, request, Retired, Replaced
<1>3. CASE LoadFails    BY <1>3, SMT DEF LoadFails, request, Fault, Reschedule
<1>4. CASE TimerFires   BY <1>4, SMT DEF TimerFires, request
<1>5. CASE Opens        BY <1>5, SMT DEF Opens, request
<1>6. CASE QrArrives    BY <1>6, SMT DEF QrArrives, request, adapter
<1>7. CASE QrRendered   BY <1>7, SMT DEF QrRendered, request
<1>8. CASE Pairs        BY <1>8, SMT DEF Pairs, request, Transient, Reschedule
<1>9. CASE Drops        BY <1>9, SMT DEF Drops, request, Fault, Transient, Reschedule
<1>10. CASE DropsAgain   BY <1>10, SMT DEF DropsAgain, request, Fault, Transient, Reschedule
<1>11. CASE Refused      BY <1>11, SMT DEF Refused, request, Fault
<1>12. CASE Unlinks      BY <1>12, SMT DEF Unlinks, request, Fault, adapter
<1>13. CASE Rejected     BY <1>13, SMT DEF Rejected, request
<1>14. CASE Disconnect   BY <1>14, SMT DEF Disconnect, request
<1>15. CASE Logout       BY <1>15, SMT DEF Logout, request
<1>16. CASE UnlinkServed BY <1>16, SMT DEF UnlinkServed, request, adapter
<1>17. CASE UnlinkAcked  BY <1>17, SMT DEF UnlinkAcked, request, Acked, Shut
<1>18. CASE UnlinkFails  BY <1>18, SMT DEF UnlinkFails, request, Shut
<1>19. ASSUME NEW who \in {"logout", "remote"}, Wiped(who)  PROVE Budget'
  BY <1>19, SMT DEF Wiped, RmVerdict, Fault
<1>20. QED
  BY <1>1, <1>2, <1>3, <1>4, <1>5, <1>6, <1>7, <1>8, <1>9, <1>10, <1>11, <1>12, <1>13,
     <1>14, <1>15, <1>16, <1>17, <1>18, <1>19 DEF Next, Attempt

\* Every step leaves one socket, and READY only over it.
LEMMA SocketsKept ==
    ASSUME IInv, Next  PROVE OneSocket' /\ Fresh' /\ OpenKept' /\ ReadyIsOpen'
<1>0. /\ None \notin Socket /\ sock \in Socket \cup {None} /\ source \in Socket \cup {None}
      /\ live \subseteq Socket /\ wiping \subseteq {"logout", "remote"}
      /\ connect \in {"new", "idle", "init", "timer"}
      /\ logout \in {"idle", "asked", "served", "clearing", "ok", "failed"}
  BY ConnectionAssumption DEF ConnectionAssumption, IInv, Names, Places
<1> USE <1>0 DEF IInv, OneSocket, Fresh, OpenKept, ReadyIsOpen, Up, Connecting
<1>1. CASE Initialize   BY <1>1, SMT DEF Initialize, request
<1>2. CASE Loaded       BY <1>2, SMT DEF Loaded, request, Retired, Replaced
<1>3. CASE LoadFails    BY <1>3, SMT DEF LoadFails, request, Fault, Reschedule
<1>4. CASE TimerFires   BY <1>4, SMT DEF TimerFires, request
<1>5. CASE Opens        BY <1>5, SMT DEF Opens, request
<1>6. CASE QrArrives    BY <1>6, SMT DEF QrArrives, request, adapter
<1>7. CASE QrRendered   BY <1>7, SMT DEF QrRendered, request
<1>8. CASE Pairs        BY <1>8, SMT DEF Pairs, request, Transient, Reschedule
<1>9. CASE Drops        BY <1>9, SMT DEF Drops, request, Fault, Transient, Reschedule
<1>10. CASE DropsAgain   BY <1>10, SMT DEF DropsAgain, request, Fault, Transient, Reschedule
<1>11. CASE Refused      BY <1>11, SMT DEF Refused, request, Fault
<1>12. CASE Unlinks      BY <1>12, SMT DEF Unlinks, request, Fault, adapter
<1>13. CASE Rejected     BY <1>13, SMT DEF Rejected, request
<1>14. CASE Disconnect   BY <1>14, SMT DEF Disconnect, request
<1>15. CASE Logout       BY <1>15, SMT DEF Logout, request
<1>16. CASE UnlinkServed BY <1>16, SMT DEF UnlinkServed, request, adapter
<1>17. CASE UnlinkAcked  BY <1>17, SMT DEF UnlinkAcked, request, Acked, Shut
<1>18. CASE UnlinkFails  BY <1>18, SMT DEF UnlinkFails, request, Shut
<1>19. ASSUME NEW who \in {"logout", "remote"}, Wiped(who)  PROVE OneSocket' /\ Fresh' /\ OpenKept' /\ ReadyIsOpen'
  BY <1>19, SMT DEF Wiped, RmVerdict, Fault
<1>20. QED
  BY <1>1, <1>2, <1>3, <1>4, <1>5, <1>6, <1>7, <1>8, <1>9, <1>10, <1>11, <1>12, <1>13,
     <1>14, <1>15, <1>16, <1>17, <1>18, <1>19 DEF Next, Attempt

\* No step revives a retired adapter.
LEMMA StopsKept ==
    ASSUME IInv, Next  PROVE StopHolds' /\ Asking'
<1>0. /\ None \notin Socket /\ sock \in Socket \cup {None} /\ source \in Socket \cup {None}
      /\ live \subseteq Socket /\ wiping \subseteq {"logout", "remote"}
      /\ connect \in {"new", "idle", "init", "timer"}
      /\ logout \in {"idle", "asked", "served", "clearing", "ok", "failed"}
  BY ConnectionAssumption DEF ConnectionAssumption, IInv, Names, Places
<1> USE <1>0 DEF IInv, StopHolds, Asking, Served, OneSocket, Fresh, Up, Connecting
<1>1. CASE Initialize   BY <1>1, SMT DEF Initialize, request
<1>2. CASE Loaded       BY <1>2, SMT DEF Loaded, request, Retired, Replaced
<1>3. CASE LoadFails    BY <1>3, SMT DEF LoadFails, request, Fault, Reschedule
<1>4. CASE TimerFires   BY <1>4, SMT DEF TimerFires, request
<1>5. CASE Opens        BY <1>5, SMT DEF Opens, request
<1>6. CASE QrArrives    BY <1>6, SMT DEF QrArrives, request, adapter
<1>7. CASE QrRendered   BY <1>7, SMT DEF QrRendered, request
<1>8. CASE Pairs        BY <1>8, SMT DEF Pairs, request, Transient, Reschedule
<1>9. CASE Drops        BY <1>9, SMT DEF Drops, request, Fault, Transient, Reschedule
<1>10. CASE DropsAgain   BY <1>10, SMT DEF DropsAgain, request, Fault, Transient, Reschedule
<1>11. CASE Refused      BY <1>11, SMT DEF Refused, request, Fault
<1>12. CASE Unlinks      BY <1>12, SMT DEF Unlinks, request, Fault, adapter
<1>13. CASE Rejected     BY <1>13, SMT DEF Rejected, request
<1>14. CASE Disconnect   BY <1>14, SMT DEF Disconnect, request
<1>15. CASE Logout       BY <1>15, SMT DEF Logout, request
<1>16. CASE UnlinkServed BY <1>16, SMT DEF UnlinkServed, request, adapter
<1>17. CASE UnlinkAcked  BY <1>17, SMT DEF UnlinkAcked, request, Acked, Shut
<1>18. CASE UnlinkFails  BY <1>18, SMT DEF UnlinkFails, request, Shut
<1>19. ASSUME NEW who \in {"logout", "remote"}, Wiped(who)  PROVE StopHolds' /\ Asking'
  BY <1>19, SMT DEF Wiped, RmVerdict, Fault
<1>20. QED
  BY <1>1, <1>2, <1>3, <1>4, <1>5, <1>6, <1>7, <1>8, <1>9, <1>10, <1>11, <1>12, <1>13,
     <1>14, <1>15, <1>16, <1>17, <1>18, <1>19 DEF Next, Attempt

\* Every step leaves one way to a connection, and not two.
LEMMA PursuitKept ==
    ASSUME IInv, Next  PROVE Pursued' /\ OneThing'
<1>0. /\ None \notin Socket /\ sock \in Socket \cup {None} /\ source \in Socket \cup {None}
      /\ live \subseteq Socket /\ wiping \subseteq {"logout", "remote"}
      /\ connect \in {"new", "idle", "init", "timer"}
      /\ logout \in {"idle", "asked", "served", "clearing", "ok", "failed"}
  BY ConnectionAssumption DEF ConnectionAssumption, IInv, Names, Places
<1> USE <1>0 DEF IInv, Pursued, OneThing, OneSocket, StopHolds, Asking, Fresh, Up,
        Connecting
<1>1. CASE Initialize   BY <1>1, SMT DEF Initialize, request
<1>2. CASE Loaded       BY <1>2, SMT DEF Loaded, request, Retired, Replaced
<1>3. CASE LoadFails    BY <1>3, SMT DEF LoadFails, request, Fault, Reschedule
<1>4. CASE TimerFires   BY <1>4, SMT DEF TimerFires, request
<1>5. CASE Opens        BY <1>5, SMT DEF Opens, request
<1>6. CASE QrArrives    BY <1>6, SMT DEF QrArrives, request, adapter
<1>7. CASE QrRendered   BY <1>7, SMT DEF QrRendered, request
<1>8. CASE Pairs        BY <1>8, SMT DEF Pairs, request, Transient, Reschedule
<1>9. CASE Drops        BY <1>9, SMT DEF Drops, request, Fault, Transient, Reschedule
<1>10. CASE DropsAgain   BY <1>10, SMT DEF DropsAgain, request, Fault, Transient, Reschedule
<1>11. CASE Refused      BY <1>11, SMT DEF Refused, request, Fault
<1>12. CASE Unlinks      BY <1>12, SMT DEF Unlinks, request, Fault, adapter
<1>13. CASE Rejected     BY <1>13, SMT DEF Rejected, request
<1>14. CASE Disconnect   BY <1>14, SMT DEF Disconnect, request
<1>15. CASE Logout       BY <1>15, SMT DEF Logout, request
<1>16. CASE UnlinkServed BY <1>16, SMT DEF UnlinkServed, request, adapter
<1>17. CASE UnlinkAcked  BY <1>17, SMT DEF UnlinkAcked, request, Acked, Shut
<1>18. CASE UnlinkFails  BY <1>18, SMT DEF UnlinkFails, request, Shut
<1>19. ASSUME NEW who \in {"logout", "remote"}, Wiped(who)  PROVE Pursued' /\ OneThing'
  BY <1>19, SMT DEF Wiped, RmVerdict, Fault
<1>20. QED
  BY <1>1, <1>2, <1>3, <1>4, <1>5, <1>6, <1>7, <1>8, <1>9, <1>10, <1>11, <1>12, <1>13,
     <1>14, <1>15, <1>16, <1>17, <1>18, <1>19 DEF Next, Attempt

\* No step removes the credentials of a linked device, or links one whose
\* credentials are being removed.
LEMMA WipingKept ==
    ASSUME IInv, Next  PROVE CredentialsKept' /\ Served' /\ RemoteEnds'
<1>0. /\ None \notin Socket /\ sock \in Socket \cup {None} /\ source \in Socket \cup {None}
      /\ live \subseteq Socket /\ wiping \subseteq {"logout", "remote"}
      /\ connect \in {"new", "idle", "init", "timer"}
      /\ logout \in {"idle", "asked", "served", "clearing", "ok", "failed"}
  BY ConnectionAssumption DEF ConnectionAssumption, IInv, Names, Places
<1> USE <1>0 DEF IInv, CredentialsKept, Served, RemoteEnds, OneThing, OneSocket,
        StopHolds, Asking, OpenKept, Fresh, Up, Connecting
<1>1. CASE Initialize   BY <1>1, SMT DEF Initialize, request
<1>2. CASE Loaded       BY <1>2, SMT DEF Loaded, request, Retired, Replaced
<1>3. CASE LoadFails    BY <1>3, SMT DEF LoadFails, request, Fault, Reschedule
<1>4. CASE TimerFires   BY <1>4, SMT DEF TimerFires, request
<1>5. CASE Opens        BY <1>5, SMT DEF Opens, request
<1>6. CASE QrArrives    BY <1>6, SMT DEF QrArrives, request, adapter
<1>7. CASE QrRendered   BY <1>7, SMT DEF QrRendered, request
<1>8. CASE Pairs
  <2> USE <1>8 DEF Pairs, request
  <2>1. logout \notin {"served", "clearing", "ok"} /\ "logout" \notin wiping
    BY SMT
  <2>2. CASE doubled
    BY <2>1, <2>2, SMT
  <2>3. CASE ~doubled
    <3>1. ~terminal /\ wiping = {}
      BY <2>1, <2>3, SMT
    <3>2. QED  BY <2>1, <3>1, SMT
  <2>4. QED  BY <2>2, <2>3
<1>9. CASE Drops        BY <1>9, SMT DEF Drops, request, Fault, Transient, Reschedule
<1>10. CASE DropsAgain   BY <1>10, SMT DEF DropsAgain, request, Fault, Transient, Reschedule
<1>11. CASE Refused      BY <1>11, SMT DEF Refused, request, Fault
<1>12. CASE Unlinks      BY <1>12, SMT DEF Unlinks, request, Fault, adapter
<1>13. CASE Rejected     BY <1>13, SMT DEF Rejected, request
<1>14. CASE Disconnect   BY <1>14, SMT DEF Disconnect, request
<1>15. CASE Logout       BY <1>15, SMT DEF Logout, request
<1>16. CASE UnlinkServed BY <1>16, SMT DEF UnlinkServed, request, adapter
<1>17. CASE UnlinkAcked  BY <1>17, SMT DEF UnlinkAcked, request, Acked, Shut
<1>18. CASE UnlinkFails  BY <1>18, SMT DEF UnlinkFails, request, Shut
<1>19. ASSUME NEW who \in {"logout", "remote"}, Wiped(who)  PROVE CredentialsKept' /\ Served' /\ RemoteEnds'
  BY <1>19, SMT DEF Wiped, RmVerdict, Fault
<1>20. QED
  BY <1>1, <1>2, <1>3, <1>4, <1>5, <1>6, <1>7, <1>8, <1>9, <1>10, <1>11, <1>12, <1>13,
     <1>14, <1>15, <1>16, <1>17, <1>18, <1>19 DEF Next, Attempt

\* Every reachable state satisfies the invariant.
THEOREM ConnectionIInv == Spec => []IInv
<1>1. IInv /\ [Next]_vars => IInv'
  <2> SUFFICES ASSUME IInv, [Next]_vars PROVE IInv'
    OBVIOUS
  <2>1. CASE Next
    <3>1. Names' /\ Places' /\ Flags' /\ Budget'
      BY <2>1, NamesKept, PlacesKept, FlagsKept, BudgetKept DEF IInv
    <3>2. OneSocket' /\ Fresh' /\ OpenKept' /\ ReadyIsOpen' /\ StopHolds' /\ Asking'
      BY <2>1, SocketsKept, StopsKept
    <3>3. /\ Pursued' /\ OneThing'
          /\ CredentialsKept' /\ Served' /\ RemoteEnds'
      BY <2>1, PursuitKept, WipingKept
    <3>4. QED  BY <3>1, <3>2, <3>3 DEF IInv
  <2>2. CASE UNCHANGED vars  BY <2>2, StutterIInv
  <2>3. QED  BY <2>1, <2>2
<1>2. QED  BY <1>1, InitIInv, PTL DEF Spec

\* Every variable keeps to its range.
THEOREM ConnectionTypes == Spec => []TypeOK
<1>1. IInv => TypeOK  BY DEF IInv, Names, Places, Flags, Budget, TypeOK
<1>2. QED  BY <1>1, ConnectionIInv, PTL

\* Whatever drops, times out or is asked for, the only socket that runs is the one
\* the adapter would tear down.
THEOREM SocketIsOne == Spec => []OneSocket
<1>1. IInv => OneSocket  BY DEF IInv
<1>2. QED  BY <1>1, ConnectionIInv, PTL

\* A retired adapter neither keeps nor makes a connection.
THEOREM StopIsFinal == Spec => []StopHolds
<1>1. IInv => StopHolds  BY DEF IInv
<1>2. QED  BY <1>1, ConnectionIInv, PTL

\* READY is reported over an open connection only.
THEOREM ReadyOverOpen == Spec => []ReadyIsOpen
<1>1. IInv => ReadyIsOpen  BY DEF IInv
<1>2. QED  BY <1>1, ConnectionIInv, PTL

\* The credentials of a linked device are not removed.
THEOREM CredentialsAreKept == Spec => []CredentialsKept
<1>1. IInv => CredentialsKept  BY DEF IInv
<1>2. QED  BY <1>1, ConnectionIInv, PTL

\* An adapter that may reconnect always has a way to.
THEOREM AlwaysPursued == Spec => []Pursued
<1>1. IInv => Pursued  BY DEF IInv
<1>2. QED  BY <1>1, ConnectionIInv, PTL

\* A logout that reports success unlinked the device and left nothing behind.
THEOREM LogoutIsComplete == Spec => []LogoutMeansIt
<1>1. IInv => LogoutMeansIt  BY DEF IInv, Served, LogoutMeansIt
<1>2. QED  BY <1>1, ConnectionIInv, PTL

\* A terminal close is final.
THEOREM TerminalIsFinal == Spec => TerminalSticks
<1>1. IInv /\ [Next]_vars => [terminal /\ ~doubled => live' \subseteq live]_vars
  <2> SUFFICES ASSUME IInv, [Next]_vars, terminal, ~doubled  PROVE live' \subseteq live
    OBVIOUS
  <2>1. ~Connecting /\ live = {}  BY DEF IInv, OneThing
  <2>2. ~Loaded /\ ~LoadFails  BY <2>1 DEF Loaded, LoadFails
  <2>3. CASE Initialize \/ TimerFires \/ QrRendered \/ Unlinks \/ QrArrives \/ DropsAgain
    BY <2>3 DEF Initialize, TimerFires, QrRendered, Unlinks, QrArrives, DropsAgain, adapter
  <2>4. CASE Opens \/ Pairs \/ Drops \/ Refused \/ Rejected
    BY <2>1, <2>4 DEF Opens, Pairs, Drops, Refused, Rejected, Up
  <2>5. CASE Disconnect \/ Logout \/ UnlinkServed \/ UnlinkAcked \/ UnlinkFails
    BY <2>5 DEF Disconnect, Logout, UnlinkServed, UnlinkAcked, UnlinkFails, Shut, adapter
  <2>6. CASE \E who \in {"logout", "remote"} : Wiped(who)
    BY <2>6 DEF Wiped
  <2>7. CASE UNCHANGED vars
    BY <2>7 DEF vars
  <2>8. QED
    BY <2>2, <2>3, <2>4, <2>5, <2>6, <2>7 DEF Next, Attempt
<1>2. QED  BY <1>1, ConnectionIInv, PTL DEF Spec, TerminalSticks
=============================================================================
