----------------------- MODULE WebhookDeliveryProofs ------------------------
(***************************************************************************)
(* Proofs about WebhookDelivery.  The invariant has two halves.  Limits    *)
(* and SlotsKept are the limiter: the tasks counted are the deliveries in  *)
(* a state that holds a slot, and the queue is the set of those parked.    *)
(* Fine(d) follows one delivery through the process and its job: what is   *)
(* over has been answered, recorded or given up; what has been answered    *)
(* has no live attempt left unless it is echoed or its job stalled.  The   *)
(* two meet when a drained process exits: no slot is held, so none waits.  *)
(***************************************************************************)
EXTENDS WebhookDelivery, FiniteSetTheorems, SequenceTheorems, TLAPS

\* The deliveries in a limiter task, and those in its queue.
Held   == {d \in Delivery : flow[d] \in Holding}
Parked == {d \in Delivery : flow[d] = "parked"}

\* The types the limiter's arithmetic needs.
Limits == /\ flow \in [Delivery -> Flow] /\ waiters \in Seq(Delivery)
          /\ active \in Nat /\ places \in Nat

\* Sets of deliveries are finite.
LEMMA HeldFinite == \A S : S \subseteq Delivery => IsFiniteSet(S) /\ Cardinality(S) \in Nat
  BY FS_Subset, FS_CardinalityType, WebhookAssumption, Zenon DEF WebhookAssumption

\* What leaves a queue without repetitions is its head, and only that.
LEMMA TailSet ==
    ASSUME NEW S, NEW s \in Seq(S), s # <<>>, IsInjective(s)
    PROVE  /\ Head(s) \in ToSet(s) /\ ToSet(Tail(s)) = ToSet(s) \ {Head(s)}
           /\ IsInjective(Tail(s))
<1>1. /\ Len(s) \in Nat /\ Len(s) > 0 /\ DOMAIN s = 1..Len(s)
      /\ Tail(s) \in Seq(S) /\ Len(Tail(s)) = Len(s) - 1
      /\ \A i \in 1..Len(Tail(s)) : Tail(s)[i] = s[i + 1]
  BY HeadTailProperties, LenProperties, EmptySeq, SMT
<1>2. DOMAIN Tail(s) = 1..(Len(s) - 1)
  BY <1>1, LenProperties, Zenon
<1>3. Head(s) = s[1]
  BY SMT
<1>4. Head(s) \in ToSet(s)
  BY <1>1, <1>3, SMT DEF ToSet
<1>5. ToSet(Tail(s)) = ToSet(s) \ {Head(s)}
  <2>1. ASSUME NEW x \in ToSet(Tail(s))  PROVE x \in ToSet(s) \ {Head(s)}
    <3>1. PICK i \in 1..(Len(s) - 1) : x = s[i + 1]
      BY <1>1, <1>2, <2>1, SMT DEF ToSet
    <3>2. i + 1 \in DOMAIN s /\ 1 \in DOMAIN s /\ i + 1 # 1  BY <1>1, <3>1, SMT
    <3> QED BY <1>3, <3>1, <3>2, Zenon DEF ToSet, IsInjective
  <2>2. ASSUME NEW x \in ToSet(s) \ {Head(s)}  PROVE x \in ToSet(Tail(s))
    <3>1. PICK j \in DOMAIN s : x = s[j]  BY <2>2, Zenon DEF ToSet
    <3>2. j # 1  BY <1>3, <2>2, <3>1, Zenon
    <3>3. j - 1 \in DOMAIN Tail(s) /\ j - 1 \in 1..Len(Tail(s)) /\ (j - 1) + 1 = j
      BY <1>1, <1>2, <3>1, <3>2, SMT
    <3>4. x = Tail(s)[j - 1]  BY <1>1, <3>1, <3>3, Zenon
    <3> QED BY <3>3, <3>4, Zenon DEF ToSet
  <2> QED BY <2>1, <2>2, Zenon
<1>6. IsInjective(Tail(s))
  <2> SUFFICES ASSUME NEW i \in DOMAIN Tail(s), NEW j \in DOMAIN Tail(s), Tail(s)[i] = Tail(s)[j]
               PROVE  i = j
    BY Zenon DEF IsInjective
  <2>1. i + 1 \in DOMAIN s /\ j + 1 \in DOMAIN s /\ s[i + 1] = s[j + 1] /\ i \in Nat /\ j \in Nat
    BY <1>1, <1>2, SMT
  <2>2. i + 1 = j + 1  BY <2>1, Zenon DEF IsInjective
  <2> QED BY <2>1, <2>2, SMT
<1> QED BY <1>4, <1>5, <1>6

\* What is appended to a queue without repetitions, if new to it, joins it once.
LEMMA AppendSet ==
    ASSUME NEW S, NEW s \in Seq(S), NEW e \in S, e \notin ToSet(s), IsInjective(s)
    PROVE  ToSet(Append(s, e)) = ToSet(s) \cup {e} /\ IsInjective(Append(s, e))
<1> DEFINE t == Append(s, e)
<1>0. /\ Len(s) \in Nat /\ DOMAIN s = 1..Len(s)
      /\ t \in Seq(S) /\ Len(t) = Len(s) + 1
  BY LenProperties, AppendProperties, SMT
<1>1. t[Len(s) + 1] = e /\ \A i \in 1..Len(s) : t[i] = s[i]
  <2>1. t[Len(s) + 1] = e
    BY AppendProperties
  <2>2. ASSUME NEW i \in 1..Len(s)  PROVE t[i] = s[i]
    BY <2>2, AppendProperties
  <2> QED BY <2>1, <2>2
<1>2. DOMAIN t = 1..(Len(s) + 1)
  BY <1>0, LenProperties, Zenon
<1> HIDE DEF t
<1>3. ToSet(t) = ToSet(s) \cup {e}
  <2>1. ASSUME NEW x \in ToSet(t)  PROVE x \in ToSet(s) \cup {e}
    <3>1. PICK i \in DOMAIN t : x = t[i]  BY <2>1, Zenon DEF ToSet
    <3>2. i = Len(s) + 1 \/ i \in 1..Len(s)  BY <1>0, <1>1, <1>2, <3>1, SMT
    <3> QED BY <1>0, <1>1, <3>1, <3>2, Zenon DEF ToSet
  <2>2. ASSUME NEW x \in ToSet(s)  PROVE x \in ToSet(t)
    <3>1. PICK i \in DOMAIN s : x = s[i]  BY <2>2, Zenon DEF ToSet
    <3>2. i \in DOMAIN t /\ t[i] = x  BY <1>0, <1>1, <1>2, <3>1, SMT
    <3> QED BY <3>2, Zenon DEF ToSet
  <2>3. e \in ToSet(t)
    <3>1. Len(s) + 1 \in DOMAIN t  BY <1>0, <1>1, <1>2, SMT
    <3> QED BY <1>0, <1>1, <3>1, Zenon DEF ToSet
  <2> QED BY <2>1, <2>2, <2>3, Zenon
<1>4. IsInjective(t)
  <2> SUFFICES ASSUME NEW i \in DOMAIN t, NEW j \in DOMAIN t, t[i] = t[j]  PROVE i = j
    BY Zenon DEF IsInjective
  <2>1. \A k \in 1..Len(s) : t[k] # e
    BY <1>0, <1>1, Zenon DEF ToSet
  <2>2. CASE i \in 1..Len(s) /\ j \in 1..Len(s)
    BY <1>0, <1>1, <2>2, Zenon DEF IsInjective
  <2>3. CASE i \notin 1..Len(s) \/ j \notin 1..Len(s)
    <3>1. i \notin 1..Len(s) => i = Len(s) + 1  BY <1>0, <1>1, <1>2, SMT
    <3>2. j \notin 1..Len(s) => j = Len(s) + 1  BY <1>0, <1>1, <1>2, SMT
    <3> QED BY <1>1, <2>1, <2>3, <3>1, <3>2, Zenon
  <2> QED BY <2>2, <2>3
<1> QED BY <1>3, <1>4 DEF t

\* A step that neither takes, frees nor waits for a slot keeps the limiter's books.
LEMMA SlotsMove ==
    ASSUME Limits, SlotsKept, NEW d \in Delivery, NEW f \in Flow, Goto(d, f),
           flow[d] \in Holding <=> f \in Holding, flow[d] # "parked", f # "parked",
           UNCHANGED <<limiter, places>>
    PROVE  Limits' /\ SlotsKept'
<1>1. Limits'  BY SMT DEF Limits, Goto, limiter
<1>2. \A e \in Delivery : /\ flow'[e] \in Holding <=> flow[e] \in Holding
                          /\ flow'[e] = "parked" <=> flow[e] = "parked"
  BY Zenon DEF Limits, Goto
<1>3. Held' = Held /\ Parked' = Parked  BY <1>2, Zenon DEF Held, Parked
<1> QED BY <1>1, <1>3, Zenon DEF SlotsKept, Held, Parked, At, limiter

\* The end of a task keeps the books: its slot is released, or passes to the first waiter.
LEMMA SlotsFinish ==
    ASSUME Limits, SlotsKept, NEW d \in Delivery, flow[d] \in Holding, NEW f \in Flow,
           f \notin Holding, f # "parked", Finish(d, f), UNCHANGED places
    PROVE  Limits' /\ SlotsKept'
<1>0. active = Cardinality(Held) /\ ToSet(waiters) = Parked /\ d \in Held /\ d \notin Parked
  BY SMT DEF SlotsKept, Held, Parked, At, Holding
<1>1. CASE waiters = <<>>
  <2>1. flow' = [flow EXCEPT ![d] = f] /\ active' = active - 1 /\ waiters' = waiters
    BY <1>1, Zenon DEF Finish, Goto
  <2>2. Held' = Held \ {d} /\ Parked' = Parked
    BY <2>1, Zenon DEF Held, Parked, Limits, Holding
  <2>3. Cardinality(Held') = active - 1 /\ Cardinality(Held') \in Nat
    <3>1. IsFiniteSet(Held) /\ Held' \subseteq Delivery  BY HeldFinite, Zenon DEF Held
    <3>2. Cardinality(Held \ {d}) = Cardinality(Held) - 1  BY <1>0, <3>1, FS_RemoveElement, Zenon
    <3> QED BY <1>0, <2>2, <3>1, <3>2, HeldFinite, Zenon
  <2>4. Limits'  BY <2>1, <2>3, SMT DEF Limits
  <2>5. active' <= MaxActive
    BY <2>1, <2>3, WebhookAssumption, SMT DEF SlotsKept, Limits, WebhookAssumption
  <2> QED BY <1>1, <2>1, <2>2, <2>3, <2>4, <2>5, Zenon DEF SlotsKept, Held, Parked, At
<1>2. CASE waiters # <<>>
  <2> DEFINE h == Head(waiters)
  <2>1. /\ flow' = [flow EXCEPT ![d] = f, ![h] = "running"]
        /\ active' = active /\ waiters' = Tail(waiters)
    BY <1>2, Zenon DEF Finish
  <2>2. /\ h \in ToSet(waiters) /\ ToSet(Tail(waiters)) = ToSet(waiters) \ {h}
        /\ IsInjective(Tail(waiters)) /\ Tail(waiters) \in Seq(Delivery)
        /\ Len(Tail(waiters)) = Len(waiters) - 1 /\ Len(waiters) \in Nat
    BY <1>2, TailSet, HeadTailProperties, LenProperties, Zenon DEF Limits, SlotsKept
  <2>3. h \in Delivery /\ h \in Parked /\ h # d /\ h \notin Held
    BY <1>0, <2>2, SMT DEF Parked, Held, Holding
  <2> HIDE DEF h
  <2>4. /\ flow'[d] = f /\ flow'[h] = "running" /\ flow' \in [Delivery -> Flow]
        /\ \A e \in Delivery \ {d, h} : flow'[e] = flow[e]
    <3>1. "running" \in Flow  BY Zenon DEF Flow
    <3> QED BY <2>1, <2>3, <3>1, SMT DEF Limits
  <2>5. Held' = (Held \ {d}) \cup {h} /\ Parked' = Parked \ {h}
    <3>1. "running" \in Holding /\ "running" # "parked"  BY SMT DEF Holding
    <3> QED BY <1>0, <2>3, <2>4, <3>1, Zenon DEF Held, Parked
  <2>6. Cardinality(Held') = Cardinality(Held)
    <3>1. IsFiniteSet(Held) /\ IsFiniteSet(Held \ {d})  BY HeldFinite, Zenon DEF Held
    <3>2. Cardinality(Held \ {d}) = Cardinality(Held) - 1  BY <1>0, <3>1, FS_RemoveElement, Zenon
    <3>3. Cardinality((Held \ {d}) \cup {h}) = Cardinality(Held \ {d}) + 1
      BY <2>3, <3>1, FS_AddElement, Zenon
    <3> QED BY <2>5, <3>1, <3>2, <3>3, FS_CardinalityType, SMT
  <2>7. Limits'  BY <2>1, <2>2, <2>4, SMT DEF Limits
  <2>8. Len(waiters') <= places'
    BY <2>1, <2>2, SMT DEF SlotsKept, Limits
  <2>9. active' = Cardinality(Held') /\ ToSet(waiters') = Parked' /\ IsInjective(waiters')
    BY <1>0, <2>1, <2>2, <2>5, <2>6, Zenon
  <2> QED BY <1>2, <2>1, <2>7, <2>8, <2>9, Zenon DEF SlotsKept, Held, Parked, At
<1> QED BY <1>1, <1>2

\* The books are kept when a delivery enters the limiter.
LEMMA SlotsAdmit ==
    ASSUME Limits, SlotsKept, NEW d \in Delivery, flow[d] = "lookup", Admit(d), UNCHANGED places
    PROVE  Limits' /\ SlotsKept'
<1> USE WebhookAssumption DEF WebhookAssumption
<1>0. active = Cardinality(Held) /\ ToSet(waiters) = Parked /\ d \notin Held /\ d \notin Parked
  BY SMT DEF SlotsKept, Held, Parked, At, Holding
<1>1. CASE Goto(d, "note") /\ UNCHANGED limiter
  BY <1>1, SlotsMove, SMT DEF Holding, Flow
<1>2. CASE Goto(d, "refused") /\ UNCHANGED limiter
  BY <1>2, SlotsMove, SMT DEF Holding, Flow
<1>3. CASE /\ active < MaxActive /\ Goto(d, "running") /\ active' = active + 1
           /\ UNCHANGED <<waiters, closed>>
  <2>1. Held' = Held \cup {d} /\ Parked' = Parked
    <3>1. "running" \in Holding /\ "running" # "parked"  BY SMT DEF Holding
    <3> QED BY <1>3, <1>0, <3>1, Zenon DEF Held, Parked, Limits, Goto
  <2>2. Cardinality(Held') = active + 1
    <3>1. IsFiniteSet(Held)  BY HeldFinite, Zenon DEF Held
    <3>2. Cardinality(Held \cup {d}) = Cardinality(Held) + 1
      BY <1>0, <3>1, FS_AddElement, Zenon
    <3> QED BY <1>0, <2>1, <3>2, Zenon
  <2>3. Limits'  BY <1>3, SMT DEF Limits, Goto, Flow
  <2>4. waiters = <<>> /\ active' <= MaxActive
    BY <1>3, SMT DEF SlotsKept, Limits
  <2> QED BY <1>0, <1>3, <2>1, <2>2, <2>3, <2>4, Zenon DEF SlotsKept, Held, Parked, At
<1>4. CASE /\ active >= MaxActive /\ Len(waiters) < places /\ Goto(d, "parked")
           /\ waiters' = Append(waiters, d) /\ UNCHANGED <<active, closed>>
  <2>1. Held' = Held /\ Parked' = Parked \cup {d}
    <3>1. "parked" \notin Holding  BY SMT DEF Holding
    <3> QED BY <1>4, <1>0, <3>1, Zenon DEF Held, Parked, Limits, Goto
  <2>2. ToSet(waiters') = ToSet(waiters) \cup {d} /\ IsInjective(waiters')
    <3>1. waiters \in Seq(Delivery)  BY Zenon DEF Limits
    <3>2. IsInjective(waiters) /\ d \notin ToSet(waiters)  BY <1>0, Zenon DEF SlotsKept
    <3>3. /\ ToSet(Append(waiters, d)) = ToSet(waiters) \cup {d}
          /\ IsInjective(Append(waiters, d))
      BY <3>1, <3>2, AppendSet, Zenon
    <3> QED BY <1>4, <3>3, Zenon
  <2>3. Limits' /\ Len(waiters') <= places
    BY <1>4, AppendProperties, LenProperties, SMT DEF Limits, Goto, Flow
  <2>4. active = MaxActive
    BY <1>4, SMT DEF SlotsKept, Limits
  <2> QED BY <1>0, <1>4, <2>1, <2>2, <2>3, <2>4, Zenon DEF SlotsKept, Held, Parked, At
<1> QED BY <1>1, <1>2, <1>3, <1>4, Zenon DEF Admit, limiter

\* The books are kept when the limiter closes: the queue and the parked go together.
LEMMA SlotsClose ==
    ASSUME Limits, SlotsKept, Close, UNCHANGED places
    PROVE  Limits' /\ SlotsKept'
<1>1. /\ waiters' = <<>> /\ active' = active
      /\ \A d \in Delivery : flow'[d] = IF flow[d] = "parked" THEN "note" ELSE flow[d]
  BY Zenon DEF Close, At
<1>2. Held' = Held /\ Parked' = {}
  <2>1. "parked" \notin Holding /\ "note" \notin Holding /\ "note" # "parked"  BY SMT DEF Holding
  <2> QED BY <1>1, <2>1, Zenon DEF Held, Parked
<1>3. Limits'
  <2>1. flow' \in [Delivery -> Flow]  BY SMT DEF Close, At, Limits, Flow
  <2> QED BY <1>1, <2>1, EmptySeq, Zenon DEF Limits
<1>4. ToSet(<<>>) = {} /\ IsInjective(<<>>) /\ Len(<<>>) = 0
  BY SMT DEF ToSet, IsInjective
<1>5. Len(waiters') <= places'  BY <1>1, <1>4, SMT DEF Limits
<1> QED BY <1>1, <1>2, <1>3, <1>4, <1>5, Zenon DEF SlotsKept, Held, Parked, At

\* The books of a process that has gone are empty.
LEMMA SlotsVanish ==
    ASSUME Limits, NEW given, Vanish(given)
    PROVE  Limits' /\ SlotsKept'
<1>1. /\ waiters' = <<>> /\ active' = 0 /\ places' = places
      /\ flow' = [d \in Delivery |-> IF flow[d] = "idle" THEN "idle" ELSE "done"]
  BY Zenon DEF Vanish, At, config
<1>2. Held' = {} /\ Parked' = {}
  BY <1>1, SMT DEF Held, Parked, Holding
<1>3. Limits'
  BY <1>1, EmptySeq, SMT DEF Limits, Flow
<1>4. ToSet(<<>>) = {} /\ IsInjective(<<>>) /\ Len(<<>>) = 0 /\ Cardinality({}) = 0
  BY FS_EmptySet, SMT DEF ToSet, IsInjective
<1>5. Len(waiters') <= places' /\ active' <= MaxActive
  BY <1>1, <1>4, WebhookAssumption, SMT DEF Limits, WebhookAssumption
<1> QED BY <1>1, <1>2, <1>3, <1>4, <1>5, Zenon DEF SlotsKept, Held, Parked, At

\* Every step keeps the limiter's books.
LEMMA SlotsStep ==
    ASSUME Limits, SlotsKept, [Next]_vars
    PROVE  Limits' /\ SlotsKept'
<1>0. ASSUME UNCHANGED <<flow, limiter, places>>  PROVE Limits' /\ SlotsKept'
  <2>1. Held' = Held /\ Parked' = Parked  BY <1>0, Zenon DEF Held, Parked
  <2> QED BY <1>0, <2>1, Zenon DEF Limits, SlotsKept, Held, Parked, At, limiter
<1>1. ASSUME NEW d \in Delivery, Dispatch(d)  PROVE Limits' /\ SlotsKept'
  BY <1>1, SlotsMove, SMT DEF Dispatch, At, Holding, Flow, config
<1>2. ASSUME NEW d \in Delivery, LookedUp(d)  PROVE Limits' /\ SlotsKept'
  <2>1. CASE Admit(d)
    BY <1>2, <2>1, SlotsAdmit, Zenon DEF LookedUp, At, config
  <2>2. CASE Goto(d, "done") /\ UNCHANGED limiter
    BY <1>2, <2>2, SlotsMove, SMT DEF LookedUp, At, Holding, Flow, config
  <2> QED BY <1>2, <2>1, <2>2, Zenon DEF LookedUp
<1>3. ASSUME NEW d \in Delivery, Preflight(d)  PROVE Limits' /\ SlotsKept'
  <2>1. CASE Finish(d, "done")
    BY <1>3, <2>1, SlotsFinish, SMT DEF Preflight, At, Holding, Flow, config
  <2>2. CASE UNCHANGED limiter /\ (Goto(d, "enqueue") \/ Goto(d, "post") \/ Goto(d, "record"))
    BY <1>3, <2>2, SlotsMove, SMT DEF Preflight, At, Holding, Flow, config
  <2> QED BY <1>3, <2>1, <2>2, Zenon DEF Preflight
<1>4. ASSUME NEW d \in Delivery, Enqueue(d)  PROVE Limits' /\ SlotsKept'
  <2>1. CASE Finish(d, "done")
    BY <1>4, <2>1, SlotsFinish, SMT DEF Enqueue, At, Holding, Flow, config
  <2>2. CASE UNCHANGED limiter /\ Goto(d, "post")
    BY <1>4, <2>2, SlotsMove, SMT DEF Enqueue, At, Holding, Flow, config
  <2> QED BY <1>4, <2>1, <2>2, Zenon DEF Enqueue
<1>5. ASSUME NEW d \in Delivery, Post(d)  PROVE Limits' /\ SlotsKept'
  <2>1. CASE Finish(d, "done")
    BY <1>5, <2>1, SlotsFinish, SMT DEF Post, At, Holding, Flow, config
  <2>2. CASE UNCHANGED limiter /\ (Goto(d, "backoff") \/ Goto(d, "record"))
    BY <1>5, <2>2, SlotsMove, SMT DEF Post, At, Holding, Flow, config
  <2> QED BY <1>5, <2>1, <2>2, Zenon DEF Post, Answered, Refused
<1>6. ASSUME NEW d \in Delivery, Backoff(d)  PROVE Limits' /\ SlotsKept'
  BY <1>6, SlotsMove, SMT DEF Backoff, At, Holding, Flow, config
<1>7. ASSUME NEW d \in Delivery, Record(d)  PROVE Limits' /\ SlotsKept'
  BY <1>7, SlotsFinish, SMT DEF Record, At, Holding, Flow, config
<1>8. ASSUME NEW d \in Delivery, Note(d)  PROVE Limits' /\ SlotsKept'
  BY <1>8, SlotsMove, SMT DEF Note, Holding, Flow, config
<1>9. ASSUME NEW d \in Delivery, JobStep(d)  PROVE Limits' /\ SlotsKept'
  BY <1>0, <1>9, Zenon DEF JobStep, TakeJob, ProcessJob, LetterJob, SettleJob, config
<1>10. CASE Shutdown
  BY <1>0, <1>10, SlotsClose, Zenon DEF Shutdown, config
<1>11. CASE Drained \/ DrainExpires \/ Crash
  BY <1>11, SlotsVanish, Zenon DEF Drained, DrainExpires, Crash
<1>12. CASE Restart
  BY <1>0, <1>12, Zenon DEF Restart, config
<1>13. CASE UNCHANGED vars
  BY <1>0, <1>13, Zenon DEF vars, limiter
<1> QED
  BY <1>1, <1>2, <1>3, <1>4, <1>5, <1>6, <1>7, <1>8, <1>9, <1>10, <1>11, <1>12, <1>13 DEF Next, Step
-----------------------------------------------------------------------------
\* The states of a job whose delivery may still be unmet, and those from which it may
\* be tried again or recorded.
Unmet == {"none", "waiting", "active", "lettering"}
Retried == {"waiting", "active", "lettering", "throwing", "failed"}

\* Answered, recorded or given up.
Given(d) == d \in seen \/ d \in letters \/ d \in waived

\* One delivery: in the process, in the queue, and in the ghosts.
Fine(d) ==
    /\ flow[d] \in Flow
    /\ At(d, "note") => d \in booked
    /\ d \in echoed => flow[d] \in {"post", "backoff", "record", "done"}
    /\ job[d].stalls = 2 => job[d].state \in {"lettering", "failed"}
    /\ life = "down" => flow[d] \in {"idle", "done"} /\ (Orphaned(d) => d \in waived)
    /\ ~Given(d) => job[d].state \in Unmet /\ (At(d, "done") => job[d].state # "none")
    /\ d \notin echoed /\ ~At(d, "done") => job[d].state = "none" /\ d \notin seen
    /\ d \notin echoed /\ job[d].stalls = 0 /\ job[d].state \in Retried => d \notin seen
    /\ d \in again => d \in echoed \/ job[d].stalls > 0

\* The inductive invariant.
IInv == /\ Limits /\ SlotsKept
        /\ job \in [Delivery -> Job] /\ again \subseteq Delivery
        /\ \A d \in Delivery : Fine(d)
\* The step puts d at f and at most lets parked deliveries run.
Moves(d, f) ==
    /\ flow'[d] = f
    /\ \A e \in Delivery \ {d} : flow'[e] = flow[e] \/ (flow[e] = "parked" /\ flow'[e] = "running")

\* The step leaves the sets of all deliveries but d alone, and so the jobs.
SetsApart(d) == \A e \in Delivery \ {d} :
    /\ e \in booked' <=> e \in booked
    /\ e \in seen' <=> e \in seen
    /\ e \in again' <=> e \in again
    /\ e \in letters' <=> e \in letters
    /\ e \in waived' <=> e \in waived
    /\ e \in echoed' <=> e \in echoed

JobsApart(d) == /\ job' \in [Delivery -> Job]
                /\ \A e \in Delivery \ {d} : job'[e] = job[e]

\* Goto moves one delivery.
LEMMA GotoMoves ==
    ASSUME Limits, NEW d \in Delivery, NEW f \in Flow, Goto(d, f)
    PROVE  Moves(d, f)
<1>1. flow' = [flow EXCEPT ![d] = f] /\ flow \in [Delivery -> Flow]
  BY Zenon DEF Limits, Goto
<1>2. flow'[d] = f /\ \A e \in Delivery \ {d} : flow'[e] = flow[e]
  BY <1>1, SMT
<1> QED BY <1>2, Zenon DEF Moves

\* The end of a task moves its delivery, and at most lets a parked one run.
LEMMA FinishMoves ==
    ASSUME Limits, SlotsKept, NEW d \in Delivery, flow[d] \in Holding, NEW f \in Flow, Finish(d, f)
    PROVE  Moves(d, f)
<1>1. CASE waiters = <<>>
  BY <1>1, GotoMoves, Zenon DEF Finish
<1>2. CASE waiters # <<>>
  <2>1. PICK h : h = Head(waiters)  OBVIOUS
  <2>2. h \in ToSet(waiters)  BY <1>2, <2>1, TailSet, Zenon DEF Limits, SlotsKept
  <2>3. h \in Delivery /\ flow[h] = "parked"  BY <2>2, Zenon DEF SlotsKept, At
  <2>4. h # d  BY <2>3, SMT DEF Holding
  <2>5. flow' = [flow EXCEPT ![d] = f, ![h] = "running"]  BY <1>2, <2>1, Zenon DEF Finish
  <2>6. /\ flow'[d] = f /\ flow'[h] = "running"
        /\ \A e \in Delivery \ {d, h} : flow'[e] = flow[e]
    BY <2>3, <2>4, <2>5, SMT DEF Limits
  <2> QED BY <2>3, <2>6, Zenon DEF Moves
<1> QED BY <1>1, <1>2

\* The limiter moves one delivery, and books it when it is closed.
LEMMA AdmitMoves ==
    ASSUME Limits, NEW d \in Delivery, Admit(d)
    PROVE  /\ \E f \in {"note", "running", "refused", "parked"} :
                  Moves(d, f) /\ (f = "note" => d \in booked')
           /\ \A e \in Delivery \ {d} : e \in booked' <=> e \in booked
<1>1. {"note", "running", "refused", "parked"} \subseteq Flow  BY SMT DEF Flow
<1>2. \A f \in {"note", "running", "refused", "parked"} : Goto(d, f) => Moves(d, f)
  BY <1>1, GotoMoves, Zenon
<1>3. CASE Goto(d, "note") /\ booked' = booked \cup {d}
  BY <1>2, <1>3, Zenon
<1>4. CASE (Goto(d, "running") \/ Goto(d, "refused") \/ Goto(d, "parked")) /\ booked' = booked
  <2>1. "running" # "note" /\ "refused" # "note" /\ "parked" # "note"  BY SMT
  <2> QED BY <1>2, <1>4, <2>1, Zenon
<1> QED BY <1>3, <1>4, Zenon DEF Admit

\* SetJob changes the state of one job.
LEMMA JobMoves ==
    ASSUME job \in [Delivery -> Job], NEW d \in Delivery, NEW s \in InHand \cup {"waiting", "completed", "failed"},
           SetJob(d, s)
    PROVE  JobsApart(d) /\ job'[d].state = s /\ job'[d].stalls = job[d].stalls
<1>1. job[d] \in Job  OBVIOUS
<1>2. s \in {"none", "waiting", "active", "answered", "lettering", "throwing", "completed", "failed"}
  BY SMT DEF InHand
<1>3. PICK j : j = [job[d] EXCEPT !.state = s]  OBVIOUS
<1>4. j \in Job /\ j.state = s /\ j.stalls = job[d].stalls
  BY <1>1, <1>2, <1>3, SMT DEF Job
<1>5. job' = [job EXCEPT ![d] = j]  BY <1>3, SMT DEF SetJob
<1>6. job' \in [Delivery -> Job] /\ job'[d] = j /\ \A e \in Delivery \ {d} : job'[e] = job[e]
  BY <1>4, <1>5, Zenon
<1> QED BY <1>4, <1>6, Zenon DEF JobsApart

\* A delivery stays fine while another one, at most, hands it a slot.
LEMMA FineApart ==
    ASSUME NEW d \in Delivery, NEW e \in Delivery \ {d}, Fine(e), Running, life' = life,
           flow'[e] = flow[e] \/ (flow[e] = "parked" /\ flow'[e] = "running"),
           job'[e] = job[e], SetsApart(d)
    PROVE  Fine(e)'
<1>1. \E n \in {flow'[e]} : n = flow[e] \/ (flow[e] = "parked" /\ n = "running")  OBVIOUS
<1>2. /\ flow'[e] \in Flow
      /\ flow'[e] = "note" => flow[e] = "note"
      /\ e \in echoed => flow'[e] \in {"post", "backoff", "record", "done"}
      /\ flow'[e] = "done" <=> flow[e] = "done"
  BY <1>1, SMT DEF Fine, Flow
<1> QED BY <1>2, Zenon DEF Fine, Given, At, Orphaned, Running, SetsApart
\* A step of d: it leaves d fine and the others, but for a slot, alone.
Owned(d) == /\ Fine(d)' /\ SetsApart(d) /\ JobsApart(d)
            /\ \A e \in Delivery \ {d} : flow'[e] = flow[e] \/ (flow[e] = "parked" /\ flow'[e] = "running")
            /\ again' \subseteq Delivery

\* All deliveries stay fine after a step that keeps its own one fine and leaves the rest.
LEMMA FineStep ==
    ASSUME IInv, NEW d \in Delivery, Running, life' = life, Owned(d)
    PROVE  \A e \in Delivery : Fine(e)'
<1>1. ASSUME NEW e \in Delivery \ {d}  PROVE Fine(e)'
  BY <1>1, FineApart, Zenon DEF IInv, Owned, JobsApart
<1> QED BY <1>1, Zenon DEF Owned

\* Repeated notes at most one delivery, and only if it has been answered.
LEMMA RepeatedSets ==
    ASSUME NEW d \in Delivery, Repeated(d), again \subseteq Delivery
    PROVE  /\ again' \subseteq Delivery
           /\ \A e \in Delivery \ {d} : e \in again' <=> e \in again
           /\ d \in again' => d \in again \/ d \in seen
  BY Zenon DEF Repeated

\* Letter leaves a row or gives the delivery up, and touches no other.
LEMMA LetterSets ==
    ASSUME NEW d \in Delivery, Letter(d), again \subseteq Delivery
    PROVE  /\ again' \subseteq Delivery
           /\ d \in again' => d \in again \/ d \in seen
           /\ d \in letters' \/ d \in waived'
           /\ d \in waived => d \in waived'
           /\ d \in letters => d \in letters'
           /\ \A e \in Delivery \ {d} : /\ e \in again' <=> e \in again
                                        /\ e \in letters' <=> e \in letters
                                        /\ e \in waived' <=> e \in waived
  BY RepeatedSets, Zenon DEF Letter, Waive

\* A dispatched event only starts its lookup.
LEMMA OwnedDispatch ==
    ASSUME IInv, NEW d \in Delivery, Dispatch(d)
    PROVE  Owned(d)
<1>1. Moves(d, "lookup")  BY GotoMoves, SMT DEF Dispatch, IInv, Flow
<1>2. UNCHANGED <<life, booked, job, seen, again, letters, waived, echoed>>
  BY Zenon DEF Dispatch, record
<1>3. flow[d] = "idle"  BY Zenon DEF Dispatch, At
<1>4. Fine(d)'
  BY <1>1, <1>2, <1>3, SMT DEF IInv, Fine, Given, At, Orphaned, Moves, Flow, Dispatch, Running
<1> QED BY <1>1, <1>2, <1>4, Zenon DEF Owned, Moves, SetsApart, JobsApart, IInv

\* A delivery that is looked up is given up, or enters the limiter.
LEMMA OwnedLookedUp ==
    ASSUME IInv, NEW d \in Delivery, LookedUp(d)
    PROVE  Owned(d)
<1>1. /\ flow[d] = "lookup" /\ life # "down"
      /\ UNCHANGED <<life, job, seen, again, letters, echoed>>
  BY Zenon DEF LookedUp, At, Running
<1>2. CASE Admit(d) /\ UNCHANGED waived
  <2>1. PICK f \in {"note", "running", "refused", "parked"} : Moves(d, f) /\ (f = "note" => d \in booked')
    BY <1>2, AdmitMoves, Zenon DEF IInv
  <2>2. \A e \in Delivery \ {d} : e \in booked' <=> e \in booked
    BY <1>2, AdmitMoves, Zenon DEF IInv
  <2>3. Fine(d)'
    BY <1>1, <1>2, <2>1, SMT DEF IInv, Fine, Given, At, Orphaned, Moves, Flow
  <2> QED BY <1>1, <1>2, <2>1, <2>2, <2>3, Zenon DEF Owned, Moves, SetsApart, JobsApart, IInv
<1>3. CASE Goto(d, "done") /\ Waive(d) /\ UNCHANGED booked
  <2>1. Moves(d, "done")  BY <1>3, GotoMoves, SMT DEF IInv, Flow
  <2>2. d \in waived' /\ \A e \in Delivery \ {d} : e \in waived' <=> e \in waived
    BY <1>3, Zenon DEF Waive
  <2>3. Fine(d)'
    BY <1>1, <1>3, <2>1, <2>2, SMT DEF IInv, Fine, Given, At, Orphaned, Moves, Flow
  <2> QED BY <1>1, <1>3, <2>1, <2>2, <2>3, Zenon DEF Owned, Moves, SetsApart, JobsApart, IInv
<1> QED BY <1>2, <1>3, Zenon DEF LookedUp

\* A delivery in a task goes on, or is given up by a plugin.
LEMMA OwnedPreflight ==
    ASSUME IInv, NEW d \in Delivery, Preflight(d)
    PROVE  Owned(d)
<1>1. /\ flow[d] = "running" /\ life # "down"
      /\ UNCHANGED <<life, booked, job, seen, again, letters, echoed>>
  BY Zenon DEF Preflight, At, Running
<1>2. CASE UNCHANGED waived /\ (Goto(d, "enqueue") \/ Goto(d, "post") \/ Goto(d, "record"))
  <2>1. PICK f \in {"enqueue", "post", "record"} : Moves(d, f)
    BY <1>2, GotoMoves, SMT DEF IInv, Flow
  <2>2. Fine(d)'
    BY <1>1, <1>2, <2>1, SMT DEF IInv, Fine, Given, At, Orphaned, Moves, Flow
  <2> QED BY <1>1, <1>2, <2>1, <2>2, Zenon DEF Owned, Moves, SetsApart, JobsApart, IInv
<1>3. CASE Finish(d, "done") /\ Waive(d)
  <2>1. Moves(d, "done")  BY <1>1, <1>3, FinishMoves, SMT DEF IInv, Flow, Holding
  <2>2. d \in waived' /\ \A e \in Delivery \ {d} : e \in waived' <=> e \in waived
    BY <1>3, Zenon DEF Waive
  <2>3. Fine(d)'
    BY <1>1, <1>3, <2>1, <2>2, SMT DEF IInv, Fine, Given, At, Orphaned, Moves, Flow
  <2> QED BY <1>1, <2>1, <2>2, <2>3, Zenon DEF Owned, Moves, SetsApart, JobsApart, IInv
<1> QED BY <1>2, <1>3, Zenon DEF Preflight

\* What leaves for Redis has a job; what falls back may have one and is then echoed.
LEMMA OwnedEnqueue ==
    ASSUME IInv, NEW d \in Delivery, Enqueue(d)
    PROVE  Owned(d)
<1>1. /\ flow[d] = "enqueue" /\ life # "down"
      /\ UNCHANGED <<life, booked, seen, again, letters, waived>>
  BY Zenon DEF Enqueue, At, Running
<1>2. CASE SetJob(d, "waiting") /\ UNCHANGED echoed /\ Finish(d, "done")
  <2>1. Moves(d, "done")  BY <1>1, <1>2, FinishMoves, SMT DEF IInv, Flow, Holding
  <2>2. JobsApart(d) /\ job'[d].state = "waiting" /\ job'[d].stalls = job[d].stalls
    BY <1>2, JobMoves, Zenon DEF IInv
  <2>3. Fine(d)'
    BY <1>1, <1>2, <2>1, <2>2, SMT
       DEF IInv, Fine, Given, At, Orphaned, Moves, Flow, Unmet, Retried
  <2> QED BY <1>1, <1>2, <2>1, <2>2, <2>3, Zenon DEF Owned, Moves, SetsApart, IInv
<1>3. CASE Goto(d, "post") /\ UNCHANGED <<job, echoed>>
  <2>1. Moves(d, "post")  BY <1>3, GotoMoves, SMT DEF IInv, Flow
  <2>2. Fine(d)'
    BY <1>1, <1>3, <2>1, SMT DEF IInv, Fine, Given, At, Orphaned, Moves, Flow
  <2> QED BY <1>1, <1>3, <2>1, <2>2, Zenon DEF Owned, Moves, SetsApart, JobsApart, IInv
<1>4. CASE SetJob(d, "waiting") /\ Goto(d, "post") /\ echoed' = echoed \cup {d}
  <2>1. Moves(d, "post")  BY <1>4, GotoMoves, SMT DEF IInv, Flow
  <2>2. JobsApart(d) /\ job'[d].state = "waiting" /\ job'[d].stalls = job[d].stalls
    BY <1>4, JobMoves, Zenon DEF IInv
  <2>3. d \in echoed' /\ \A e \in Delivery \ {d} : e \in echoed' <=> e \in echoed
    BY <1>4, Zenon
  <2>4. Fine(d)'
    BY <1>1, <2>1, <2>2, <2>3, SMT DEF IInv, Fine, Given, At, Orphaned, Moves, Flow, Unmet
  <2> QED BY <1>1, <2>1, <2>2, <2>3, <2>4, Zenon DEF Owned, Moves, SetsApart, IInv
<1> QED BY <1>2, <1>3, <1>4, Zenon DEF Enqueue, SetJob

\* A direct attempt settles the delivery, or is retried or recorded.
LEMMA OwnedPost ==
    ASSUME IInv, NEW d \in Delivery, Post(d)
    PROVE  Owned(d)
<1>1. /\ flow[d] = "post" /\ life # "down"
      /\ UNCHANGED <<life, booked, job, letters, waived, echoed>>
  BY Zenon DEF Post, At, Running
<1>2. /\ again' \subseteq Delivery
      /\ \A e \in Delivery \ {d} : e \in again' <=> e \in again
      /\ d \in again' => d \in again \/ d \in seen
  BY RepeatedSets, Zenon DEF Post, IInv
<1>3. CASE seen' = seen \cup {d} /\ Finish(d, "done")
  <2>1. Moves(d, "done")  BY <1>1, <1>3, FinishMoves, SMT DEF IInv, Flow, Holding
  <2>2. d \in seen' /\ \A e \in Delivery \ {d} : e \in seen' <=> e \in seen
    BY <1>3, Zenon
  <2>3. Fine(d)'
    BY <1>1, <1>2, <2>1, <2>2, SMT DEF IInv, Fine, Given, At, Orphaned, Moves, Flow, Retried
  <2> QED BY <1>1, <1>2, <2>1, <2>2, <2>3, Zenon DEF Owned, Moves, SetsApart, JobsApart, IInv
<1>4. CASE seen' = seen /\ (Goto(d, "backoff") \/ Goto(d, "record"))
  <2>1. PICK f \in {"backoff", "record"} : Moves(d, f)
    BY <1>4, GotoMoves, SMT DEF IInv, Flow
  <2>2. Fine(d)'
    BY <1>1, <1>2, <1>4, <2>1, SMT DEF IInv, Fine, Given, At, Orphaned, Moves, Flow
  <2> QED BY <1>1, <1>2, <1>4, <2>1, <2>2, Zenon DEF Owned, Moves, SetsApart, JobsApart, IInv
<1> QED BY <1>3, <1>4, Zenon DEF Post, Answered, Refused

\* A pause changes nothing but the place of its delivery.
LEMMA OwnedBackoff ==
    ASSUME IInv, NEW d \in Delivery, Backoff(d)
    PROVE  Owned(d)
<1>1. Moves(d, "post")  BY GotoMoves, SMT DEF Backoff, IInv, Flow
<1>2. /\ flow[d] = "backoff" /\ life # "down"
      /\ UNCHANGED <<life, booked, job, seen, again, letters, waived, echoed>>
  BY Zenon DEF Backoff, At, Running, record
<1>3. Fine(d)'
  BY <1>1, <1>2, SMT DEF IInv, Fine, Given, At, Orphaned, Moves, Flow
<1> QED BY <1>1, <1>2, <1>3, Zenon DEF Owned, Moves, SetsApart, JobsApart, IInv

\* A delivery that ends in a failure row or without one is given.
LEMMA OwnedRecord ==
    ASSUME IInv, NEW d \in Delivery, Record(d)
    PROVE  Owned(d)
<1>1. Moves(d, "done")
  BY FinishMoves, SMT DEF Record, At, IInv, Flow, Holding
<1>2. /\ flow[d] = "record" /\ life # "down"
      /\ UNCHANGED <<life, booked, job, seen, echoed>>
  BY Zenon DEF Record, At, Running
<1>3. /\ again' \subseteq Delivery
      /\ d \in again' => d \in again \/ d \in seen
      /\ d \in letters' \/ d \in waived'
      /\ d \in waived => d \in waived'
      /\ \A e \in Delivery \ {d} : /\ e \in again' <=> e \in again
                                   /\ e \in letters' <=> e \in letters
                                   /\ e \in waived' <=> e \in waived
  BY LetterSets, Zenon DEF Record, IInv
<1>4. Fine(d)'
  BY <1>1, <1>2, <1>3, SMT DEF IInv, Fine, Given, At, Orphaned, Moves, Flow, Retried
<1> QED BY <1>1, <1>2, <1>3, <1>4, Zenon DEF Owned, Moves, SetsApart, JobsApart, IInv

\* So is one that the limiter refused or rejected at close.
LEMMA OwnedNote ==
    ASSUME IInv, NEW d \in Delivery, Note(d)
    PROVE  Owned(d)
<1>1. Moves(d, "done")
  BY GotoMoves, SMT DEF Note, IInv, Flow
<1>2. /\ flow[d] \in {"refused", "note"} /\ life # "down"
      /\ UNCHANGED <<life, job, seen, echoed>>
      /\ \A e \in Delivery \ {d} : e \in booked' <=> e \in booked
  BY Zenon DEF Note, Running
<1>3. /\ again' \subseteq Delivery
      /\ d \in again' => d \in again \/ d \in seen
      /\ d \in letters' \/ d \in waived'
      /\ d \in waived => d \in waived'
      /\ \A e \in Delivery \ {d} : /\ e \in again' <=> e \in again
                                   /\ e \in letters' <=> e \in letters
                                   /\ e \in waived' <=> e \in waived
  BY LetterSets, Zenon DEF Note, IInv
<1>4. Fine(d)'
  BY <1>1, <1>2, <1>3, SMT DEF IInv, Fine, Given, At, Orphaned, Moves, Flow, Retried
<1> QED BY <1>1, <1>2, <1>3, <1>4, Zenon DEF Owned, Moves, SetsApart, JobsApart, IInv
\* A job stalls at most twice.
LEMMA StallsType ==
    ASSUME IInv, NEW d \in Delivery
    PROVE  job[d].stalls \in 0..2
<1>1. job[d] \in Job  BY Zenon DEF IInv
<1> QED BY <1>1, Zenon DEF Job

\* A job is taken as it was left.
LEMMA OwnedTakeJob ==
    ASSUME IInv, NEW d \in Delivery, TakeJob(d)
    PROVE  Owned(d)
<1>1. /\ job[d].state = "waiting" /\ life # "down"
      /\ UNCHANGED <<life, flow, booked, seen, again, letters, waived, echoed>>
  BY Zenon DEF TakeJob, Running, record
<1>2. JobsApart(d) /\ job'[d].state = "active" /\ job'[d].stalls = job[d].stalls
  BY JobMoves, Zenon DEF TakeJob, InHand, IInv
<1>3. Fine(d)'
  BY <1>1, <1>2, SMT DEF IInv, Fine, Given, At, Orphaned, Unmet, Retried
<1> QED BY <1>1, <1>2, <1>3, Zenon DEF Owned, SetsApart, IInv

\* An attempt of the worker is answered, retried or about to be recorded.
LEMMA OwnedProcessJob ==
    ASSUME IInv, NEW d \in Delivery, ProcessJob(d)
    PROVE  Owned(d)
<1>1. /\ job[d].state = "active" /\ life # "down"
      /\ UNCHANGED <<life, flow, booked, letters, waived, echoed>>
  BY Zenon DEF ProcessJob, Running
<1>2. /\ again' \subseteq Delivery
      /\ \A e \in Delivery \ {d} : e \in again' <=> e \in again
      /\ d \in again' => d \in again \/ d \in seen
  BY RepeatedSets, Zenon DEF ProcessJob, IInv
<1>3. CASE seen' = seen \cup {d} /\ SetJob(d, "answered")
  <2>1. JobsApart(d) /\ job'[d].state = "answered" /\ job'[d].stalls = job[d].stalls
    BY <1>3, JobMoves, Zenon DEF InHand, IInv
  <2>2. d \in seen' /\ \A e \in Delivery \ {d} : e \in seen' <=> e \in seen
    BY <1>3, Zenon
  <2>3. Fine(d)'
    BY <1>1, <1>2, <2>1, <2>2, StallsType, SMT DEF IInv, Fine, Given, At, Orphaned, Retried
  <2> QED BY <1>1, <1>2, <2>1, <2>2, <2>3, Zenon DEF Owned, SetsApart
<1>4. CASE /\ job' = [job EXCEPT ![d].state = NextState(d), ![d].tries = IF Final(d) THEN @ ELSE @ + 1]
           /\ UNCHANGED seen
  <2>1. PICK s, n : s = NextState(d) /\ n = IF Final(d) THEN job[d].tries ELSE job[d].tries + 1
    OBVIOUS
  <2>2. s \in {"waiting", "lettering"}  BY <2>1, Zenon DEF NextState
  <2>3. job[d] \in Job  BY Zenon DEF IInv
  <2>4. n \in 0..Retries
    <3>1. job[d].tries \in 0..Retries  BY <2>3, Zenon DEF Job
    <3> QED BY <2>1, <3>1, WebhookAssumption, SMT DEF Final, WebhookAssumption
  <2>5. PICK j : j = [[job[d] EXCEPT !.state = s] EXCEPT !.tries = n]  OBVIOUS
  <2>6. j \in Job /\ j.state = s /\ j.stalls = job[d].stalls
    <3>1. PICK i : i = [job[d] EXCEPT !.state = s]  OBVIOUS
    <3>2. i \in Job /\ i.state = s /\ i.stalls = job[d].stalls
      BY <2>2, <2>3, <3>1, SMT DEF Job
    <3>3. j = [i EXCEPT !.tries = n]  BY <2>5, <3>1, Zenon
    <3> QED BY <2>4, <3>2, <3>3, SMT DEF Job
  <2>7. job' = [job EXCEPT ![d] = j]  BY <1>4, <2>1, <2>5 DEF IInv
  <2>8. JobsApart(d) /\ job'[d].state \in {"waiting", "lettering"} /\ job'[d].stalls = job[d].stalls
    BY <2>2, <2>6, <2>7, Zenon DEF JobsApart, IInv
  <2>9. Fine(d)'
    BY <1>1, <1>2, <1>4, <2>8, StallsType, SMT DEF IInv, Fine, Given, At, Orphaned, Unmet, Retried
  <2> QED BY <1>1, <1>2, <1>4, <2>8, <2>9, Zenon DEF Owned, SetsApart
<1> QED BY <1>3, <1>4, Zenon DEF ProcessJob

\* A job that will not be retried is given before it fails.
LEMMA OwnedLetterJob ==
    ASSUME IInv, NEW d \in Delivery, LetterJob(d)
    PROVE  Owned(d)
<1>1. /\ job[d].state = "lettering" /\ life # "down"
      /\ UNCHANGED <<life, flow, booked, seen, echoed>>
  BY Zenon DEF LetterJob, Running
<1>2. /\ again' \subseteq Delivery
      /\ d \in again' => d \in again \/ d \in seen
      /\ d \in letters' \/ d \in waived'
      /\ d \in waived => d \in waived'
      /\ \A e \in Delivery \ {d} : /\ e \in again' <=> e \in again
                                   /\ e \in letters' <=> e \in letters
                                   /\ e \in waived' <=> e \in waived
  BY LetterSets, Zenon DEF LetterJob, IInv
<1>3. PICK s : s = IF job[d].stalls = 2 THEN "failed" ELSE "throwing"  OBVIOUS
<1>4. s \in InHand \cup {"waiting", "completed", "failed"}  BY <1>3, SMT DEF InHand
<1>5. JobsApart(d) /\ job'[d].state = s /\ job'[d].stalls = job[d].stalls
  BY <1>3, <1>4, JobMoves, Zenon DEF LetterJob, IInv
<1>6. Fine(d)'
  BY <1>1, <1>2, <1>3, <1>5, StallsType, SMT DEF IInv, Fine, Given, At, Orphaned, Retried
<1> QED BY <1>1, <1>2, <1>5, <1>6, Zenon DEF Owned, SetsApart

\* A job settles as its attempt ended.
LEMMA OwnedSettleJob ==
    ASSUME IInv, NEW d \in Delivery, SettleJob(d)
    PROVE  Owned(d)
<1>1. /\ job[d].state \in {"answered", "throwing"} /\ life # "down"
      /\ UNCHANGED <<life, flow, booked, seen, again, letters, waived, echoed>>
  BY Zenon DEF SettleJob, Running, record
<1>2. PICK s : s = IF job[d].state = "answered" THEN "completed" ELSE "failed"  OBVIOUS
<1>3. s \in InHand \cup {"waiting", "completed", "failed"}  BY <1>2, SMT DEF InHand
<1>4. JobsApart(d) /\ job'[d].state = s /\ job'[d].stalls = job[d].stalls
  BY <1>2, <1>3, JobMoves, Zenon DEF SettleJob, IInv
<1>5. Fine(d)'
  BY <1>1, <1>2, <1>4, SMT DEF IInv, Fine, Given, At, Orphaned, Unmet, Retried
<1> QED BY <1>1, <1>4, <1>5, Zenon DEF Owned, SetsApart, IInv

\* The deliveries stay fine when the limiter closes: a parked one is booked.
LEMMA FineClose ==
    ASSUME IInv, Running, Close, life' = "draining", UNCHANGED <<job, record>>
    PROVE  \A d \in Delivery : Fine(d)'
<1> SUFFICES ASSUME NEW d \in Delivery  PROVE Fine(d)'
  OBVIOUS
<1>1. UNCHANGED <<job, seen, again, letters, waived, echoed>> /\ life # "down" /\ life' # "down"
  BY Zenon DEF record, Running
<1>2. /\ flow'[d] = IF flow[d] = "parked" THEN "note" ELSE flow[d]
      /\ d \in booked' <=> d \in booked \/ flow[d] = "parked"
  BY Zenon DEF Close, IInv, SlotsKept, At
<1>3. /\ flow'[d] \in Flow
      /\ flow'[d] = "note" => d \in booked'
      /\ flow'[d] = "done" <=> flow[d] = "done"
      /\ d \in echoed => flow'[d] \in {"post", "backoff", "record", "done"}
  BY <1>2, SMT DEF IInv, Fine, At, Flow
<1> QED BY <1>1, <1>3, Zenon DEF IInv, Fine, Given, At, Orphaned

\* They stay fine when the process goes, if all that it held is given up.
LEMMA FineVanish ==
    ASSUME IInv, Running, NEW given, Vanish(given),
           \A d \in Delivery : flow[d] \in {"idle", "done"} \/ d \in given
    PROVE  \A d \in Delivery : Fine(d)'
<1> SUFFICES ASSUME NEW d \in Delivery  PROVE Fine(d)'
  OBVIOUS
<1>1. UNCHANGED <<job, seen, again, letters, echoed>> /\ life' = "down"
  BY Zenon DEF Vanish
<1>2. flow'[d] = IF flow[d] = "idle" THEN "idle" ELSE "done"
  BY Zenon DEF Vanish, At
<1>3. d \in waived' <=> d \in waived \/ d \in given \/ Orphaned(d)
  BY Zenon DEF Vanish
<1>4. d \notin waived' => flow'[d] = flow[d] /\ ~Orphaned(d)'
  BY <1>1, <1>2, <1>3, Zenon DEF Orphaned
<1>5. /\ flow'[d] \in {"idle", "done"} /\ flow'[d] \in Flow /\ flow'[d] # "note"
      /\ d \in echoed => flow'[d] = "done"
      /\ flow'[d] # "done" => flow[d] # "done"
  BY <1>2, SMT DEF IInv, Fine, Flow
<1>6. Fine(d)  BY Zenon DEF IInv
<1> QED BY <1>1, <1>3, <1>4, <1>5, <1>6, SMT DEF Fine, Given, At, Orphaned

\* What the stalled check makes of a job.
LEMMA StalledJob ==
    ASSUME NEW j \in Job, j.stalls = 2 => j.state \in {"lettering", "failed"}
    PROVE  /\ Stalled(j) \in Job
           /\ Stalled(j).stalls = 2 => Stalled(j).state \in {"lettering", "failed"}
           /\ Stalled(j).stalls > 0 \/ Stalled(j) = j
           /\ j.stalls > 0 => Stalled(j).stalls > 0
           /\ Stalled(j).state = "none" <=> j.state = "none"
           /\ \/ Stalled(j).state = j.state
              \/ j.state = "lettering" /\ j.stalls = 2 /\ Stalled(j).state = "failed"
              \/ Stalled(j).state \in {"waiting", "lettering"}
<1>1. j.stalls \in 0..2 /\ j.state \in {"none", "waiting", "active", "answered", "lettering",
                                        "throwing", "completed", "failed"}
  BY Zenon DEF Job
<1>2. CASE j.state = "lettering" /\ j.stalls = 2
  <2>1. Stalled(j) = [j EXCEPT !.state = "failed"]  BY <1>2, Zenon DEF Stalled
  <2> QED BY <1>2, <2>1, SMT DEF Job
<1>3. CASE ~(j.state = "lettering" /\ j.stalls = 2) /\ j.state \in InHand
  <2>1. PICK s : s = IF j.stalls = 0 THEN "waiting" ELSE "lettering"  OBVIOUS
  <2>2. Stalled(j) = [j EXCEPT !.stalls = @ + 1, !.state = s]  BY <1>3, <2>1, Zenon DEF Stalled
  <2>3. j.stalls \in 0..1  BY <1>1, <1>3, SMT DEF InHand
  <2>4. Stalled(j) \in Job /\ Stalled(j).state = s /\ Stalled(j).stalls = j.stalls + 1
    <3>1. PICK i : i = [j EXCEPT !.stalls = @ + 1]  OBVIOUS
    <3>2. i \in Job /\ i.stalls = j.stalls + 1  BY <2>3, <3>1, SMT DEF Job
    <3>3. Stalled(j) = [i EXCEPT !.state = s]  BY <2>2, <3>1
    <3>4. s \in {"waiting", "lettering"}  BY <2>1, Zenon
    <3> QED BY <3>2, <3>3, <3>4, SMT DEF Job
  <2> QED BY <1>3, <2>1, <2>3, <2>4, SMT DEF InHand
<1>4. CASE ~(j.state = "lettering" /\ j.stalls = 2) /\ j.state \notin InHand
  <2>1. Stalled(j) = j  BY <1>4, Zenon DEF Stalled
  <2> QED BY <2>1, SMT
<1> QED BY <1>2, <1>3, <1>4

\* The deliveries stay fine when the process starts again.
LEMMA FineRestart ==
    ASSUME IInv, Restart
    PROVE  job' \in [Delivery -> Job] /\ \A d \in Delivery : Fine(d)'
<1>1. /\ life = "down" /\ life' = "up"
      /\ UNCHANGED <<flow, booked, seen, again, letters, waived, echoed>>
      /\ job' = [d \in Delivery |-> Stalled(job[d])]
  BY Zenon DEF Restart, record
<1>2. \A d \in Delivery : job[d] \in Job /\ (job[d].stalls = 2 => job[d].state \in {"lettering", "failed"})
  BY Zenon DEF IInv, Fine
<1>3. job' \in [Delivery -> Job]
  BY <1>1, <1>2, StalledJob, Zenon
<1>4. ASSUME NEW d \in Delivery  PROVE Fine(d)'
  <2>1. PICK k \in Job : k = Stalled(job[d])  BY <1>2, StalledJob, Zenon
  <2>2. job'[d] = k  BY <1>1, <2>1, Zenon
  <2>3. /\ k.stalls = 2 => k.state \in {"lettering", "failed"}
        /\ k.stalls > 0 \/ k = job[d]
        /\ job[d].stalls > 0 => k.stalls > 0
        /\ k.state = "none" <=> job[d].state = "none"
        /\ \/ k.state = job[d].state
           \/ job[d].state = "lettering" /\ job[d].stalls = 2 /\ k.state = "failed"
           \/ k.state \in {"waiting", "lettering"}
    BY <1>2, <2>1, StalledJob, Zenon
  <2>4. Fine(d)  BY Zenon DEF IInv
  <2> QED BY <1>1, <2>2, <2>3, <2>4, SMT DEF Fine, Given, At, Orphaned, Unmet, Retried
<1> QED BY <1>3, <1>4

\* With no slot held and nothing booked, what is under way is a lookup or a refusal.
LEMMA DrainedGives ==
    ASSUME IInv, active = 0, booked = {}, NEW d \in Delivery
    PROVE  flow[d] \in {"idle", "done", "lookup", "refused"}
<1>1. Held = {}
  <2>1. IsFiniteSet(Held)  BY HeldFinite, Zenon DEF Held
  <2>2. Cardinality(Held) = 0  BY Zenon DEF IInv, SlotsKept, Held
  <2> QED BY <2>1, <2>2, FS_EmptySet, Zenon
<1>2. flow[d] # "parked"
  <2>1. MaxActive # 0  BY WebhookAssumption, SMT DEF WebhookAssumption
  <2>2. waiters = <<>>  BY <2>1, Zenon DEF IInv, SlotsKept
  <2>3. ToSet(waiters) = {}  BY <2>2, SMT DEF ToSet
  <2> QED BY <2>3, Zenon DEF IInv, SlotsKept, At
<1>3. flow[d] # "note"  BY Zenon DEF IInv, Fine, At
<1>4. flow[d] \notin Holding  BY <1>1, Zenon DEF Held
<1>5. flow[d] \in Flow  BY Zenon DEF IInv, Fine
<1> QED BY <1>2, <1>3, <1>4, <1>5, SMT DEF Flow, Holding

\* The initial states satisfy the invariant.
LEMMA InvInit == Init => IInv
<1> SUFFICES ASSUME Init  PROVE IInv
  OBVIOUS
<1>1. Limits
  BY EmptySeq, WebhookAssumption, SMT DEF Init, Limits, Flow, WebhookAssumption
<1>2. Held = {} /\ Parked = {}
  BY SMT DEF Init, Held, Parked, Holding
<1>3. ToSet(<<>>) = {} /\ IsInjective(<<>>) /\ Len(<<>>) = 0 /\ Cardinality({}) = 0
  BY FS_EmptySet, SMT DEF ToSet, IsInjective
<1>4. Len(waiters) <= places /\ active <= MaxActive
  BY <1>1, <1>3, WebhookAssumption, SMT DEF Init, Limits, WebhookAssumption
<1>5. SlotsKept
  BY <1>2, <1>3, <1>4, Zenon DEF Init, SlotsKept, Held, Parked, At
<1>6. NoJob \in Job /\ NoJob.state = "none" /\ NoJob.stalls = 0
  BY WebhookAssumption, SMT DEF NoJob, Job, WebhookAssumption
<1>7. job \in [Delivery -> Job] /\ again \subseteq Delivery
  BY <1>6, Zenon DEF Init
<1>8. ASSUME NEW d \in Delivery  PROVE Fine(d)
  <2>1. job[d] = NoJob /\ flow[d] = "idle" /\ life = "up" /\ d \notin seen /\ d \notin echoed /\ d \notin again
    BY Zenon DEF Init
  <2> QED BY <1>6, <2>1, SMT DEF Fine, At, Orphaned, Given, Flow, Unmet, Retried
<1> QED BY <1>1, <1>5, <1>7, <1>8, Zenon DEF IInv

\* Every step preserves the invariant.
LEMMA InvNext == IInv /\ [Next]_vars => IInv'
<1> SUFFICES ASSUME IInv, [Next]_vars  PROVE IInv'
  OBVIOUS
<1>1. Limits' /\ SlotsKept'
  BY SlotsStep, Zenon DEF IInv
<1>2. ASSUME NEW d \in Delivery, Owned(d), Running, life' = life  PROVE IInv'
  BY <1>1, <1>2, FineStep, Zenon DEF IInv, Owned, JobsApart
<1>3. ASSUME UNCHANGED <<job, again>>, \A d \in Delivery : Fine(d)'  PROVE IInv'
  BY <1>1, <1>3, Zenon DEF IInv
<1>4. ASSUME NEW d \in Delivery, Dispatch(d)  PROVE IInv'
  BY <1>2, <1>4, OwnedDispatch, Zenon DEF Dispatch
<1>5. ASSUME NEW d \in Delivery, Step(d)  PROVE IInv'
  <2>1. Owned(d)
    BY <1>5, OwnedLookedUp, OwnedPreflight, OwnedEnqueue, OwnedPost, OwnedBackoff, OwnedRecord,
       OwnedNote, Zenon DEF Step
  <2>2. Running /\ life' = life
    BY <1>5, Zenon DEF Step, LookedUp, Preflight, Enqueue, Post, Backoff, Record, Note
  <2> QED BY <1>2, <2>1, <2>2
<1>6. ASSUME NEW d \in Delivery, JobStep(d)  PROVE IInv'
  <2>1. Owned(d)
    BY <1>6, OwnedTakeJob, OwnedProcessJob, OwnedLetterJob, OwnedSettleJob, Zenon DEF JobStep
  <2>2. Running /\ life' = life
    BY <1>6, Zenon DEF JobStep, TakeJob, ProcessJob, LetterJob, SettleJob
  <2> QED BY <1>2, <2>1, <2>2
<1>7. CASE Shutdown
  <2>1. Running /\ life' = "draining" /\ UNCHANGED <<job, record>> /\ UNCHANGED again
    BY <1>7, SMT DEF Shutdown, Running, record
  <2>2. CASE Close
    BY <1>3, <2>1, <2>2, FineClose, Zenon
  <2>3. CASE UNCHANGED <<flow, booked>>
    <3>1. \A d \in Delivery : Fine(d)'
      <4>1. life' # "down"  BY <2>1, SMT
      <4> QED BY <2>1, <2>3, <4>1, Zenon DEF IInv, Fine, Given, At, Orphaned, record
    <3> QED BY <1>3, <2>1, <3>1, Zenon
  <2> QED BY <1>7, <2>2, <2>3, Zenon DEF Shutdown
<1>8. CASE Drained
  <2>1. Running  BY <1>8, SMT DEF Drained, Running
  <2>2. PICK given : given = {d \in Delivery : flow[d] \in {"lookup", "refused"}}  OBVIOUS
  <2>3. Vanish(given)  BY <1>8, <2>2, Zenon DEF Drained
  <2>4. \A d \in Delivery : flow[d] \in {"idle", "done"} \/ d \in given
    BY <1>8, <2>2, DrainedGives, Zenon DEF Drained
  <2> QED BY <1>3, <2>1, <2>3, <2>4, FineVanish, Zenon DEF Vanish
<1>9. CASE DrainExpires \/ Crash
  <2>1. Running  BY <1>9, SMT DEF DrainExpires, Crash, Running
  <2>2. Vanish(InMemory)  BY <1>9, Zenon DEF DrainExpires, Crash
  <2>3. \A d \in Delivery : flow[d] \in {"idle", "done"} \/ d \in InMemory
    BY Zenon DEF InMemory
  <2> QED BY <1>3, <2>1, <2>2, <2>3, FineVanish, Zenon DEF Vanish
<1>10. CASE Restart
  <2>1. again' = again  BY <1>10, Zenon DEF Restart, record
  <2> QED BY <1>1, <1>10, <2>1, FineRestart, Zenon DEF IInv
<1>11. CASE UNCHANGED vars
  <2>1. \A d \in Delivery : Fine(d)'
    BY <1>11, Zenon DEF vars, IInv, Fine, Given, At, Orphaned
  <2> QED BY <1>3, <1>11, <2>1, Zenon DEF vars
<1> QED
  BY <1>4, <1>5, <1>6, <1>7, <1>8, <1>9, <1>10, <1>11, Zenon DEF Next

\* The invariant holds in every reachable state.
THEOREM Invariance == Spec => []IInv
  BY InvInit, InvNext, PTL DEF Spec

\* Whatever ends, parks, is rejected at close or dies with the process, the limiter's
\* count is the number of tasks and its queue is the deliveries that wait.
THEOREM SlotsAreKept == Spec => []SlotsKept
<1>1. IInv => SlotsKept  BY Zenon DEF IInv
<1> QED BY <1>1, Invariance, PTL

\* Every delivery that is over was answered, has a failure row, or was given up in one
\* of the ways the code names.
THEOREM AllAccounted == Spec => []Accounted
<1>1. IInv => Accounted
  <2> SUFFICES ASSUME IInv, NEW d \in Delivery, At(d, "done"), Settled(d), ~Given(d)  PROVE FALSE
    BY Zenon DEF Accounted, Given
  <2> QED BY SMT DEF IInv, Fine, Settled, Unmet
<1> QED BY <1>1, Invariance, PTL

\* A delivery answered 2xx is POSTed or recorded again only behind an add that was
\* rejected and landed all the same, or after its worker died before settling it.
THEOREM AnswersAreFinal == Spec => []AnswerIsFinal
<1>1. IInv => AnswerIsFinal  BY Zenon DEF IInv, Fine, AnswerIsFinal
<1> QED BY <1>1, Invariance, PTL
\* The ranges the invariant does not fix.
Sets == /\ booked \subseteq Delivery /\ seen \subseteq Delivery /\ again \subseteq seen
        /\ letters \subseteq Delivery /\ waived \subseteq Delivery /\ echoed \subseteq Delivery
        /\ mode \in Modes /\ places \in Places /\ life \in {"up", "draining", "down"}
        /\ closed \in BOOLEAN

Counts == try \in [Delivery -> 1..Retries] /\ faults \in 0..MaxFaults /\ stops \in 0..MaxStops

\* Every step keeps the sets and the modes in their ranges.
LEMMA SetsStep == IInv /\ Sets /\ [Next]_vars => Sets'
<1> SUFFICES ASSUME IInv, Sets, [Next]_vars  PROVE Sets'
  OBVIOUS
<1> USE DEF Sets
<1>1. ASSUME NEW d \in Delivery, Letter(d), seen' = seen
      PROVE  again' \subseteq seen' /\ letters' \subseteq Delivery /\ waived' \subseteq Delivery
  BY <1>1, Zenon DEF Letter, Repeated, Waive
<1>2. ASSUME NEW d \in Delivery, NEW f, Finish(d, f)  PROVE closed' = closed
  BY <1>2, Zenon DEF Finish
<1>3. ASSUME NEW d \in Delivery, Dispatch(d)  PROVE Sets'
  BY <1>3, Zenon DEF Dispatch, config, limiter, record
<1>4. ASSUME NEW d \in Delivery, LookedUp(d)  PROVE Sets'
  BY <1>4, Zenon DEF LookedUp, Admit, Waive, config, limiter
<1>5. ASSUME NEW d \in Delivery, Preflight(d)  PROVE Sets'
  BY <1>2, <1>5, Zenon DEF Preflight, Waive, config, limiter
<1>6. ASSUME NEW d \in Delivery, Enqueue(d)  PROVE Sets'
  BY <1>2, <1>6, Zenon DEF Enqueue, config, limiter
<1>7. ASSUME NEW d \in Delivery, Post(d)  PROVE Sets'
  BY <1>2, <1>7, Zenon DEF Post, Answered, Refused, Repeated, config, limiter
<1>8. ASSUME NEW d \in Delivery, Backoff(d)  PROVE Sets'
  BY <1>8, Zenon DEF Backoff, config, limiter, record
<1>9. ASSUME NEW d \in Delivery, Record(d)  PROVE Sets'
  BY <1>1, <1>2, <1>9, Zenon DEF Record, config
<1>10. ASSUME NEW d \in Delivery, Note(d)  PROVE Sets'
  BY <1>1, <1>10, Zenon DEF Note, config, limiter
<1>11. ASSUME NEW d \in Delivery, TakeJob(d) \/ SettleJob(d)  PROVE Sets'
  BY <1>11, Zenon DEF TakeJob, SettleJob, config, limiter, record
<1>12. ASSUME NEW d \in Delivery, ProcessJob(d)  PROVE Sets'
  BY <1>12, Zenon DEF ProcessJob, Repeated, config, limiter
<1>13. ASSUME NEW d \in Delivery, LetterJob(d)  PROVE Sets'
  BY <1>1, <1>13, Zenon DEF LetterJob, config, limiter
<1>14. CASE Shutdown
  <2>1. ToSet(waiters) \subseteq Delivery  BY Zenon DEF IInv, SlotsKept
  <2> QED BY <1>14, <2>1, Zenon DEF Shutdown, Close, config, limiter, record
<1>15. ASSUME NEW given \in SUBSET Delivery, Vanish(given)  PROVE Sets'
  BY <1>15, Zenon DEF Vanish, config
<1>16. CASE Drained \/ DrainExpires \/ Crash
  <2>1. InMemory \subseteq Delivery  BY Zenon DEF InMemory
  <2> QED BY <1>15, <1>16, <2>1, Zenon DEF Drained, DrainExpires, Crash
<1>17. CASE Restart
  BY <1>17, Zenon DEF Restart, config, limiter, record
<1>18. CASE UNCHANGED vars
  BY <1>18, Zenon DEF vars
<1> QED
  BY <1>3, <1>4, <1>5, <1>6, <1>7, <1>8, <1>9, <1>10, <1>11, <1>12, <1>13, <1>14, <1>16, <1>17, <1>18
     DEF Next, Step, JobStep

\* Every step keeps the counters in their ranges.
LEMMA CountsStep == Counts /\ [Next]_vars => Counts'
<1> SUFFICES ASSUME Counts, [Next]_vars  PROVE Counts'
  OBVIOUS
<1>1. ASSUME NEW k, Fault(k)  PROVE faults' \in 0..MaxFaults
  BY <1>1, WebhookAssumption, SMT DEF Fault, Counts, WebhookAssumption
<1>2. faults' \in 0..MaxFaults
  BY <1>1, Zenon DEF Counts, Next, Dispatch, Step, LookedUp, Preflight, Enqueue, Post, Answered, Backoff,
     Record, Note, Letter, JobStep, TakeJob, ProcessJob, LetterJob, SettleJob, Shutdown, Drained,
     DrainExpires, Crash, Restart, record, vars
<1>3. stops' \in 0..MaxStops
  <2>1. stops' = stops \/ Shutdown
    BY Zenon DEF Next, Dispatch, Step, LookedUp, Preflight, Enqueue, Post, Backoff, Record, Note, JobStep,
       TakeJob, ProcessJob, LetterJob, SettleJob, Drained, DrainExpires, Crash, Vanish, Restart, vars
  <2>2. CASE Shutdown
    BY <2>2, WebhookAssumption, SMT DEF Shutdown, Counts, WebhookAssumption
  <2> QED BY <2>1, <2>2, Zenon DEF Counts
<1>4. try' \in [Delivery -> 1..Retries]
  <2>0. 1 \in 1..Retries  BY WebhookAssumption, SMT DEF WebhookAssumption
  <2>1. ASSUME NEW d \in Delivery, NEW n \in 1..Retries, try' = [try EXCEPT ![d] = n]
        PROVE  try' \in [Delivery -> 1..Retries]
    BY <2>1, Zenon DEF Counts
  <2>2. ASSUME NEW d \in Delivery, Answered(d)  PROVE try' \in [Delivery -> 1..Retries]
    BY <2>0, <2>1, <2>2, Zenon DEF Answered
  <2>3. ASSUME NEW d \in Delivery, Refused(d)  PROVE try' \in [Delivery -> 1..Retries]
    <3>1. CASE try[d] < Retries /\ try' = [try EXCEPT ![d] = @ + 1]
      <4>1. try[d] \in 1..Retries  BY Zenon DEF Counts
      <4>2. try[d] + 1 \in 1..Retries  BY <3>1, <4>1, WebhookAssumption, SMT DEF WebhookAssumption
      <4> QED BY <2>1, <3>1, <4>2, Zenon
    <3>2. CASE try' = [try EXCEPT ![d] = 1]
      BY <2>0, <2>1, <3>2, Zenon
    <3> QED BY <2>3, <3>1, <3>2, Zenon DEF Refused
  <2>4. ASSUME NEW given, Vanish(given)  PROVE try' \in [Delivery -> 1..Retries]
    BY <2>0, <2>4, Zenon DEF Vanish
  <2>5. \/ try' = try
        \/ \E d \in Delivery : Answered(d) \/ Refused(d)
        \/ \E given : Vanish(given)
    BY Zenon DEF Next, Dispatch, Step, LookedUp, Preflight, Enqueue, Post, Backoff, Record, Note, JobStep,
       TakeJob, ProcessJob, LetterJob, SettleJob, Shutdown, Drained, DrainExpires, Crash, Restart, vars
  <2> QED BY <2>2, <2>3, <2>4, <2>5, Zenon DEF Counts
<1> QED BY <1>2, <1>3, <1>4, Zenon DEF Counts

\* Every variable keeps to its range.
THEOREM Typed == Spec => []TypeOK
<1>1. Init => Sets /\ Counts
  <2>1. Init => Sets  BY Zenon DEF Init, Sets
  <2>2. 1 \in 1..Retries /\ MaxFaults \in 0..MaxFaults /\ MaxStops \in 0..MaxStops
    BY WebhookAssumption, SMT DEF WebhookAssumption
  <2>3. Init => Counts  BY <2>2, Zenon DEF Init, Counts
  <2> QED BY <2>1, <2>3
<1>2. IInv /\ Sets /\ Counts => TypeOK
  <2>1. IInv => active \in 0..MaxActive
    BY WebhookAssumption, SMT DEF IInv, Limits, SlotsKept, WebhookAssumption
  <2>2. IInv => ToSet(waiters) \subseteq Delivery  BY Zenon DEF IInv, SlotsKept
  <2>3. IInv => flow \in [Delivery -> Flow] /\ job \in [Delivery -> Job]  BY Zenon DEF IInv, Limits
  <2> QED BY <2>1, <2>2, <2>3, Zenon DEF Sets, Counts, TypeOK
<1> QED BY <1>1, <1>2, SetsStep, CountsStep, Invariance, PTL DEF Spec
=============================================================================
