------------------------- MODULE PublishingProofs -------------------------
(***************************************************************************)
(* Proofs about Publishing, for every set of tables, requests and          *)
(* subscribers.  One invariant accounts for the subscribers of every push: *)
(* each is still to come, being served, reached or missed, and an error is *)
(* kept exactly when one was missed.  Another ties every event being       *)
(* pushed to the state its version is in, which is why no two requests     *)
(* push the same one.                                                      *)
(***************************************************************************)
EXTENDS Publishing, VersionsProofs, FiniteSetTheorems

(* The subscribers a push has given up on.                                 *)
Missed(p) == p.subs \ (p.todo \cup p.reached \cup {p.sub})

Accounted(p) ==
  /\ p.pc = "idle" <=> p.event = NoEvent
  /\ p.pc \in {"retry", "fail"} <=> p.sub # NoSubscriber
  /\ p.sub \notin p.todo \cup p.reached
  /\ p.todo \cap p.reached = {}
  /\ p.todo \subseteq p.subs
  /\ p.sub # NoSubscriber => p.sub \in p.subs
  /\ p.pc = "copy" => p.reached = {} /\ ~p.firstErr
  /\ p.firstErr <=> Missed(p) # {}

(* A push that begins, for any event.                                      *)
LEMMA Begun ==
  ASSUME NEW e \in Event
  PROVE  LET p == [NoPush EXCEPT !.pc = "copy", !.event = e] IN
         p \in Push /\ Accounted(p) /\ p.event = e /\ ~p.firstErr
  BY NotifierAssumption DEF NoPush, Push, Accounted, Missed

(* The state between two pushes.                                           *)
LEMMA NoneYet ==
  NoPush \in Push /\ Accounted(NoPush) /\ NoPush.event = NoEvent /\ ~NoPush.firstErr
  BY NotifierAssumption DEF NoPush, Push, Accounted, Missed

(* Copying the subscribers makes all of them still to come.                *)
LEMMA Copied ==
  ASSUME NEW p \in Push, Accounted(p), p.pc = "copy", NEW S \in SUBSET Subscriber
  PROVE  LET q == [p EXCEPT !.pc = "deliver", !.subs = S, !.todo = S] IN
         q \in Push /\ Accounted(q) /\ q.event = p.event /\ q.firstErr = p.firstErr
  BY NotifierAssumption DEF Push, Accounted, Missed

(* A subscriber that takes the event, at either try, is reached.           *)
LEMMA Taken ==
  ASSUME NEW p \in Push, Accounted(p), NEW s \in Subscriber,
         (p.pc = "deliver" /\ s \in p.todo) \/ (p.pc = "retry" /\ s = p.sub)
  PROVE  /\ Take(p, s) \in Push /\ Accounted(Take(p, s))
         /\ Take(p, s).event = p.event /\ Take(p, s).firstErr = p.firstErr
<1>1. /\ Take(p, s) \in Push
      /\ Take(p, s).event = p.event /\ Take(p, s).firstErr = p.firstErr
      /\ Take(p, s).pc = "deliver" /\ Take(p, s).sub = NoSubscriber
      /\ Take(p, s).todo = p.todo \ {s} /\ Take(p, s).reached = p.reached \cup {s}
      /\ Take(p, s).subs = p.subs
  BY DEF Take, Push
<1>2. Missed(Take(p, s)) = Missed(p)
  BY <1>1, NotifierAssumption DEF Missed, Accounted, Push
<1> QED BY <1>1, <1>2, NotifierAssumption DEF Accounted, Push

(* A subscriber that returns an error is being served.                     *)
LEMMA Rejected ==
  ASSUME NEW p \in Push, Accounted(p), NEW s \in Subscriber,
         NEW pc \in {"retry", "fail"},
         (p.pc = "deliver" /\ s \in p.todo) \/ (p.pc = "retry" /\ s = p.sub)
  PROVE  /\ Reject(p, s, pc) \in Push /\ Accounted(Reject(p, s, pc))
         /\ Reject(p, s, pc).event = p.event
         /\ Reject(p, s, pc).firstErr = p.firstErr
<1> DEFINE q == Reject(p, s, pc)
<1>1. /\ q \in Push
      /\ q.event = p.event /\ q.firstErr = p.firstErr
      /\ q.pc = pc /\ q.sub = s
      /\ q.todo = p.todo \ {s} /\ q.reached = p.reached
      /\ q.subs = p.subs
  BY DEF Reject, Push
<1> HIDE DEF q
<1>2. Missed(q) = Missed(p)
  BY <1>1, NotifierAssumption DEF Missed, Accounted, Push
<1>3. Accounted(q)
  BY <1>1, <1>2, NotifierAssumption DEF Accounted, Push
<1> QED BY <1>1, <1>3 DEF q

(* Going on after a failure misses the subscriber and keeps the error.     *)
LEMMA GivenUp ==
  ASSUME NEW p \in Push, Accounted(p), p.pc = "fail"
  PROVE  LET q == [p EXCEPT !.pc = "deliver", !.sub = NoSubscriber, !.firstErr = TRUE] IN
         q \in Push /\ Accounted(q) /\ q.event = p.event
<1> DEFINE q == [p EXCEPT !.pc = "deliver", !.sub = NoSubscriber, !.firstErr = TRUE]
<1>1. /\ q \in Push
      /\ q.event = p.event /\ q.firstErr = TRUE
      /\ q.pc = "deliver" /\ q.sub = NoSubscriber
      /\ q.todo = p.todo /\ q.reached = p.reached /\ q.subs = p.subs
  BY DEF Push
<1> HIDE DEF q
<1>2. p.sub \in Missed(q)
  BY <1>1, NotifierAssumption DEF Missed, Accounted, Push
<1>3. Accounted(q)
  BY <1>1, <1>2, NotifierAssumption DEF Accounted, Push
<1> QED BY <1>1, <1>3 DEF q

-----------------------------------------------------------------------------
(* All pushes are accounted for, and an error that one keeps is recorded.  *)
PushInv ==
  /\ subscribers \subseteq Subscriber
  /\ lastErr \subseteq Event
  /\ push \in [Request -> Push]
  /\ \A r \in Request :
       Accounted(push[r]) /\ (push[r].firstErr => push[r].event \in lastErr)

(* One request's push goes on, and lastErr loses no entry.                 *)
LEMMA OnePush ==
  ASSUME PushInv, NEW r \in Request, NEW p \in Push, Accounted(p),
         push' = [push EXCEPT ![r] = p],
         subscribers' \subseteq Subscriber,
         lastErr \subseteq lastErr', lastErr' \subseteq Event,
         p.firstErr => p.event \in lastErr'
  PROVE  PushInv'
<1>1. push' \in [Request -> Push]
  BY DEF PushInv
<1>2. ASSUME NEW q \in Request
      PROVE  Accounted(push'[q]) /\ (push'[q].firstErr => push'[q].event \in lastErr')
  <2>1. CASE q = r
    <3>1. push'[q] = p
      BY <2>1 DEF PushInv
    <3> QED BY <3>1
  <2>2. CASE q # r
    <3>1. push'[q] = push[q]
      BY <2>2 DEF PushInv
    <3> QED BY <3>1 DEF PushInv
  <2> QED BY <2>1, <2>2
<1> QED BY <1>1, <1>2 DEF PushInv

(* The events being pushed after a step are among those before it.         *)
EventsStay == \A r \in Request : push'[r].event \in {push[r].event, NoEvent}

(* One request's push goes on with its event or ends.                      *)
LEMMA OneEventStays ==
  ASSUME PushInv, NEW r \in Request, NEW p,
         push' = [push EXCEPT ![r] = p], p.event \in {push[r].event, NoEvent}
  PROVE  EventsStay
<1>1. ASSUME NEW q \in Request
      PROVE  push'[q].event \in {push[q].event, NoEvent}
  <2>1. CASE q = r
    BY <2>1 DEF PushInv
  <2>2. CASE q # r
    <3>1. push'[q] = push[q]
      BY <2>2 DEF PushInv
    <3> QED BY <3>1
  <2> QED BY <2>1, <2>2
<1> QED BY <1>1 DEF EventsStay

(* Every step of a push keeps the account and the event.                   *)
LEMMA StepAccounted ==
  ASSUME PushInv, NEW r \in Request, PushStep(r) \/ EndPush(r)
  PROVE  PushInv' /\ EventsStay
<1> DEFINE p == push[r]
<1>1. /\ p \in Push /\ Accounted(p)
      /\ p.firstErr => p.event \in lastErr
      /\ subscribers \subseteq Subscriber /\ lastErr \subseteq Event
  BY DEF PushInv
<1>2. CASE CopySubscribers(r)
  <2> DEFINE q == [p EXCEPT !.pc = "deliver", !.subs = subscribers, !.todo = subscribers]
  <2>1. q \in Push /\ Accounted(q) /\ q.event = p.event /\ q.firstErr = p.firstErr
    BY <1>1, <1>2, Copied DEF CopySubscribers, At
  <2>2. push' = [push EXCEPT ![r] = q] /\ UNCHANGED <<subscribers, lastErr>>
    BY <1>2 DEF CopySubscribers
  <2> HIDE DEF q
  <2> QED BY <1>1, <2>1, <2>2, OnePush, OneEventStays
<1>3. ASSUME NEW s \in Subscriber, push' = [push EXCEPT ![r] = Take(p, s)],
             (p.pc = "deliver" /\ s \in p.todo) \/ (p.pc = "retry" /\ s = p.sub),
             UNCHANGED <<subscribers, lastErr>>
      PROVE  PushInv' /\ EventsStay
  <2>1. /\ Take(p, s) \in Push /\ Accounted(Take(p, s))
        /\ Take(p, s).event = p.event /\ Take(p, s).firstErr = p.firstErr
    BY <1>1, <1>3, Taken
  <2> QED BY <1>1, <1>3, <2>1, OnePush, OneEventStays
<1>4. ASSUME NEW s \in Subscriber, NEW pc \in {"retry", "fail"},
             push' = [push EXCEPT ![r] = Reject(p, s, pc)],
             (p.pc = "deliver" /\ s \in p.todo) \/ (p.pc = "retry" /\ s = p.sub),
             UNCHANGED <<subscribers, lastErr>>
      PROVE  PushInv' /\ EventsStay
  <2>1. /\ Reject(p, s, pc) \in Push /\ Accounted(Reject(p, s, pc))
        /\ Reject(p, s, pc).event = p.event /\ Reject(p, s, pc).firstErr = p.firstErr
    BY <1>1, <1>4, Rejected
  <2> QED BY <1>1, <1>4, <2>1, OnePush, OneEventStays
<1>5. CASE Deliver(r)
  <2>1. PICK s \in p.todo :
          push' \in {[push EXCEPT ![r] = Take(@, s)],
                     [push EXCEPT ![r] = Reject(@, s, "retry")]}
    BY <1>5 DEF Deliver
  <2>2. s \in Subscriber /\ p.pc = "deliver" /\ UNCHANGED <<subscribers, lastErr>>
    BY <1>1, <1>5 DEF Push, Deliver, At
  <2> QED BY <2>1, <2>2, <1>3, <1>4
<1>6. CASE Retry(r)
  <2>1. p.pc = "retry" /\ UNCHANGED <<subscribers, lastErr>>
    BY <1>6 DEF Retry, At
  <2>2. p.sub \in Subscriber
    BY <1>1, <2>1 DEF Push, Accounted
  <2>3. push' \in {[push EXCEPT ![r] = Take(@, p.sub)],
                   [push EXCEPT ![r] = Reject(@, p.sub, "fail")]}
    BY <1>6 DEF Retry
  <2> QED BY <2>1, <2>2, <2>3, <1>3, <1>4
<1>7. CASE RecordFailure(r)
  <2> DEFINE q == [p EXCEPT !.pc = "deliver", !.sub = NoSubscriber, !.firstErr = TRUE]
  <2>1. p.pc = "fail" /\ UNCHANGED subscribers /\ lastErr' = lastErr \cup {p.event}
    BY <1>7 DEF RecordFailure, At
  <2>2. q \in Push /\ Accounted(q) /\ q.event = p.event
    BY <1>1, <2>1, GivenUp
  <2>3. push' = [push EXCEPT ![r] = q]
    BY <1>7 DEF RecordFailure, GoOn
  <2>4. p.event \in Event
    BY <1>1, <2>1 DEF Push, Accounted
  <2> HIDE DEF q
  <2> QED BY <1>1, <2>1, <2>2, <2>3, <2>4, OnePush, OneEventStays
<1>8. CASE EndPush(r)
  BY <1>1, <1>8, NoneYet, OnePush, OneEventStays DEF EndPush
<1> QED BY <1>2, <1>5, <1>6, <1>7, <1>8 DEF PushStep

(* A request that is idle begins to push an event.                         *)
LEMMA StartAccounted ==
  ASSUME PushInv, NEW r \in Request, NEW e \in Event, StartPush(r, e)
  PROVE  /\ PushInv'
         /\ push[r].event = NoEvent
         /\ \A q \in Request : push'[q].event = IF q = r THEN e ELSE push[q].event
<1> DEFINE p == [NoPush EXCEPT !.pc = "copy", !.event = e]
<1>1. p \in Push /\ Accounted(p) /\ p.event = e /\ ~p.firstErr
  BY Begun
<1>2. push' = [push EXCEPT ![r] = p] /\ UNCHANGED <<subscribers, lastErr>>
  BY DEF StartPush
<1> HIDE DEF p
<1>3. PushInv'
  BY <1>1, <1>2, OnePush DEF PushInv
<1>4. push[r].event = NoEvent
  BY DEF PushInv, Accounted, StartPush, At
<1>5. \A q \in Request : push'[q].event = IF q = r THEN e ELSE push[q].event
  BY <1>1, <1>2 DEF PushInv
<1> QED BY <1>3, <1>4, <1>5

-----------------------------------------------------------------------------
(* The versions of a table are as many as the bound allows, so that their  *)
(* events are events of the model.                                         *)
WithinBound == \A t \in TableId : DOMAIN versions[t] \subseteq 1 .. MaxVersions

(* One table gets another list within the bound.                           *)
LEMMA OneListBounded ==
  ASSUME Inv, WithinBound, NEW t \in TableId, NEW s,
         versions' = [versions EXCEPT ![t] = s], DOMAIN s \subseteq 1 .. MaxVersions
  PROVE  WithinBound'
<1>1. versions \in [TableId -> Seq(VersionState)]
  BY DEF Inv, VersionsTypeOK
<1>2. SUFFICES ASSUME NEW u \in TableId
               PROVE  DOMAIN versions'[u] \subseteq 1 .. MaxVersions
  BY DEF WithinBound
<1>3. CASE u = t
  BY <1>1, <1>3
<1>4. CASE u # t
  <2>1. versions'[u] = versions[u]
    BY <1>1, <1>4
  <2> QED BY <2>1 DEF WithinBound
<1> QED BY <1>3, <1>4

(* Only Draft adds a version, and not beyond the bound.                    *)
LEMMA BoundKept ==
  ASSUME Inv, WithinBound, [VersionsNext]_versionVars
  PROVE  WithinBound'
<1>1. CASE versions' = versions
  BY <1>1 DEF WithinBound
<1>2. ASSUME NEW t \in TableId, Draft(t)
      PROVE  WithinBound'
  <2> DEFINE s == Append(versions[t], "draft")
  <2>1. versions[t] \in Seq(VersionState) /\ Len(versions[t]) \in Nat
    BY TableTypes
  <2>2. DOMAIN s = 1 .. Len(versions[t]) + 1
    BY <2>1, DraftAppended
  <2>3. Len(versions[t]) < MaxVersions /\ versions' = [versions EXCEPT ![t] = s]
    BY <1>2 DEF Draft
  <2> HIDE DEF s
  <2>4. DOMAIN s \subseteq 1 .. MaxVersions
    BY <2>1, <2>2, <2>3, VersionsAssumption
  <2> QED BY <2>3, <2>4, OneListBounded
<1>3. ASSUME NEW t \in TableId, NEW n \in DOMAIN versions[t], NEW state \in VersionState,
             SetState(t, n, state)
      PROVE  WithinBound'
  <2> DEFINE s == [versions[t] EXCEPT ![n] = state]
  <2>1. DOMAIN s = DOMAIN versions[t] /\ versions' = [versions EXCEPT ![t] = s]
    BY <1>3 DEF SetState
  <2> HIDE DEF s
  <2> QED BY <2>1, OneListBounded DEF WithinBound
<1>4. ASSUME NEW t \in TableId, Supersede(t)
      PROVE  WithinBound'
  <2> DEFINE s == Superseded(versions[t], current[t])
  <2>1. versions[t] \in Seq(VersionState)
    BY TableTypes
  <2>2. DOMAIN s = DOMAIN versions[t]
    BY <2>1, SupersededList
  <2>3. versions' = [versions EXCEPT ![t] = s]
    BY <1>4 DEF Supersede, Superseded, Inv, VersionsTypeOK
  <2> HIDE DEF s
  <2> QED BY <2>2, <2>3, OneListBounded DEF WithinBound
<1>5. "published" \in VersionState /\ "rolled-back" \in VersionState
  BY DEF VersionState
<1>6. CASE VersionsNext
  <2>1. PICK t \in TableId :
          \/ Draft(t) \/ RollBack(t) \/ Supersede(t)
          \/ \E n \in DOMAIN versions[t] : PublishDraft(t, n) \/ SwitchTo(t, n)
    BY <1>6 DEF VersionsNext
  <2>2. CASE RollBack(t)
    BY <2>2, <1>3, <1>5 DEF RollBack, Exists
  <2>3. ASSUME NEW n \in DOMAIN versions[t], PublishDraft(t, n)
        PROVE  WithinBound'
    BY <2>3, <1>3, <1>5 DEF PublishDraft
  <2>4. CASE \E n \in DOMAIN versions[t] : SwitchTo(t, n)
    BY <2>4, <1>1 DEF SwitchTo
  <2> QED BY <2>1, <2>2, <2>3, <2>4, <1>2, <1>4
<1> QED BY <1>1, <1>6 DEF versionVars

-----------------------------------------------------------------------------
(* The state that a version is in from the moment its event is pushed.     *)
SpentIn(e, vs) ==
  /\ e.type = "version.published" =>
       e.version \in DOMAIN vs[e.table] /\ vs[e.table][e.version] # "draft"
  /\ e.type = "version.rolled-back" =>
       e.version \in DOMAIN vs[e.table] /\ vs[e.table][e.version] = "rolled-back"

Spent == \A r \in Request : push[r].event # NoEvent => SpentIn(push[r].event, versions)

(* No version goes back, so an event stays spent.                          *)
LEMMA StaysSpent ==
  ASSUME \A t \in TableId : Onward(versions[t], versions'[t]),
         NEW e \in Event, SpentIn(e, versions)
  PROVE  SpentIn(e, versions')
<1>1. e.table \in TableId
  BY PublishingAssumption DEF VersionEvent, LineageEvent
<1> QED BY <1>1 DEF SpentIn, Onward

(* A step that starts no push.                                             *)
LEMMA NoEventStarts ==
  ASSUME PushInv, Spent, EventsPushedOnce, EventsStay,
         \A t \in TableId : Onward(versions[t], versions'[t])
  PROVE  Spent' /\ EventsPushedOnce'
<1>1. \A r \in Request : push[r].event \in Event \cup {NoEvent}
  BY DEF PushInv, Push
<1>2. Spent'
  BY <1>1, StaysSpent DEF Spent, EventsStay
<1>3. EventsPushedOnce'
  BY DEF EventsPushedOnce, EventsStay
<1> QED BY <1>2, <1>3

(* A step that starts to push an event that was not spent before.          *)
LEMMA EventStarts ==
  ASSUME PushInv, Spent, EventsPushedOnce, NEW r \in Request, NEW e \in Event,
         push[r].event = NoEvent,
         \A q \in Request : push'[q].event = IF q = r THEN e ELSE push[q].event,
         \A t \in TableId : Onward(versions[t], versions'[t]),
         e.type = "lineage.changed" \/ ~SpentIn(e, versions),
         SpentIn(e, versions')
  PROVE  Spent' /\ EventsPushedOnce'
<1>1. \A q \in Request : push[q].event \in Event \cup {NoEvent}
  BY DEF PushInv, Push
<1>2. Spent'
  BY <1>1, StaysSpent DEF Spent
<1>3. \A q \in Request : push[q].event = e => e.type = "lineage.changed"
  BY NotifierAssumption DEF Spent
<1>4. EventsPushedOnce'
  BY <1>3 DEF EventsPushedOnce
<1> QED BY <1>2, <1>4

-----------------------------------------------------------------------------
(* The inductive invariant of Publishing.                                  *)
PublishingInv == Inv /\ WithinBound /\ PushInv /\ Spent /\ EventsPushedOnce

(* Initially there are no versions and no pushes.                          *)
LEMMA PublishingInvInitially ==
  ASSUME Init
  PROVE  PublishingInv
<1>1. Inv
  BY InvInitially DEF Init
<1>2. WithinBound
  <2>1. \A t \in TableId : versions[t] = <<>>
    BY DEF Init, VersionsInit
  <2>2. DOMAIN << >> = {}
    OBVIOUS
  <2> QED BY <2>1, <2>2 DEF WithinBound
<1>3. push = [r \in Request |-> NoPush] /\ subscribers = {} /\ lastErr = {}
  BY DEF Init, NotifierInit
<1>4. \A r \in Request : push[r] = NoPush
  BY <1>3
<1>5. PushInv
  BY <1>3, <1>4, NoneYet DEF PushInv
<1>6. Spent /\ EventsPushedOnce
  BY <1>4, NoneYet DEF Spent, EventsPushedOnce
<1> QED BY <1>1, <1>2, <1>5, <1>6 DEF PublishingInv

(* Every step is one of Versions or leaves the versions alone.             *)
LEMMA VersionsImplemented ==
  ASSUME [Next]_vars
  PROVE  [VersionsNext]_versionVars
  BY DEF Next, vars, versionVars, VersionStep, Publish, Rollback, ChangeEdge, GoesOn,
         VersionsNext

(* Publish pushes the event of a draft that it publishes.                  *)
LEMMA PublishKeepsEvents ==
  ASSUME PublishingInv, NEW r \in Request, NEW t \in TableId, Publish(r, t),
         \A u \in TableId : Onward(versions[u], versions'[u])
  PROVE  PushInv' /\ Spent' /\ EventsPushedOnce'
<1>1. PICK n \in DOMAIN versions[t] :
        PublishDraft(t, n) /\ StartPush(r, Ev("version.published", t, n))
  BY DEF Publish
<1> DEFINE e == Ev("version.published", t, n)
<1>2. e.type = "version.published" /\ e.table = t /\ e.version = n
  BY DEF Ev
<1>3. e \in Event
  BY PublishingAssumption DEF Ev, VersionEvent, PublishingInv, WithinBound
<1>4. /\ PushInv' /\ push[r].event = NoEvent
      /\ \A q \in Request : push'[q].event = IF q = r THEN e ELSE push[q].event
  BY <1>1, <1>3, StartAccounted DEF PublishingInv
<1>5. versions[t][n] = "draft"
  BY <1>1 DEF PublishDraft, Largest, Drafts
<1>6. DOMAIN versions'[t] = DOMAIN versions[t] /\ versions'[t][n] = "published"
  <2>1. versions \in [TableId -> Seq(VersionState)] /\ versions[t] \in Seq(VersionState)
    BY DEF PublishingInv, Inv, VersionsTypeOK
  <2>2. versions'[t] = [versions[t] EXCEPT ![n] = "published"]
    BY <1>1, <2>1 DEF PublishDraft, SetState
  <2>3. "published" \in VersionState
    BY DEF VersionState
  <2> QED BY <2>1, <2>2, <2>3, StateReplaced
<1> HIDE DEF e
<1>7. ~SpentIn(e, versions) /\ SpentIn(e, versions')
  BY <1>2, <1>5, <1>6 DEF SpentIn
<1> QED BY <1>3, <1>4, <1>7, EventStarts DEF PublishingInv

(* Rollback pushes the event of the current version, which was readable.   *)
LEMMA RollbackKeepsEvents ==
  ASSUME PublishingInv, NEW r \in Request, NEW t \in TableId, Rollback(r, t),
         \A u \in TableId : Onward(versions[u], versions'[u])
  PROVE  PushInv' /\ Spent' /\ EventsPushedOnce'
<1> DEFINE n == current[t]
           e == Ev("version.rolled-back", t, n)
<1>1. RollBack(t) /\ StartPush(r, e)
  BY DEF Rollback
<1>2. e.type = "version.rolled-back" /\ e.table = t /\ e.version = n
  BY DEF Ev
<1>3. n \in DOMAIN versions[t]
  BY <1>1 DEF RollBack, Exists
<1>4. e \in Event
  BY <1>3, PublishingAssumption DEF Ev, VersionEvent, PublishingInv, WithinBound
<1>5. /\ PushInv' /\ push[r].event = NoEvent
      /\ \A q \in Request : push'[q].event = IF q = r THEN e ELSE push[q].event
  <2> HIDE DEF e
  <2> QED BY <1>1, <1>4, StartAccounted DEF PublishingInv
<1>6. versions[t][n] # "rolled-back"
  <2>1. /\ DOMAIN versions[t] = 1 .. Len(versions[t]) /\ Len(versions[t]) \in Nat
        /\ n # 0 => n \in DOMAIN versions[t] /\ Readable(versions[t][n])
    BY TableTypes DEF PublishingInv
  <2> HIDE DEF n
  <2>2. n # 0
    BY <1>3, <2>1
  <2> QED BY <2>1, <2>2 DEF Readable
<1>7. DOMAIN versions'[t] = DOMAIN versions[t] /\ versions'[t][n] = "rolled-back"
  <2>1. versions \in [TableId -> Seq(VersionState)] /\ versions[t] \in Seq(VersionState)
    BY DEF PublishingInv, Inv, VersionsTypeOK
  <2>2. versions'[t] = [versions[t] EXCEPT ![n] = "rolled-back"]
    BY <1>1, <2>1 DEF RollBack, SetState
  <2>3. "rolled-back" \in VersionState
    BY DEF VersionState
  <2> HIDE DEF n
  <2> QED BY <1>3, <2>1, <2>2, <2>3, StateReplaced
<1> HIDE DEF e, n
<1>8. ~SpentIn(e, versions) /\ SpentIn(e, versions')
  BY <1>2, <1>3, <1>6, <1>7 DEF SpentIn
<1> QED BY <1>4, <1>5, <1>8, EventStarts DEF PublishingInv

(* A change of edges pushes an event that others may be pushing too.       *)
LEMMA ChangeEdgeKeepsEvents ==
  ASSUME PublishingInv, NEW r \in Request, NEW t \in TableId, ChangeEdge(r, t),
         \A u \in TableId : Onward(versions[u], versions'[u])
  PROVE  PushInv' /\ Spent' /\ EventsPushedOnce'
<1> DEFINE e == Ev("lineage.changed", t, 0)
<1>1. StartPush(r, e)
  BY DEF ChangeEdge
<1>2. e.type = "lineage.changed"
  BY DEF Ev
<1>3. e \in Event
  BY PublishingAssumption DEF Ev, LineageEvent
<1> HIDE DEF e
<1>4. /\ PushInv' /\ push[r].event = NoEvent
      /\ \A q \in Request : push'[q].event = IF q = r THEN e ELSE push[q].event
  BY <1>1, <1>3, StartAccounted DEF PublishingInv
<1>5. SpentIn(e, versions')
  BY <1>2 DEF SpentIn
<1> QED BY <1>2, <1>3, <1>4, <1>5, EventStarts DEF PublishingInv

(* Subscribing and leaving touch no push that has copied the subscribers.  *)
LEMMA SubscribersMove ==
  ASSUME PublishingInv, NEW s \in Subscriber, Subscribe(s) \/ Unsubscribe(s)
  PROVE  PushInv' /\ EventsStay
  BY DEF Subscribe, Unsubscribe, PublishingInv, PushInv, EventsStay

(* Every step of Publishing keeps the invariant.                           *)
LEMMA PublishingInvKept ==
  ASSUME PublishingInv, [Next]_vars
  PROVE  PublishingInv'
<1>1. [VersionsNext]_versionVars
  BY VersionsImplemented
<1>2. Inv' /\ WithinBound'
  BY <1>1, InvKept, BoundKept DEF PublishingInv
<1>3. \A u \in TableId : Onward(versions[u], versions'[u])
  BY <1>1, StepOnward DEF PublishingInv
<1>4. ASSUME PushInv', EventsStay
      PROVE  PublishingInv'
  BY <1>2, <1>3, <1>4, NoEventStarts DEF PublishingInv
<1>5. CASE UNCHANGED notifierVars
  <2>1. PushInv' /\ EventsStay
    BY <1>5 DEF notifierVars, PublishingInv, PushInv, EventsStay
  <2> QED BY <2>1, <1>4
<1>6. ASSUME NEW r \in Request, NEW t \in TableId,
             Publish(r, t) \/ Rollback(r, t) \/ ChangeEdge(r, t)
      PROVE  PublishingInv'
  BY <1>2, <1>3, <1>6, PublishKeepsEvents, RollbackKeepsEvents, ChangeEdgeKeepsEvents
     DEF PublishingInv
<1>7. ASSUME NEW r \in Request, PushStep(r) \/ EndPush(r)
      PROVE  PublishingInv'
  BY <1>4, <1>7, StepAccounted DEF PublishingInv
<1>8. ASSUME NEW s \in Subscriber, Subscribe(s) \/ Unsubscribe(s)
      PROVE  PublishingInv'
  BY <1>4, <1>8, SubscribersMove
<1>9. CASE UNCHANGED vars
  BY <1>5, <1>9 DEF vars, notifierVars
<1>10. CASE Next
  BY <1>5, <1>6, <1>7, <1>8, <1>10 DEF Next, GoesOn
<1> QED BY <1>9, <1>10

-----------------------------------------------------------------------------
(* The invariant holds in every reachable state.                           *)
LEMMA PublishingInvAlways == Spec => []PublishingInv
  BY PublishingInvInitially, PublishingInvKept, PTL DEF Spec

-----------------------------------------------------------------------------
(* What steady subscribers have been told.                                 *)

(* The push has yet to be through with the subscriber.                     *)
Ahead(p, s) == p.pc = "copy" \/ s \in p.todo \/ s = p.sub

TellInv ==
  /\ steady \subseteq subscribers
  /\ told \in [Subscriber -> [VersionEvent -> Told]]
  /\ \A s \in Subscriber \ steady : told[s] = ToldNothing
  /\ \A s \in steady, r \in Request :
       push[r].event \in VersionEvent =>
         (told[s][push[r].event] = "never" <=> Ahead(push[r], s))
  /\ SteadyKnowsAll

(* A version event has happened exactly when it is spent.                  *)
LEMMA HappenedSpent ==
  \A e \in VersionEvent : Happened(e) <=> SpentIn(e, versions)
BY DEF Happened, SpentIn, VersionEvent

LEMMA NothingTold ==
  /\ ToldNothing \in [VersionEvent -> Told]
  /\ \A e \in VersionEvent : ToldNothing[e] = "never"
BY DEF ToldNothing, Told

LEMMA TellInvInitially == Init => TellInv
<1> SUFFICES ASSUME Init PROVE TellInv
  OBVIOUS
<1>1. steady = {} /\ told = [s \in Subscriber |-> ToldNothing]
  BY DEF Init
<1> QED
  BY <1>1, NothingTold DEF TellInv, SteadyKnowsAll

(* What one step of a push does to the subscribers it is not through with. *)
OneFewerAhead(r) ==
  /\ \A o \in Request \ {r} : push'[o] = push[o]
  /\ lastErr \subseteq lastErr' /\ subscribers' = subscribers
  /\ \A s \in subscribers :
       \/ /\ push'[r].event = push[r].event
          /\ Took(r, s) \/ GaveUp(r, s) => Ahead(push[r], s)
          /\ Ahead(push'[r], s) <=> Ahead(push[r], s) /\ ~(Took(r, s) \/ GaveUp(r, s))
          /\ GaveUp(r, s) => push[r].event \in lastErr'
       \/ /\ push'[r].event = NoEvent
          /\ ~Ahead(push[r], s) /\ ~Took(r, s) /\ ~GaveUp(r, s)

LEMMA PushAhead ==
  ASSUME PushInv, NEW r \in Request, PushStep(r) \/ EndPush(r)
  PROVE  OneFewerAhead(r)
<1> DEFINE p == push[r]
           q == push'[r]
<1>1. /\ p \in Push /\ Accounted(p) /\ push \in [Request -> Push]
      /\ subscribers \subseteq Subscriber
  BY DEF PushInv
<1>2. ASSUME NEW x, push' = [push EXCEPT ![r] = x]
      PROVE  q = x /\ \A o \in Request \ {r} : push'[o] = push[o]
  BY <1>1, <1>2
<1>3. NoSubscriber \notin subscribers
  BY <1>1, NotifierAssumption
<1>4. ASSUME NEW s0 \in Subscriber, push' = [push EXCEPT ![r] = Take(p, s0)],
             (p.pc = "deliver" /\ s0 \in p.todo) \/ (p.pc = "retry" /\ s0 = p.sub),
             UNCHANGED <<subscribers, lastErr>>
      PROVE  OneFewerAhead(r)
  <2>1. q = Take(p, s0) /\ \A o \in Request \ {r} : push'[o] = push[o]
    BY <1>2, <1>4
  <2>2. /\ q.event = p.event /\ q.pc = "deliver" /\ q.sub = NoSubscriber
        /\ q.todo = p.todo \ {s0} /\ q.reached = p.reached \cup {s0}
    BY <1>1, <2>1 DEF Take, Push
  <2>3. \A s \in subscribers : (Took(r, s) <=> s = s0) /\ ~GaveUp(r, s)
    BY <1>1, <1>4, <2>2 DEF Took, GaveUp, At, Accounted
  <2>4. p.pc = "deliver" => p.sub = NoSubscriber
    BY <1>1 DEF Accounted
  <2> HIDE DEF q
  <2>5. \A s \in subscribers :
          /\ s = s0 => Ahead(p, s)
          /\ Ahead(q, s) <=> Ahead(p, s) /\ s # s0
    BY <1>3, <1>4, <2>2, <2>4 DEF Ahead
  <2> QED
    BY <1>4, <2>1, <2>2, <2>3, <2>5 DEF OneFewerAhead, q
<1>5. ASSUME NEW s0 \in Subscriber, NEW pc \in {"retry", "fail"},
             push' = [push EXCEPT ![r] = Reject(p, s0, pc)],
             (p.pc = "deliver" /\ s0 \in p.todo) \/ (p.pc = "retry" /\ s0 = p.sub),
             UNCHANGED <<subscribers, lastErr>>
      PROVE  OneFewerAhead(r)
  <2>1. q = Reject(p, s0, pc) /\ \A o \in Request \ {r} : push'[o] = push[o]
    BY <1>2, <1>5
  <2>2. /\ q.event = p.event /\ q.pc = pc /\ q.sub = s0
        /\ q.todo = p.todo \ {s0} /\ q.reached = p.reached
    BY <1>1, <2>1 DEF Reject, Push
  <2>3. \A s \in subscribers : ~Took(r, s) /\ ~GaveUp(r, s)
    BY <1>5, <2>2 DEF Took, GaveUp, At
  <2>4. p.pc = "deliver" => p.sub = NoSubscriber
    BY <1>1 DEF Accounted
  <2> HIDE DEF q
  <2>5. \A s \in subscribers : Ahead(q, s) <=> Ahead(p, s)
    BY <1>3, <1>5, <2>2, <2>4 DEF Ahead
  <2> QED
    BY <1>5, <2>1, <2>2, <2>3, <2>5 DEF OneFewerAhead, q
<1>6. CASE CopySubscribers(r)
  <2> DEFINE x == [p EXCEPT !.pc = "deliver", !.subs = subscribers, !.todo = subscribers]
  <2>1. /\ push' = [push EXCEPT ![r] = x] /\ p.pc = "copy"
        /\ UNCHANGED <<subscribers, lastErr>>
    BY <1>6 DEF CopySubscribers, At
  <2>2. q = x /\ \A o \in Request \ {r} : push'[o] = push[o]
    BY <1>2, <2>1
  <2>3. q.event = p.event /\ q.todo = subscribers /\ q.reached = p.reached
    BY <1>1, <2>2 DEF Push
  <2>4. \A s \in subscribers : ~Took(r, s) /\ ~GaveUp(r, s)
    BY <2>1, <2>3 DEF Took, GaveUp, At
  <2>5. \A s \in subscribers : Ahead(q, s) /\ Ahead(p, s)
    BY <2>1, <2>3 DEF Ahead
  <2> QED
    BY <2>1, <2>2, <2>3, <2>4, <2>5 DEF OneFewerAhead
<1>7. CASE Deliver(r)
  <2>1. PICK s \in p.todo :
          push' \in {[push EXCEPT ![r] = Take(@, s)],
                     [push EXCEPT ![r] = Reject(@, s, "retry")]}
    BY <1>7 DEF Deliver
  <2>2. s \in Subscriber /\ p.pc = "deliver" /\ UNCHANGED <<subscribers, lastErr>>
    BY <1>1, <1>7 DEF Push, Deliver, At
  <2> QED BY <2>1, <2>2, <1>4, <1>5
<1>8. CASE Retry(r)
  <2>1. p.pc = "retry" /\ UNCHANGED <<subscribers, lastErr>>
    BY <1>8 DEF Retry, At
  <2>2. p.sub \in Subscriber
    BY <1>1, <2>1 DEF Push, Accounted
  <2>3. push' \in {[push EXCEPT ![r] = Take(@, p.sub)],
                   [push EXCEPT ![r] = Reject(@, p.sub, "fail")]}
    BY <1>8 DEF Retry
  <2> QED BY <2>1, <2>2, <2>3, <1>4, <1>5
<1>9. CASE RecordFailure(r)
  <2> DEFINE x == [p EXCEPT !.pc = "deliver", !.sub = NoSubscriber, !.firstErr = TRUE]
  <2>1. /\ push' = [push EXCEPT ![r] = x] /\ p.pc = "fail"
        /\ subscribers' = subscribers /\ lastErr' = lastErr \cup {p.event}
    BY <1>9 DEF RecordFailure, GoOn, At
  <2>2. q = x /\ \A o \in Request \ {r} : push'[o] = push[o]
    BY <1>2, <2>1
  <2>3. /\ q.event = p.event /\ q.todo = p.todo /\ q.reached = p.reached
        /\ q.pc = "deliver" /\ q.sub = NoSubscriber
    BY <1>1, <2>2 DEF Push
  <2>4. \A s \in subscribers : ~Took(r, s) /\ (GaveUp(r, s) <=> s = p.sub)
    BY <1>3, <2>1, <2>3 DEF Took, GaveUp, At
  <2>5. p.sub \notin p.todo
    BY <1>1 DEF Accounted
  <2> HIDE DEF q, x
  <2>6. \A s \in subscribers :
          /\ s = p.sub => Ahead(p, s)
          /\ Ahead(q, s) <=> Ahead(p, s) /\ s # p.sub
    BY <1>3, <2>1, <2>3, <2>5 DEF Ahead
  <2> QED
    BY <2>1, <2>2, <2>3, <2>4, <2>6 DEF OneFewerAhead, q
<1>10. CASE EndPush(r)
  <2>1. /\ push' = [push EXCEPT ![r] = NoPush] /\ p.pc = "deliver" /\ p.todo = {}
        /\ UNCHANGED <<subscribers, lastErr>>
    BY <1>10 DEF EndPush, Pushed, At
  <2>2. q = NoPush /\ \A o \in Request \ {r} : push'[o] = push[o]
    BY <1>2, <2>1
  <2>3. q.event = NoEvent /\ q.reached = {}
    BY <2>2 DEF NoPush
  <2>4. p.sub = NoSubscriber
    BY <1>1, <2>1 DEF Accounted
  <2>5. \A s \in subscribers : ~Took(r, s) /\ ~GaveUp(r, s) /\ ~Ahead(p, s)
    BY <1>3, <2>1, <2>3, <2>4 DEF Took, GaveUp, At, Ahead
  <2> QED
    BY <2>1, <2>2, <2>3, <2>5 DEF OneFewerAhead
<1> QED BY <1>6, <1>7, <1>8, <1>9, <1>10 DEF PushStep

(* A step of a push: who took the event or was given up on, and only they, *)
(* have another entry for it.                                              *)
LEMMA PushTells ==
  ASSUME PublishingInv, PublishingInv', TellInv, NEW r \in Request, GoesOn(r)
  PROVE  TellInv'
<1> DEFINE e == push[r].event
           done(s) == Took(r, s) \/ GaveUp(r, s)
<1>1. OneFewerAhead(r)
  BY PushAhead DEF PublishingInv, GoesOn
<1>2. /\ steady' = steady /\ steady \subseteq subscribers /\ subscribers' = subscribers
      /\ steady \subseteq Subscriber
      /\ versions' = versions /\ told \in [Subscriber -> [VersionEvent -> Told]]
      /\ lastErr \subseteq lastErr'
  BY <1>1 DEF TellInv, GoesOn, NotePush, versionVars, OneFewerAhead, PublishingInv, PushInv
<1>3. \A x \in VersionEvent : Happened(x)' <=> Happened(x)
  BY <1>2 DEF Happened
<1>4. \A s \in Subscriber, x \in VersionEvent :
        told'[s][x] = IF x = e /\ s \in steady /\ done(s)
                      THEN IF told[s][x] # "never" THEN "again"
                           ELSE IF Took(r, s) THEN "once" ELSE "refused"
                      ELSE told[s][x]
  <2>1. CASE e \notin VersionEvent
    <3>1. told' = told
      BY <2>1 DEF GoesOn, NotePush
    <3> QED BY <2>1, <3>1
  <2>2. CASE e \in VersionEvent
    <3> DEFINE Outcome(s) == IF told[s][e] # "never" THEN "again"
                             ELSE IF Took(r, s) THEN "once" ELSE "refused"
    <3>1. told' = [s \in Subscriber |->
                     IF s \in steady /\ done(s)
                     THEN [told[s] EXCEPT ![e] = Outcome(s)] ELSE told[s]]
      BY <2>2 DEF GoesOn, NotePush
    <3> HIDE DEF e, done
    <3> SUFFICES ASSUME NEW s \in Subscriber, NEW x \in VersionEvent
                 PROVE  told'[s][x] = IF x = e /\ s \in steady /\ done(s)
                                      THEN Outcome(s) ELSE told[s][x]
      OBVIOUS
    <3> HIDE DEF Outcome
    <3>2. told[s] \in [VersionEvent -> Told]
      BY <1>2
    <3> QED BY <2>2, <3>1, <3>2
  <2> QED BY <2>1, <2>2
<1>5. /\ told' \in [Subscriber -> [VersionEvent -> Told]]
      /\ \A s \in Subscriber \ steady : told'[s] = told[s]
  <2>1. CASE e \notin VersionEvent
    BY <1>2, <2>1 DEF GoesOn, NotePush
  <2>2. CASE e \in VersionEvent
    <3> DEFINE Outcome(s) == IF told[s][e] # "never" THEN "again"
                             ELSE IF Took(r, s) THEN "once" ELSE "refused"
    <3>1. told' = [s \in Subscriber |->
                     IF s \in steady /\ done(s)
                     THEN [told[s] EXCEPT ![e] = Outcome(s)] ELSE told[s]]
      BY <2>2 DEF GoesOn, NotePush
    <3>2. \A s : Outcome(s) \in Told
      BY DEF Told
    <3> HIDE DEF e, done, Outcome
    <3> QED BY <1>2, <3>1, <3>2
  <2> QED BY <2>1, <2>2
<1>6. \A s \in steady : e \in VersionEvent => (told[s][e] = "never" <=> Ahead(push[r], s))
  BY DEF TellInv
<1>7. \A o \in Request : push[o].event \in Event \cup {NoEvent}
  BY DEF PublishingInv, PushInv, Push
<1>8. \A o \in Request \ {r} : push'[o] = push[o]
  BY <1>1 DEF OneFewerAhead
<1>9. \A x \in VersionEvent : x \in Event /\ x # NoEvent /\ x.type # "lineage.changed"
  BY PublishingAssumption, NotifierAssumption DEF VersionEvent
<1>10. ASSUME NEW s \in steady
       PROVE  \/ /\ push'[r].event = e
                 /\ done(s) => Ahead(push[r], s)
                 /\ Ahead(push'[r], s) <=> Ahead(push[r], s) /\ ~done(s)
                 /\ GaveUp(r, s) => e \in lastErr'
              \/ push'[r].event = NoEvent /\ ~Ahead(push[r], s) /\ ~done(s)
  BY <1>1, <1>2 DEF OneFewerAhead
<1>11. ASSUME NEW s \in steady, NEW o \in Request, push'[o].event \in VersionEvent
       PROVE  told'[s][push'[o].event] = "never" <=> Ahead(push'[o], s)
  <2>1. CASE o = r
    <3>1. push'[r].event = e /\ e \in VersionEvent
      BY <1>9, <1>10, <1>11, <2>1
    <3>2. Ahead(push'[r], s) <=> Ahead(push[r], s) /\ ~done(s)
      BY <1>9, <1>10, <3>1
    <3>3. told'[s][e] = "never" <=> told[s][e] = "never" /\ ~done(s)
      BY <1>2, <1>4, <3>1
    <3> QED BY <1>6, <2>1, <3>1, <3>2, <3>3
  <2>2. CASE o # r
    <3>1. push'[o] = push[o]
      BY <1>8, <2>2
    <3>2. push[o].event # e
      BY <1>9, <1>11, <2>2, <3>1 DEF PublishingInv, EventsPushedOnce
    <3>3. told'[s][push[o].event] = told[s][push[o].event]
      BY <1>2, <1>4, <1>11, <3>1, <3>2
    <3> QED BY <1>11, <3>1, <3>3 DEF TellInv
  <2> QED BY <2>1, <2>2
<1>12. ASSUME NEW s \in steady, NEW x \in VersionEvent
       PROVE  /\ told'[s][x] # "again"
              /\ told'[s][x] # "never" => Happened(x)
              /\ told'[s][x] = "refused" => x \in lastErr'
              /\ Happened(x) /\ (\A o \in Request : push'[o].event # x) =>
                   told'[s][x] # "never"
  <2>1. /\ told[s][x] # "again"
        /\ told[s][x] # "never" => Happened(x)
        /\ told[s][x] = "refused" => x \in lastErr
        /\ Happened(x) /\ (\A o \in Request : push[o].event # x) => told[s][x] # "never"
    BY DEF TellInv, SteadyKnowsAll
  <2>2. CASE x = e /\ done(s)
    <3>1. Ahead(push[r], s) /\ push'[r].event = e /\ (GaveUp(r, s) => e \in lastErr')
      BY <1>10, <2>2
    <3>2. told[s][x] = "never"
      BY <1>6, <2>2, <3>1
    <3>3. told'[s][x] = IF Took(r, s) THEN "once" ELSE "refused"
      BY <1>2, <1>4, <2>2, <3>2
    <3>4. Happened(x)
      BY <1>9, <2>2, HappenedSpent DEF PublishingInv, Spent
    <3> QED BY <2>2, <3>1, <3>3, <3>4
  <2>3. CASE ~(x = e /\ done(s))
    <3>1. told'[s][x] = told[s][x]
      BY <1>2, <1>4, <2>3
    <3>2. CASE \A o \in Request : push[o].event # x
      BY <1>2, <2>1, <3>1, <3>2
    <3>3. CASE \E o \in Request : push[o].event = x /\ push'[o].event # x
      <4>1. push[r].event = x /\ push'[r].event # x
        BY <1>8, <3>3
      <4>2. ~Ahead(push[r], s)
        BY <1>10, <4>1
      <4>3. told[s][x] # "never"
        BY <1>6, <4>1, <4>2
      <4> QED BY <1>2, <2>1, <3>1, <4>3
    <3>4. CASE \E o \in Request : push'[o].event = x
      BY <1>2, <2>1, <3>1, <3>4
    <3> QED BY <3>2, <3>3, <3>4
  <2> QED BY <2>2, <2>3
<1>13. SteadyKnowsAll'
  BY <1>2, <1>3, <1>12 DEF SteadyKnowsAll
<1>14. \A s \in Subscriber \ steady' : told'[s] = ToldNothing
  BY <1>2, <1>5 DEF TellInv
<1> HIDE DEF e, done
<1> QED
  BY <1>2, <1>5, <1>11, <1>13, <1>14 DEF TellInv, ToldNothing

(* The calls that push nothing make no event happen.                       *)
LEMMA QuietSteps ==
  ASSUME PublishingInv, VersionStep
  PROVE  \A e \in VersionEvent : Happened(e)' => Happened(e)
<1>1. PICK t \in TableId :
        Draft(t) \/ Supersede(t) \/ \E n \in DOMAIN versions[t] : SwitchTo(t, n)
  BY DEF VersionStep
<1>2. /\ versions \in [TableId -> Seq(VersionState)]
      /\ versions[t] \in Seq(VersionState) /\ DOMAIN versions[t] = 1 .. Len(versions[t])
      /\ Len(versions[t]) \in Nat
  BY TableTypes DEF PublishingInv, Inv, VersionsTypeOK
<1>3. ASSUME NEW old, NEW new, versions' = [versions EXCEPT ![t] = new],
             old = versions[t],
             \A n \in DOMAIN new :
               \/ new[n] = "draft"
               \/ /\ n \in DOMAIN old
                  /\ new[n] = "rolled-back" <=> old[n] = "rolled-back"
                  /\ new[n] # "draft" => old[n] # "draft"
      PROVE  \A e \in VersionEvent : Happened(e)' => Happened(e)
  <2> SUFFICES ASSUME NEW e \in VersionEvent, Happened(e)' PROVE Happened(e)
    OBVIOUS
  <2>1. e.table \in TableId
    BY DEF VersionEvent
  <2>2. CASE e.table = t
    <3>1. versions'[e.table] = new
      BY <1>2, <1>3, <2>2
    <3> QED BY <1>3, <2>2, <3>1 DEF Happened
  <2>3. CASE e.table # t
    <3>1. versions'[e.table] = versions[e.table]
      BY <1>2, <1>3, <2>1, <2>3
    <3> QED BY <3>1 DEF Happened
  <2> QED BY <2>2, <2>3
<1>4. CASE Draft(t)
  <2> DEFINE new == Append(versions[t], "draft")
  <2>1. /\ DOMAIN new = 1 .. Len(versions[t]) + 1
        /\ \A n \in DOMAIN versions[t] : new[n] = versions[t][n]
        /\ new[Len(versions[t]) + 1] = "draft"
    BY <1>2, DraftAppended
  <2>2. versions' = [versions EXCEPT ![t] = new]
    BY <1>4 DEF Draft
  <2> HIDE DEF new
  <2>3. \A n \in DOMAIN new : n = Len(versions[t]) + 1 \/ n \in DOMAIN versions[t]
    BY <1>2, <2>1
  <2>4. ASSUME NEW n \in DOMAIN new
        PROVE  \/ new[n] = "draft"
               \/ n \in DOMAIN versions[t] /\ new[n] = versions[t][n]
    BY <2>1, <2>3
  <2>5. \A n \in DOMAIN new :
          \/ new[n] = "draft"
          \/ /\ n \in DOMAIN versions[t]
             /\ new[n] = "rolled-back" <=> versions[t][n] = "rolled-back"
             /\ new[n] # "draft" => versions[t][n] # "draft"
    BY <2>4
  <2> QED BY <1>3, <2>2, <2>5
<1>5. CASE Supersede(t)
  <2> DEFINE new == Superseded(versions[t], current[t])
  <2>1. /\ DOMAIN new = DOMAIN versions[t]
        /\ \A n \in DOMAIN new :
             /\ new[n] = "rolled-back" <=> versions[t][n] = "rolled-back"
             /\ new[n] # "draft" => versions[t][n] # "draft"
    BY <1>2 DEF Superseded
  <2>2. versions' = [versions EXCEPT ![t] = new]
    BY <1>2, <1>5 DEF Supersede, Superseded
  <2> HIDE DEF new
  <2>3. \A n \in DOMAIN new :
          \/ new[n] = "draft"
          \/ /\ n \in DOMAIN versions[t]
             /\ new[n] = "rolled-back" <=> versions[t][n] = "rolled-back"
             /\ new[n] # "draft" => versions[t][n] # "draft"
    BY <2>1
  <2> QED BY <1>3, <2>2, <2>3
<1>6. CASE \E n \in DOMAIN versions[t] : SwitchTo(t, n)
  BY <1>6 DEF SwitchTo, Happened
<1> QED BY <1>1, <1>4, <1>5, <1>6

(* A step that starts to push an event, the only one that happens by it.   *)
LEMMA StartTells ==
  ASSUME PublishingInv, TellInv, NEW r \in Request, NEW e \in Event,
         StartPush(r, e), UNCHANGED <<steady, told>>,
         \A x \in VersionEvent : Happened(x)' <=> Happened(x) \/ x = e,
         e \in VersionEvent => ~Happened(e)
  PROVE  TellInv'
<1>1. /\ steady' = steady /\ told' = told /\ subscribers' = subscribers
      /\ lastErr' = lastErr
  BY DEF StartPush
<1>2. /\ push'[r].event = e /\ push'[r].pc = "copy"
      /\ \A o \in Request \ {r} : push'[o] = push[o]
  BY DEF StartPush, PublishingInv, PushInv, NoPush
<1>3. push[r].event = NoEvent
  BY DEF StartPush, At, PublishingInv, PushInv, Accounted
<1>4. \A x \in VersionEvent : x # NoEvent
  BY PublishingAssumption, NotifierAssumption
<1>5. ASSUME NEW s \in steady, NEW o \in Request, push'[o].event \in VersionEvent
      PROVE  told[s][push'[o].event] = "never" <=> Ahead(push'[o], s)
  <2>1. CASE o = r
    <3>1. told[s][e] = "never"
      BY <1>2, <1>5, <2>1 DEF TellInv, SteadyKnowsAll
    <3> QED BY <1>2, <2>1, <3>1 DEF Ahead
  <2>2. CASE o # r
    BY <1>2, <1>5, <2>2 DEF TellInv
  <2> QED BY <2>1, <2>2
<1>6. ASSUME NEW s \in steady, NEW x \in VersionEvent, Happened(x)',
             \A o \in Request : push'[o].event # x
      PROVE  told[s][x] # "never"
  <2>1. x # e
    BY <1>2, <1>6
  <2>2. \A o \in Request : push[o].event # x
    BY <1>2, <1>3, <1>4, <1>6
  <2> QED BY <1>6, <2>1, <2>2 DEF TellInv, SteadyKnowsAll
<1>7. SteadyKnowsAll'
  BY <1>1, <1>6 DEF TellInv, SteadyKnowsAll
<1> QED
  BY <1>1, <1>5, <1>7 DEF TellInv, ToldNothing

LEMMA PublishTells ==
  ASSUME PublishingInv, TellInv, NEW r \in Request, NEW t \in TableId, Publish(r, t),
         UNCHANGED <<steady, told>>
  PROVE  TellInv'
<1>1. PICK n \in DOMAIN versions[t] :
        PublishDraft(t, n) /\ StartPush(r, Ev("version.published", t, n))
  BY DEF Publish
<1> DEFINE e == Ev("version.published", t, n)
<1>2. /\ e.type = "version.published" /\ e.table = t /\ e.version = n
      /\ \A x \in VersionEvent :
           x = e <=> x.type = "version.published" /\ x.table = t /\ x.version = n
  BY DEF Ev, VersionEvent
<1>3. e \in Event
  BY PublishingAssumption DEF Ev, VersionEvent, PublishingInv, WithinBound
<1>4. versions[t][n] = "draft"
  BY <1>1 DEF PublishDraft, Largest, Drafts
<1>5. /\ DOMAIN versions'[t] = DOMAIN versions[t] /\ versions'[t][n] = "published"
      /\ \A m \in DOMAIN versions[t] : m # n => versions'[t][m] = versions[t][m]
      /\ \A u \in TableId : u # t => versions'[u] = versions[u]
  <2>1. versions \in [TableId -> Seq(VersionState)] /\ versions[t] \in Seq(VersionState)
    BY DEF PublishingInv, Inv, VersionsTypeOK
  <2>2. versions' = [versions EXCEPT ![t] = [versions[t] EXCEPT ![n] = "published"]]
    BY <1>1 DEF PublishDraft, SetState
  <2>3. versions'[t] = [versions[t] EXCEPT ![n] = "published"]
    BY <2>1, <2>2
  <2>4. \A u \in TableId : u # t => versions'[u] = versions[u]
    BY <2>1, <2>2
  <2> QED BY <2>3, <2>4
<1> HIDE DEF e
<1>6. ASSUME NEW x \in VersionEvent
      PROVE  Happened(x)' <=> Happened(x) \/ x = e
  <2>1. x.table \in TableId
    BY DEF VersionEvent
  <2>2. CASE x.table # t
    BY <1>2, <1>5, <2>1, <2>2 DEF Happened
  <2>3. CASE x.table = t /\ x.version # n
    BY <1>2, <1>5, <2>3 DEF Happened
  <2>4. CASE x.table = t /\ x.version = n
    <3>1. x.type \in {"version.published", "version.rolled-back"}
      BY DEF VersionEvent
    <3> QED BY <1>2, <1>4, <1>5, <2>4, <3>1 DEF Happened
  <2> QED BY <2>2, <2>3, <2>4
<1>7. ~Happened(e)
  BY <1>2, <1>4 DEF Happened
<1>8. StartPush(r, e)
  BY <1>1 DEF e
<1> QED BY <1>3, <1>6, <1>7, <1>8, StartTells

LEMMA RollbackTells ==
  ASSUME PublishingInv, TellInv, NEW r \in Request, NEW t \in TableId, Rollback(r, t),
         UNCHANGED <<steady, told>>
  PROVE  TellInv'
<1> DEFINE n == current[t]
           e == Ev("version.rolled-back", t, n)
<1>1. RollBack(t) /\ StartPush(r, e)
  BY DEF Rollback
<1>2. /\ e.type = "version.rolled-back" /\ e.table = t /\ e.version = n
      /\ \A x \in VersionEvent :
           x = e <=> x.type = "version.rolled-back" /\ x.table = t /\ x.version = n
  BY DEF Ev, VersionEvent
<1>3. n \in DOMAIN versions[t]
  BY <1>1 DEF RollBack, Exists
<1>4. e \in Event
  BY <1>3, PublishingAssumption DEF Ev, VersionEvent, PublishingInv, WithinBound
<1>5. versions[t][n] # "rolled-back" /\ versions[t][n] # "draft"
  <2>1. /\ DOMAIN versions[t] = 1 .. Len(versions[t]) /\ Len(versions[t]) \in Nat
        /\ n # 0 => n \in DOMAIN versions[t] /\ Readable(versions[t][n])
    BY TableTypes DEF PublishingInv
  <2> HIDE DEF n
  <2>2. n # 0
    BY <1>3, <2>1
  <2> QED BY <2>1, <2>2 DEF Readable
<1>6. /\ DOMAIN versions'[t] = DOMAIN versions[t] /\ versions'[t][n] = "rolled-back"
      /\ \A m \in DOMAIN versions[t] : m # n => versions'[t][m] = versions[t][m]
      /\ \A u \in TableId : u # t => versions'[u] = versions[u]
  <2>1. versions \in [TableId -> Seq(VersionState)] /\ versions[t] \in Seq(VersionState)
    BY DEF PublishingInv, Inv, VersionsTypeOK
  <2>2. versions' = [versions EXCEPT ![t] = [versions[t] EXCEPT ![n] = "rolled-back"]]
    BY <1>1 DEF RollBack, SetState
  <2> HIDE DEF n
  <2>3. versions'[t] = [versions[t] EXCEPT ![n] = "rolled-back"]
    BY <2>1, <2>2
  <2>4. \A u \in TableId : u # t => versions'[u] = versions[u]
    BY <2>1, <2>2
  <2> QED BY <1>3, <2>3, <2>4
<1> HIDE DEF e, n
<1>7. ASSUME NEW x \in VersionEvent
      PROVE  Happened(x)' <=> Happened(x) \/ x = e
  <2>1. x.table \in TableId
    BY DEF VersionEvent
  <2>2. CASE x.table # t
    BY <1>2, <1>6, <2>1, <2>2 DEF Happened
  <2>3. CASE x.table = t /\ x.version # n
    BY <1>2, <1>6, <2>3 DEF Happened
  <2>4. CASE x.table = t /\ x.version = n
    <3>1. x.type \in {"version.published", "version.rolled-back"}
      BY DEF VersionEvent
    <3> QED BY <1>2, <1>3, <1>5, <1>6, <2>4, <3>1 DEF Happened
  <2> QED BY <2>2, <2>3, <2>4
<1>8. ~Happened(e)
  BY <1>2, <1>5 DEF Happened
<1> QED BY <1>1, <1>4, <1>7, <1>8, StartTells

LEMMA ChangeEdgeTells ==
  ASSUME PublishingInv, TellInv, NEW r \in Request, NEW t \in TableId, ChangeEdge(r, t),
         UNCHANGED <<steady, told>>
  PROVE  TellInv'
<1> DEFINE e == Ev("lineage.changed", t, 0)
<1>1. StartPush(r, e) /\ versions' = versions
  BY DEF ChangeEdge, versionVars
<1>2. e \in Event /\ e.type = "lineage.changed"
  BY PublishingAssumption DEF Ev, LineageEvent
<1> HIDE DEF e
<1>3. \A x \in VersionEvent : x # e
  BY <1>2 DEF VersionEvent
<1>4. \A x \in VersionEvent : Happened(x)' <=> Happened(x) \/ x = e
  BY <1>1, <1>3 DEF Happened
<1> QED BY <1>1, <1>2, <1>3, <1>4, StartTells

(* Before the first publication no event has happened and none is pushed.  *)
LEMMA NothingHappened ==
  ASSUME PublishingInv, NothingPublished
  PROVE  \A e \in VersionEvent :
           ~Happened(e) /\ \A r \in Request : push[r].event # e
<1> SUFFICES ASSUME NEW e \in VersionEvent
             PROVE  ~Happened(e) /\ \A r \in Request : push[r].event # e
  OBVIOUS
<1>1. ~Happened(e)
  BY DEF NothingPublished, Happened, VersionEvent
<1>2. ~SpentIn(e, versions) /\ e # NoEvent
  BY <1>1, HappenedSpent, PublishingAssumption, NotifierAssumption
<1> QED BY <1>1, <1>2 DEF PublishingInv, Spent

LEMMA SubscriberTells ==
  ASSUME PublishingInv, TellInv, NEW s \in Subscriber,
         (Subscribe(s) /\ NoteArrival(s)) \/ (Unsubscribe(s) /\ NoteLeaving(s)),
         UNCHANGED versionVars
  PROVE  TellInv'
<1>1. versions' = versions /\ push' = push /\ lastErr' = lastErr
  BY DEF versionVars, Subscribe, Unsubscribe
<1>2. \A x \in VersionEvent : Happened(x)' <=> Happened(x)
  BY <1>1 DEF Happened
<1>3. CASE Subscribe(s) /\ NoteArrival(s)
  <2>1. told' = told /\ subscribers' = subscribers \cup {s}
    BY <1>3 DEF Subscribe, NoteArrival
  <2>2. CASE s \in steady \/ ~NothingPublished
    <3>1. steady' = steady
      BY <1>3, <2>2 DEF NoteArrival
    <3> QED
      BY <1>1, <1>2, <2>1, <3>1 DEF TellInv, SteadyKnowsAll, ToldNothing, Ahead
  <2>3. CASE s \notin steady /\ NothingPublished
    <3>1. steady' = steady \cup {s}
      BY <1>3, <2>3 DEF NoteArrival
    <3>2. \A e \in VersionEvent : told[s][e] = "never"
      BY <2>3, NothingTold DEF TellInv
    <3>3. \A e \in VersionEvent : ~Happened(e) /\ \A r \in Request : push[r].event # e
      BY <2>3, NothingHappened
    <3>4. SteadyKnowsAll'
      BY <1>1, <1>2, <2>1, <3>1, <3>2, <3>3 DEF TellInv, SteadyKnowsAll
    <3>5. \A u \in steady', r \in Request :
            push'[r].event \in VersionEvent =>
              (told'[u][push'[r].event] = "never" <=> Ahead(push'[r], u))
      BY <1>1, <3>3
    <3>6. /\ steady' \subseteq subscribers'
          /\ told' \in [Subscriber -> [VersionEvent -> Told]]
          /\ \A u \in Subscriber \ steady' : told'[u] = ToldNothing'
      BY <2>1, <3>1 DEF TellInv, ToldNothing
    <3> QED BY <3>4, <3>5, <3>6 DEF TellInv
  <2> QED BY <2>2, <2>3
<1>4. CASE Unsubscribe(s) /\ NoteLeaving(s)
  <2>1. /\ steady' = steady \ {s} /\ subscribers' = subscribers \ {s}
        /\ told' = [told EXCEPT ![s] = ToldNothing]
    BY <1>4 DEF Unsubscribe, NoteLeaving
  <2>2. /\ told \in [Subscriber -> [VersionEvent -> Told]]
        /\ steady \subseteq subscribers /\ steady \subseteq Subscriber
    BY DEF TellInv, PublishingInv, PushInv
  <2>3. told'[s] = ToldNothing /\ \A u \in Subscriber \ {s} : told'[u] = told[u]
    BY <2>1, <2>2
  <2>4. told' \in [Subscriber -> [VersionEvent -> Told]]
    BY <2>1, <2>2, NothingTold
  <2>5. \A u \in Subscriber \ steady' : told'[u] = ToldNothing'
    BY <2>1, <2>3 DEF TellInv, ToldNothing
  <2>6. \A u \in steady' : u \in steady /\ told'[u] = told[u]
    BY <2>1, <2>2, <2>3
  <2>7. SteadyKnowsAll'
    BY <1>1, <1>2, <2>6 DEF TellInv, SteadyKnowsAll
  <2>8. \A u \in steady', r \in Request :
          push'[r].event \in VersionEvent =>
            (told'[u][push'[r].event] = "never" <=> Ahead(push'[r], u))
    BY <1>1, <2>6 DEF TellInv
  <2>9. steady' \subseteq subscribers'
    BY <2>1, <2>2
  <2> QED BY <2>4, <2>5, <2>7, <2>8, <2>9 DEF TellInv
<1> QED BY <1>3, <1>4

LEMMA TellInvKept ==
  ASSUME PublishingInv, PublishingInv', TellInv, [Next]_vars
  PROVE  TellInv'
<1>1. CASE VersionStep /\ UNCHANGED <<notifierVars, steady, told>>
  <2>1. \A e \in VersionEvent : Happened(e)' <=> Happened(e)
    <3>1. \A e \in VersionEvent : Happened(e)' => Happened(e)
      BY <1>1, QuietSteps
    <3>2. \A u \in TableId : Onward(versions[u], versions'[u])
      <4>1. [VersionsNext]_versionVars
        BY VersionsImplemented
      <4> QED BY <4>1, StepOnward DEF PublishingInv
    <3>3. \A e \in VersionEvent : Happened(e) => Happened(e)'
      BY <3>2 DEF Happened, Onward, VersionEvent
    <3> QED BY <3>1, <3>3
  <2> QED
    BY <1>1, <2>1
       DEF notifierVars, TellInv, SteadyKnowsAll, ToldNothing, Ahead
<1>2. ASSUME NEW r \in Request, NEW t \in TableId,
             Publish(r, t) \/ Rollback(r, t) \/ ChangeEdge(r, t),
             UNCHANGED <<steady, told>>
      PROVE  TellInv'
  BY <1>2, PublishTells, RollbackTells, ChangeEdgeTells
<1>3. ASSUME NEW r \in Request, GoesOn(r)
      PROVE  TellInv'
  BY <1>3, PushTells
<1>4. CASE UNCHANGED vars
  BY <1>4 DEF vars, TellInv, SteadyKnowsAll, Happened, ToldNothing, Ahead
<1>5. CASE Next
  BY <1>1, <1>2, <1>3, <1>5, SubscriberTells DEF Next
<1> QED BY <1>4, <1>5

LEMMA TellInvAlways == Spec => []TellInv
  BY PublishingInvAlways, TellInvInitially, TellInvKept, PTL DEF Spec

(* Versions and pushes are well typed, whoever publishes and subscribes.   *)
THEOREM PublishingTypeCorrect == Spec => []TypeOK
<1>1. PublishingInv /\ TellInv => TypeOK
  BY DEF PublishingInv, Inv, PushInv, Accounted, TypeOK, NotifierTypeOK, TellInv
<1> QED BY <1>1, PublishingInvAlways, TellInvAlways, PTL

(* A version request answers success exactly when it has reached everyone  *)
(* its push found, and leaves an event it could not deliver in lastErr.    *)
THEOREM NothingDropped == Spec => []NothingDroppedSilently
<1>1. ASSUME PublishingInv
      PROVE  NothingDroppedSilently
  <2>1. SUFFICES ASSUME NEW r \in Request, Pushed(r),
                        push[r].event.type # "lineage.changed"
                 PROVE  /\ Answer(r) = "ok" <=> push[r].subs \subseteq push[r].reached
                        /\ Answer(r) = "error" => push[r].event \in lastErr
    BY DEF NothingDroppedSilently
  <2>2. /\ push[r] \in Push /\ Accounted(push[r])
        /\ push[r].firstErr => push[r].event \in lastErr
    BY <1>1 DEF PublishingInv, PushInv
  <2>3. push[r].sub = NoSubscriber /\ push[r].todo = {}
    BY <2>1, <2>2 DEF Pushed, At, Accounted
  <2>4. push[r].firstErr <=> ~(push[r].subs \subseteq push[r].reached)
    BY <2>2, <2>3, NotifierAssumption DEF Accounted, Missed, Push
  <2>5. Answer(r) = "ok" <=> ~push[r].firstErr
    BY <2>1 DEF Answer
  <2> QED BY <2>1, <2>2, <2>4, <2>5 DEF Answer
<1> QED BY <1>1, PublishingInvAlways, PTL

(* No two requests push the same version event at the same time.           *)
THEOREM PushedOnce == Spec => []EventsPushedOnce
<1>1. PublishingInv => EventsPushedOnce
  BY DEF PublishingInv
<1> QED BY <1>1, PublishingInvAlways, PTL

(* A subscriber that was there from the first publication on knows of each *)
(* publication and rollback exactly once, or refused it and PendingFailures*)
(* names it, as soon as no request pushes the event any more.              *)
THEOREM SteadyKnow == Spec => []SteadyKnowsAll
<1>1. TellInv => SteadyKnowsAll
  BY DEF TellInv
<1> QED BY <1>1, TellInvAlways, PTL

-----------------------------------------------------------------------------
(* The versions under all this.                                            *)

(* To the versions, requests that push are the version machine and nothing *)
(* else: pushes, subscribers and edge changes leave them alone (Meta makes *)
(* the change under Meta.mu and pushes after it).                          *)
THEOREM PublishingIsVersions == Spec => VersionsSpec
<1>1. Init => VersionsInit
  BY DEF Init
<1>2. [Next]_vars => [VersionsNext]_versionVars
  BY VersionsImplemented
<1> QED BY <1>1, <1>2, PTL DEF Spec, VersionsSpec

(* So the current version can be read, and no version goes back, also      *)
(* while requests overlap (Publish, Rollback, SwitchTo, Supersede).        *)
THEOREM PublishingKeepsVersions == Spec => []CurrentReadable /\ NoWayBack
  BY PublishingIsVersions, CurrentSafe, NeverBack, PTL

-----------------------------------------------------------------------------
(* Pushes come to an end.                                                  *)

(* How many steps a push still takes at most: three for a subscriber that  *)
(* the loop has not come to, for it may be tried twice and given up.       *)
StepsLeft(p) ==
  CASE p.pc = "copy"    -> 3 * Cardinality(Subscriber) + 1
    [] p.pc = "deliver" -> 3 * Cardinality(p.todo)
    [] p.pc = "retry"   -> 3 * Cardinality(p.todo) + 2
    [] p.pc = "fail"    -> 3 * Cardinality(p.todo) + 1
    [] OTHER            -> 0

LEMMA Served ==
  ASSUME IsFiniteSet(Subscriber), NEW S \in SUBSET Subscriber
  PROVE  /\ Cardinality(S) \in Nat /\ Cardinality(Subscriber) \in Nat
         /\ Cardinality(S) <= Cardinality(Subscriber)
         /\ \A s \in S : Cardinality(S \ {s}) = Cardinality(S) - 1
         /\ \A s : s \notin S => S \ {s} = S
<1>1. IsFiniteSet(S) /\ Cardinality(S) <= Cardinality(Subscriber)
  BY FS_Subset
<1>2. Cardinality(S) \in Nat /\ Cardinality(Subscriber) \in Nat
  BY <1>1, FS_CardinalityType
<1>3. \A s \in S : Cardinality(S \ {s}) = Cardinality(S) - 1
  BY <1>1, FS_RemoveElement
<1> QED BY <1>1, <1>2, <1>3

(* Each step of a push leaves fewer.                                       *)
LEMMA StepNearer ==
  ASSUME IsFiniteSet(Subscriber), PublishingInv, NEW r \in Request, PushStep(r)
  PROVE  StepsLeft(push'[r]) < StepsLeft(push[r])
<1> DEFINE p == push[r]
           q == push'[r]
           all == Cardinality(Subscriber)
           n == Cardinality(p.todo)
<1>1. /\ push \in [Request -> Push] /\ p \in Push /\ Accounted(p)
      /\ subscribers \in SUBSET Subscriber
  BY DEF PublishingInv, PushInv
<1>2. p.todo \in SUBSET Subscriber
  BY <1>1 DEF Push
<1>3. all \in Nat /\ n \in Nat
  BY <1>2, Served
<1>4. CASE CopySubscribers(r)
  <2>1. p.pc = "copy" /\ q.pc = "deliver" /\ q.todo = subscribers
    BY <1>1, <1>4 DEF CopySubscribers, At, Push
  <2>2. Cardinality(subscribers) \in Nat /\ Cardinality(subscribers) <= all
    BY <1>1, Served
  <2>3. StepsLeft(p) = 3 * all + 1 /\ StepsLeft(q) = 3 * Cardinality(subscribers)
    BY <2>1 DEF StepsLeft
  <2> DEFINE m == Cardinality(subscribers)
  <2> HIDE DEF p, q, all, n, m
  <2>4. 3 * m < 3 * all + 1
    BY <1>3, <2>2 DEF m
  <2> QED BY <2>3, <2>4 DEF m, p, q
<1>5. CASE Deliver(r)
  <2>1. PICK s \in p.todo : q \in {Take(p, s), Reject(p, s, "retry")}
    BY <1>1, <1>5 DEF Deliver
  <2>2. p.pc = "deliver" /\ q.pc \in {"deliver", "retry"} /\ q.todo = p.todo \ {s}
    BY <1>1, <1>5, <2>1 DEF Deliver, At, Take, Reject, Push
  <2>3. Cardinality(q.todo) = n - 1
    BY <1>2, <2>1, <2>2, Served
  <2>4. StepsLeft(p) = 3 * n /\ StepsLeft(q) \in {3 * (n - 1), 3 * (n - 1) + 2}
    BY <2>2, <2>3 DEF StepsLeft
  <2> HIDE DEF p, q, all, n
  <2>5. 3 * (n - 1) < 3 * n /\ 3 * (n - 1) + 2 < 3 * n
    BY <1>3
  <2> QED BY <2>4, <2>5 DEF p, q
<1>6. CASE Retry(r)
  <2>1. q \in {Take(p, p.sub), Reject(p, p.sub, "fail")}
    BY <1>1, <1>6 DEF Retry
  <2>2. /\ p.pc = "retry" /\ q.pc \in {"deliver", "fail"}
        /\ q.todo = p.todo \ {p.sub} /\ p.sub \notin p.todo
    BY <1>1, <1>6, <2>1 DEF Retry, At, Take, Reject, Push, Accounted
  <2>3. q.todo = p.todo
    BY <2>2
  <2>4. StepsLeft(p) = 3 * n + 2 /\ StepsLeft(q) \in {3 * n, 3 * n + 1}
    BY <2>2, <2>3 DEF StepsLeft
  <2> HIDE DEF p, q, all, n
  <2>5. 3 * n < 3 * n + 2 /\ 3 * n + 1 < 3 * n + 2
    BY <1>3
  <2> QED BY <2>4, <2>5 DEF p, q
<1>7. CASE RecordFailure(r)
  <2>1. p.pc = "fail" /\ q.pc = "deliver" /\ q.todo = p.todo
    BY <1>1, <1>7 DEF RecordFailure, GoOn, At, Push
  <2>2. StepsLeft(p) = 3 * n + 1 /\ StepsLeft(q) = 3 * n
    BY <2>1 DEF StepsLeft
  <2> HIDE DEF p, q, all, n
  <2>3. 3 * n < 3 * n + 1
    BY <1>3
  <2> QED BY <2>2, <2>3 DEF p, q
<1> QED BY <1>4, <1>5, <1>6, <1>7 DEF PushStep

(* Nobody prolongs a push: every step that changes a request's push begins *)
(* it, ends it or leaves it fewer steps to take, whatever subscribers and  *)
(* other requests do.  This is RequestsEnd without the fairness that makes *)
(* the steps happen (Push: one retry, then continue).                      *)
THEOREM PushesWindDown ==
  ASSUME IsFiniteSet(Subscriber)
  PROVE  Spec => /\ [](\A r \in Request : StepsLeft(push[r]) \in Nat)
                 /\ [][\A r \in Request :
                         push'[r] # push[r] =>
                           \/ At(r, "idle")
                           \/ push'[r] = NoPush
                           \/ StepsLeft(push'[r]) < StepsLeft(push[r])]_vars
<1>1. ASSUME PublishingInv
      PROVE  \A r \in Request : StepsLeft(push[r]) \in Nat
  <2> SUFFICES ASSUME NEW r \in Request PROVE StepsLeft(push[r]) \in Nat
    OBVIOUS
  <2> DEFINE n == Cardinality(push[r].todo)
             all == Cardinality(Subscriber)
  <2>1. push[r].todo \in SUBSET Subscriber
    BY <1>1 DEF PublishingInv, PushInv, Push
  <2>2. n \in Nat /\ all \in Nat
    BY <2>1, Served
  <2>3. StepsLeft(push[r]) \in {3 * all + 1, 3 * n, 3 * n + 2, 3 * n + 1, 0}
    BY DEF StepsLeft
  <2> HIDE DEF n, all
  <2>4. 3 * all + 1 \in Nat /\ 3 * n \in Nat /\ 3 * n + 2 \in Nat /\ 3 * n + 1 \in Nat
    BY <2>2
  <2> QED BY <2>3, <2>4
<1> DEFINE Nearer ==
      \A r \in Request :
        push'[r] # push[r] =>
          \/ At(r, "idle")
          \/ push'[r] = NoPush
          \/ StepsLeft(push'[r]) < StepsLeft(push[r])
<1>2. PublishingInv /\ [Next]_vars => Nearer
  <2> SUFFICES ASSUME PublishingInv, [Next]_vars, NEW r \in Request,
                      push'[r] # push[r], ~At(r, "idle"), push'[r] # NoPush
               PROVE  StepsLeft(push'[r]) < StepsLeft(push[r])
    OBVIOUS
  <2>1. push \in [Request -> Push]
    BY DEF PublishingInv, PushInv
  <2>2. PICK q \in Request :
          \/ \E e : StartPush(q, e)
          \/ PushStep(q)
          \/ EndPush(q)
    BY DEF Next, vars, notifierVars, Publish, Rollback, ChangeEdge, GoesOn,
       Subscribe, Unsubscribe
  <2>3. q = r
    BY <2>1, <2>2
       DEF StartPush, PushStep, EndPush, CopySubscribers, Deliver, Retry,
           RecordFailure, GoOn
  <2>4. PushStep(r)
    BY <2>1, <2>2, <2>3 DEF StartPush, EndPush
  <2> QED BY <2>4, StepNearer
<1>3. PublishingInv /\ [Next]_vars => [Nearer]_vars
  BY <1>2
<1> QED BY <1>1, <1>3, PublishingInvAlways, PTL DEF Spec
=============================================================================
