----------------------------- MODULE Publishing ----------------------------
(***************************************************************************)
(* Requests that publish and roll back versions or change lineage edges,   *)
(* each followed by a Push to the subscribers.  The change is made under   *)
(* the lock of its component and the push after it is released, so the     *)
(* versions move on while a request still delivers its event.              *)
(***************************************************************************)
EXTENDS Versions, Notifier

EventType == {"version.published", "version.rolled-back", "lineage.changed"}

(* ChangeEvent, as far as Key tells events apart; a lineage event has      *)
(* Version 0, so that every change of a table's edges has the same key.    *)
Ev(type, table, version) == [type |-> type, table |-> table, version |-> version]

VersionEvent ==
  [type : {"version.published", "version.rolled-back"}, table : TableId,
   version : 1 .. MaxVersions]

LineageEvent == [type : {"lineage.changed"}, table : TableId, version : {0}]

ASSUME PublishingAssumption == Event = VersionEvent \cup LineageEvent

VARIABLES
  \* what the properties look back on
  steady,     \* who subscribed before the first publication and never left
  told        \* what became of each version event at each of them

vars == <<versions, current, subscribers, lastErr, push, steady, told>>

(* Deliver and Push return nothing to the log but these: it has the event, *)
(* it refused it twice, or it was asked again after either.                *)
Told == {"never", "once", "refused", "again"}

ToldNothing == [e \in VersionEvent |-> "never"]

TypeOK ==
  /\ VersionsTypeOK /\ NotifierTypeOK
  /\ steady \subseteq subscribers
  /\ told \in [Subscriber -> [VersionEvent -> Told]]

Init ==
  /\ VersionsInit /\ NotifierInit
  /\ steady = {}
  /\ told = [s \in Subscriber |-> ToldNothing]

-----------------------------------------------------------------------------
(* Meta.Publish up to its push.                                            *)
Publish(r, t) ==
  \E n \in DOMAIN versions[t] :
    /\ PublishDraft(t, n)
    /\ StartPush(r, Ev("version.published", t, n))

(* Meta.Rollback up to its push.                                           *)
Rollback(r, t) ==
  /\ RollBack(t)
  /\ StartPush(r, Ev("version.rolled-back", t, current[t]))

(* handleEdges, whose graph change is Lineage's, up to its push.           *)
ChangeEdge(r, t) ==
  /\ StartPush(r, Ev("lineage.changed", t, 0))
  /\ UNCHANGED versionVars

(* What the request answers: Publish and Rollback return the error of the  *)
(* push, handleEdges ignores it.                                           *)
Answer(r) ==
  IF push[r].event.type # "lineage.changed" /\ push[r].firstErr THEN "error"
  ELSE "ok"

(* A subscriber came or left; who leaves has no log to look back on.       *)
NothingPublished ==
  \A t \in TableId : \A n \in DOMAIN versions[t] : versions[t][n] = "draft"

NoteArrival(s) ==
  /\ steady' = IF NothingPublished THEN steady \cup {s} ELSE steady
  /\ UNCHANGED told

NoteLeaving(s) ==
  /\ steady' = steady \ {s}
  /\ told' = [told EXCEPT ![s] = ToldNothing]

(* A push came to an end with a subscriber: it took the event, or its      *)
(* second error was recorded.                                              *)
Took(r, s) == s \in push'[r].reached \ push[r].reached

GaveUp(r, s) == At(r, "fail") /\ push[r].sub = s /\ push'[r].sub # s

NotePush(r) ==
  LET e == push[r].event
      Outcome(s) == IF told[s][e] # "never" THEN "again"
                    ELSE IF Took(r, s) THEN "once" ELSE "refused" IN
  /\ UNCHANGED steady
  /\ told' = IF e \notin VersionEvent THEN told
             ELSE [s \in Subscriber |->
                     IF s \in steady /\ (Took(r, s) \/ GaveUp(r, s))
                     THEN [told[s] EXCEPT ![e] = Outcome(s)] ELSE told[s]]

VersionStep ==
  \E t \in TableId :
    \/ Draft(t) \/ Supersede(t)
    \/ \E n \in DOMAIN versions[t] : SwitchTo(t, n)

GoesOn(r) == (PushStep(r) \/ EndPush(r)) /\ NotePush(r) /\ UNCHANGED versionVars

Next ==
  \/ VersionStep /\ UNCHANGED <<notifierVars, steady, told>>
  \/ \E r \in Request, t \in TableId :
       /\ Publish(r, t) \/ Rollback(r, t) \/ ChangeEdge(r, t)
       /\ UNCHANGED <<steady, told>>
  \/ \E r \in Request : GoesOn(r)
  \/ \E s \in Subscriber :
       /\ (Subscribe(s) /\ NoteArrival(s)) \/ (Unsubscribe(s) /\ NoteLeaving(s))
       /\ UNCHANGED versionVars

(* A request's goroutine goes on, and a subscriber's Deliver returns.      *)
Fairness == \A r \in Request : WF_push(PushStep(r) \/ EndPush(r))

Spec == Init /\ [][Next]_vars /\ Fairness

-----------------------------------------------------------------------------
(* Push, notify.go: a publish or rollback that answers without an error    *)
(* has reached every subscriber its push found, and one that answers with  *)
(* an error has missed one and left the event in PendingFailures - whoever *)
(* subscribes, leaves or pushes in between.                                *)
NothingDroppedSilently ==
  \A r \in Request :
    Pushed(r) /\ push[r].event.type # "lineage.changed" =>
      /\ Answer(r) = "ok" <=> push[r].subs \subseteq push[r].reached
      /\ Answer(r) = "error" => push[r].event \in lastErr

(* Publish and Rollback push the event of a version at most once at a time *)
(* each: Publish leaves no draft to publish again, and a version rolled    *)
(* back never becomes current again.  So what Notifier keeps under the     *)
(* event's key belongs to one push.                                        *)
EventsPushedOnce ==
  \A r, q \in Request :
    (r # q /\ push[r].event = push[q].event /\ push[r].event # NoEvent)
      => push[r].event.type = "lineage.changed"

(* What a subscriber that was there all along knows of the versions is     *)
(* what happened to them: it was told of each publication and rollback     *)
(* once - or refused it twice, and then PendingFailures names the event -  *)
(* as soon as no request still pushes it, and of nothing else.  That       *)
(* others fail, come and leave meanwhile makes no difference to it.        *)
Happened(e) ==
  /\ e.version \in DOMAIN versions[e.table]
  /\ IF e.type = "version.published"
     THEN versions[e.table][e.version] # "draft"
     ELSE versions[e.table][e.version] = "rolled-back"

SteadyKnowsAll ==
  \A s \in steady, e \in VersionEvent :
    /\ told[s][e] # "again"
    /\ told[s][e] # "never" => Happened(e)
    /\ told[s][e] = "refused" => e \in lastErr
    /\ Happened(e) /\ (\A r \in Request : push[r].event # e) => told[s][e] # "never"

(* The one retry keeps a failing subscriber from holding a request up.     *)
RequestsEnd == \A r \in Request : ~At(r, "idle") ~> At(r, "idle")
=============================================================================
