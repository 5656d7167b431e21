------------------------------ MODULE Notifier -----------------------------
(***************************************************************************)
(* Notifier.Push of internal/notify, run by several requests at once.      *)
(* Notifier.mu is held only to copy the subscribers and to record a        *)
(* delivery; the deliveries happen outside it, so other requests push,     *)
(* subscribe and unsubscribe between any two of a push's steps.            *)
(*                                                                         *)
(* Notifier.attempts is left out: a number under the event's key that each *)
(* delivery overwrites and that only the getter Attempts reads.  What is   *)
(* left of record is the entry a failure makes in lastErr.                 *)
(***************************************************************************)
CONSTANTS
  Subscriber,   \* subscriber ids
  Request,      \* requests that may be pushing at the same time
  Event,        \* events; ChangeEvent.Key tells any two of them apart
  NoEvent,      \* the event of a request that pushes nothing
  NoSubscriber  \* the subscriber of a push between two deliveries

ASSUME NotifierAssumption == NoEvent \notin Event /\ NoSubscriber \notin Subscriber

VARIABLES
  subscribers,  \* Notifier.subscribers: the ids registered
  lastErr,      \* Notifier.lastErr: the events with an entry
  push          \* the state of each request's Push

notifierVars == <<subscribers, lastErr, push>>

Push ==
  [pc : {"idle", "copy", "deliver", "retry", "fail"},
   event : Event \cup {NoEvent},
   subs : SUBSET Subscriber,             \* the copy of the subscribers,
   todo : SUBSET Subscriber,             \* those the loop has not come to,
   sub : Subscriber \cup {NoSubscriber}, \* and the one it is at
   firstErr : BOOLEAN,                   \* whether firstErr is set
   reached : SUBSET Subscriber]          \* history: who took the event

NoPush ==
  [pc |-> "idle", event |-> NoEvent, subs |-> {}, todo |-> {},
   sub |-> NoSubscriber, firstErr |-> FALSE, reached |-> {}]

NotifierTypeOK ==
  /\ subscribers \subseteq Subscriber
  /\ lastErr \subseteq Event
  /\ push \in [Request -> Push]
  /\ \A r \in Request :
       LET p == push[r] IN
       /\ p.pc = "idle" <=> p.event = NoEvent
       /\ p.pc \in {"retry", "fail"} <=> p.sub # NoSubscriber
       /\ p.sub \notin p.todo /\ p.todo \cap p.reached = {}

NotifierInit ==
  /\ subscribers = {}
  /\ lastErr = {}
  /\ push = [r \in Request |-> NoPush]

Subscribe(s) ==
  /\ subscribers' = subscribers \cup {s}
  /\ UNCHANGED <<lastErr, push>>

Unsubscribe(s) ==
  /\ subscribers' = subscribers \ {s}
  /\ UNCHANGED <<lastErr, push>>

At(r, pc) == push[r].pc = pc

(* The loop is through with every subscriber.                              *)
Pushed(r) == At(r, "deliver") /\ push[r].todo = {}

-----------------------------------------------------------------------------
(* One request's Push.                                                     *)

StartPush(r, e) ==
  /\ At(r, "idle")
  /\ push' = [push EXCEPT ![r] = [NoPush EXCEPT !.pc = "copy", !.event = e]]
  /\ UNCHANGED <<subscribers, lastErr>>

CopySubscribers(r) ==
  /\ At(r, "copy")
  /\ push' = [push EXCEPT ![r] =
                [@ EXCEPT !.pc = "deliver", !.subs = subscribers, !.todo = subscribers]]
  /\ UNCHANGED <<subscribers, lastErr>>

(* Subscriber s takes the event, and the loop goes on ...                  *)
Take(p, s) ==
  [p EXCEPT !.pc = "deliver", !.sub = NoSubscriber, !.todo = @ \ {s},
            !.reached = @ \cup {s}]

(* ... or s returns an error, and its delivery goes on at pc.              *)
Reject(p, s, pc) == [p EXCEPT !.pc = pc, !.sub = s, !.todo = @ \ {s}]

(* The first Deliver to the next subscriber, in the order of a Go map.     *)
Deliver(r) ==
  /\ At(r, "deliver")
  /\ \E s \in push[r].todo :
       push' \in {[push EXCEPT ![r] = Take(@, s)],
                  [push EXCEPT ![r] = Reject(@, s, "retry")]}
  /\ UNCHANGED <<subscribers, lastErr>>

(* A retry that takes the subscriber back into the loop when it fails.     *)
RetryForever(r) ==
  /\ At(r, "retry")
  /\ LET s == push[r].sub IN
       push' \in {[push EXCEPT ![r] = Take(@, s)],
                  [push EXCEPT ![r] = [@ EXCEPT !.pc = "deliver", !.todo = @ \cup {s},
                                               !.sub = NoSubscriber]]}
  /\ UNCHANGED <<subscribers, lastErr>>

(* The second and last Deliver to the subscriber.                          *)
Retry(r) ==
  /\ At(r, "retry")
  /\ LET s == push[r].sub IN
       push' \in {[push EXCEPT ![r] = Take(@, s)],
                  [push EXCEPT ![r] = Reject(@, s, "fail")]}
  /\ UNCHANGED <<subscribers, lastErr>>

(* A loop that goes on without letting go of its subscriber.               *)
GoOnHolding(r, err) ==
  push' = [push EXCEPT ![r] = [@ EXCEPT !.pc = "deliver", !.firstErr = err]]

(* A failure that ends the loop: who has not been served yet never is.     *)
GoOnToTheEnd(r, err) ==
  push' = [push EXCEPT ![r] = [@ EXCEPT !.pc = "deliver", !.sub = NoSubscriber,
                                        !.todo = {}, !.firstErr = err]]

(* The loop goes on to the next subscriber after a failure.                *)
GoOn(r, err) ==
  push' = [push EXCEPT ![r] = [@ EXCEPT !.pc = "deliver", !.sub = NoSubscriber,
                                        !.firstErr = err]]

(* A failure that is recorded but not kept for the caller.                 *)
RecordFailureQuietly(r) ==
  /\ At(r, "fail")
  /\ lastErr' = lastErr \cup {push[r].event}
  /\ GoOn(r, push[r].firstErr)
  /\ UNCHANGED subscribers

(* record, and the first error kept for the caller.  The entry in lastErr  *)
(* is never taken out again.                                               *)
RecordFailure(r) ==
  /\ At(r, "fail")
  /\ lastErr' = lastErr \cup {push[r].event}
  /\ GoOn(r, TRUE)
  /\ UNCHANGED subscribers

(* The caller of Push has its result and ends its request.                 *)
EndPush(r) ==
  /\ Pushed(r)
  /\ push' = [push EXCEPT ![r] = NoPush]
  /\ UNCHANGED <<subscribers, lastErr>>

PushStep(r) == CopySubscribers(r) \/ Deliver(r) \/ Retry(r) \/ RecordFailure(r)
=============================================================================
