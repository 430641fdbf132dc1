------------------------------- MODULE Outbox -------------------------------
(***************************************************************************)
(* What the event outbox promises to the services that write to it         *)
(* (domain/events/outbox.py): an event saved once is PENDING until either  *)
(* every handler registered for it has run, and it is PUBLISHED for good,  *)
(* or its delivery is given up, and it is a DEAD_LETTER until an operator  *)
(* requeues it.  Handlers may run any number of times.                     *)
(*                                                                         *)
(* OutboxWorker shows how the polling loop implements this.                *)
(***************************************************************************)
CONSTANTS
  Events,     \* event ids
  Handlers    \* the handlers registered for the event type, in order

VARIABLES
  state,      \* OutboxEntry.state of each event, "ABSENT" before it is saved
  ran         \* the handlers that have run to completion for each event

vars == <<state, ran>>

States == {"ABSENT", "PENDING", "PUBLISHED", "DEAD_LETTER"}

Init ==
  /\ state = [e \in Events |-> "ABSENT"]
  /\ ran = [e \in Events |-> {}]

Save(e) ==
  /\ state[e] = "ABSENT"
  /\ state' = [state EXCEPT ![e] = "PENDING"]
  /\ UNCHANGED ran

\* Only a pending event is handed to a handler.
Run(e, h) ==
  /\ state[e] = "PENDING"
  /\ ran' = [ran EXCEPT ![e] = @ \cup {h}]
  /\ UNCHANGED state

Publish(e) ==
  /\ state[e] = "PENDING"
  /\ ran[e] = Handlers
  /\ state' = [state EXCEPT ![e] = "PUBLISHED"]
  /\ UNCHANGED ran

Bury(e) ==
  /\ state[e] = "PENDING"
  /\ state' = [state EXCEPT ![e] = "DEAD_LETTER"]
  /\ UNCHANGED ran

Requeue(S) ==
  /\ \A e \in S : state[e] = "DEAD_LETTER"
  /\ state' = [e \in Events |-> IF e \in S THEN "PENDING" ELSE state[e]]
  /\ UNCHANGED ran

Next ==
  \/ \E e \in Events : Save(e) \/ Publish(e) \/ Bury(e)
  \/ \E e \in Events, h \in Handlers : Run(e, h)
  \/ \E S \in SUBSET Events : Requeue(S)

Spec == Init /\ [][Next]_vars
=============================================================================
