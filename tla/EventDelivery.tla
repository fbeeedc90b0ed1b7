--------------------------- MODULE EventDelivery ---------------------------
(***************************************************************************)
(* What the transactional outbox promises the use cases that write to it:  *)
(* an event accepted with their transaction is delivered, which it is only *)
(* after its email was queued, or given up for an operator to look at. It  *)
(* is never both, and neither is ever taken back.                          *)
(***************************************************************************)
CONSTANT Events

VARIABLES
  outcome, \* none, accepted, delivered or dead
  sent     \* whether the email of the event was queued

TypeOK ==
  /\ outcome \in [Events -> {"none", "accepted", "delivered", "dead"}]
  /\ sent \in [Events -> BOOLEAN]

Init ==
  /\ outcome = [e \in Events |-> "none"]
  /\ sent = [e \in Events |-> FALSE]

Accept(e) ==
  /\ outcome[e] = "none"
  /\ outcome' = [outcome EXCEPT ![e] = "accepted"]
  /\ UNCHANGED sent

\* A slow dispatcher may queue the email of an event already settled.
Send(e) ==
  /\ outcome[e] # "none"
  /\ sent' = [sent EXCEPT ![e] = TRUE]
  /\ UNCHANGED outcome

Deliver(e) ==
  /\ outcome[e] = "accepted" /\ sent[e]
  /\ outcome' = [outcome EXCEPT ![e] = "delivered"]
  /\ UNCHANGED sent

GiveUp(e) ==
  /\ outcome[e] = "accepted"
  /\ outcome' = [outcome EXCEPT ![e] = "dead"]
  /\ UNCHANGED sent

Next == \E e \in Events : Accept(e) \/ Send(e) \/ Deliver(e) \/ GiveUp(e)

Spec == Init /\ [][Next]_<<outcome, sent>>
=============================================================================
