-------------------------- MODULE DeliveryLifecycle --------------------------
(***************************************************************************)
(* What the owner of an endpoint is promised about webhook deliveries,     *)
(* with no worker, message or in-memory object in sight: the phases a      *)
(* delivery goes through, and how many requests it can cost.               *)
(***************************************************************************)
EXTENDS Naturals

CONSTANTS Delivery, MaxAttempts

VARIABLES
    phase,    \* [Delivery -> Phase]
    requests  \* [Delivery -> HTTP requests the endpoint was sent]

Phase == {"none", "pending", "attempting", "waiting", "succeeded", "failed", "gone"}

Init ==
    /\ phase = [d \in Delivery |-> "none"]
    /\ requests = [d \in Delivery |-> 0]

\* The deliveries of an event appear together; the others never will.
Create(S, T) ==
    /\ \A d \in S \cup T : phase[d] \in {"none", "gone"}
    /\ \A d \in S : phase[d] = "none"
    /\ phase' = [d \in Delivery |-> IF d \in S THEN "pending"
                                   ELSE IF d \in T THEN "gone" ELSE phase[d]]
    /\ UNCHANGED requests

Begin(d) ==
    /\ phase[d] \in {"pending", "waiting"}
    /\ requests[d] < MaxAttempts
    /\ phase' = [phase EXCEPT ![d] = "attempting"]
    /\ UNCHANGED requests

\* A request goes out only during an attempt; a deletion may overtake it.
Request(d) ==
    /\ phase[d] \in {"attempting", "gone"}
    /\ requests[d] < MaxAttempts
    /\ requests' = [requests EXCEPT ![d] = @ + 1]
    /\ UNCHANGED phase

\* A verdict needs a request; a retry needs one to be left.
Finish(d) ==
    /\ phase[d] = "attempting"
    /\ requests[d] > 0
    /\ \E verdict \in {"succeeded", "failed", "waiting"} :
          /\ verdict = "waiting" => requests[d] < MaxAttempts
          /\ phase' = [phase EXCEPT ![d] = verdict]
    /\ UNCHANGED requests

\* The endpoint was found inactive.
GiveUp(d) ==
    /\ phase[d] \in {"pending", "waiting"}
    /\ phase' = [phase EXCEPT ![d] = "failed"]
    /\ UNCHANGED requests

Delete(S) ==
    /\ phase' = [d \in Delivery |-> IF d \in S THEN "gone" ELSE phase[d]]
    /\ UNCHANGED requests

Next ==
    \/ \E S, T \in SUBSET Delivery : Create(S, T)
    \/ \E S \in SUBSET Delivery : Delete(S)
    \/ \E d \in Delivery : Begin(d) \/ Request(d) \/ Finish(d) \/ GiveUp(d)

Spec == Init /\ [][Next]_<<phase, requests>>
=============================================================================
