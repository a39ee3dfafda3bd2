------------------------- MODULE AtMostOnceDelivery -------------------------
(***************************************************************************)
(* What the agent promises about delivery: "online-only, at-most-once, and *)
(* best-effort".  Messages arrive in order.  A message that has arrived is *)
(* shown or dropped, at most one of the two and at most once; several may  *)
(* be shown together.  The agent may stop at any moment; what is pending   *)
(* then is lost.                                                           *)
(***************************************************************************)
EXTENDS Naturals

CONSTANT MaxSeq   \* bound: number of messages

VARIABLES status,   \* what has become of each message
          up        \* the agent is running

Messages == 1..MaxSeq

DeliveryInit ==
    /\ status = [s \in Messages |-> "unsent"]
    /\ up = TRUE

Become(S, what) ==
    status' = [s \in Messages |-> IF s \in S THEN what ELSE status[s]]

(* The next message arrives; overload may drop it at once.                 *)
Arrive(s) ==
    /\ up
    /\ status[s] = "unsent"
    /\ \A r \in 1..(s - 1) : status[r] # "unsent"
    /\ \/ Become({s}, "pending")
       \/ Become({s}, "dropped")
    /\ UNCHANGED up

Pending == {s \in Messages : status[s] = "pending"}

(* One toast is shown for some of the pending messages.                    *)
Deliver(S) ==
    /\ up
    /\ S # {}
    /\ Become(S, "shown")
    /\ UNCHANGED up

(* Pending messages are dropped: invalid, duplicate, superseded, no room,  *)
(* or the renderer failed.                                                 *)
Drop(S) ==
    /\ up
    /\ S # {}
    /\ Become(S, "dropped")
    /\ UNCHANGED up

Stop ==
    /\ up
    /\ up' = FALSE
    /\ UNCHANGED status

DeliveryNext ==
    \/ \E s \in Messages : Arrive(s)
    \/ \E S \in SUBSET Pending : Deliver(S)
    \/ \E S \in SUBSET Pending : Drop(S)
    \/ Stop

DeliverySpec == DeliveryInit /\ [][DeliveryNext]_<<status, up>>
=============================================================================
