----------------------------- MODULE RetainedDelivery -----------------------------
(***************************************************************************)
(* What custody recovery promises of one required report job, without      *)
(* workers, leases or tables.  Until an offer is retained the job may be   *)
(* given up.  From then on the document is delivered, or the job is parked *)
(* for an operator, or stopped for good; it is never given up, and what is *)
(* sent stays within the budget of the approvals given so far.             *)
(***************************************************************************)
EXTENDS Naturals

CONSTANT DispatchLimit

VARIABLES
    phase,       \* held, withdrawn, offered, parked, stopped or delivered
    first,       \* first sends authorised
    again,       \* repeated sends authorised under the current approval
    approvals

delivery_vars == <<phase, first, again, approvals>>

DeliveryInit ==
    /\ phase = "held"
    /\ first = 0 /\ again = 0 /\ approvals = 0

Withdraw ==
    /\ phase = "held"
    /\ phase' = "withdrawn"
    /\ UNCHANGED <<first, again, approvals>>

Retain ==
    /\ phase = "held"
    /\ phase' = "offered"
    /\ UNCHANGED <<first, again, approvals>>

SendFirst ==
    /\ phase = "offered" /\ first = 0
    /\ first' = 1
    /\ UNCHANGED <<phase, again, approvals>>

SendAgain ==
    /\ phase = "offered" /\ first = 1 /\ again < DispatchLimit
    /\ again' = again + 1
    /\ UNCHANGED <<phase, first, approvals>>

Park ==
    /\ phase = "offered"
    /\ phase' = "parked"
    /\ UNCHANGED <<first, again, approvals>>

Stop ==
    /\ phase \in {"offered", "parked"}
    /\ phase' = "stopped"
    /\ UNCHANGED <<first, again, approvals>>

Approve ==
    /\ phase = "parked"
    /\ phase' = "offered"
    /\ again' = 0
    /\ approvals' = approvals + 1
    /\ UNCHANGED first

Deliver ==
    /\ phase = "offered" /\ first = 1
    /\ phase' = "delivered"
    /\ UNCHANGED <<first, again, approvals>>

DeliveryNext ==
    \/ Withdraw \/ Retain \/ SendFirst \/ SendAgain
    \/ Park \/ Stop \/ Approve \/ Deliver

\* The promise of custody recovery, which CustodyRecovery is shown to implement.
DeliverySpec == DeliveryInit /\ [][DeliveryNext]_delivery_vars
====
