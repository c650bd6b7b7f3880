------------------------------ MODULE MCOHCIIso ------------------------------
(***************************************************************************)
(* Isochronous transfers and the admission to the periodic schedule,       *)
(* checked together.  The two share no state: the model has endpoints of   *)
(* one only while the other is as it began, their sum and not the product. *)
(***************************************************************************)
EXTENDS OHCIIso, OHCIPeriodic

(* Interrupt endpoints: a full-speed one of 64 bytes polled in every frame *)
(* or in every third, and a low-speed one of 8 bytes polled in every       *)
(* fourth.                                                                 *)
MCDesc == {[low |-> FALSE, in |-> TRUE, size |-> 64, rate |-> 1],
           [low |-> FALSE, in |-> TRUE, size |-> 64, rate |-> 3],
           [low |-> TRUE, in |-> TRUE, size |-> 8, rate |-> 4]}

MCInit == Init /\ PeriodicInit

MCNext == \/ /\ \A e \in IntEndpoint : int[e] = Absent
             /\ isoAvailable = Total
             /\ Next /\ UNCHANGED periodicVars
          \/ calls = 0 /\ PeriodicNext /\ UNCHANGED vars

MCSpec == MCInit /\ [][MCNext]_<<vars, periodicVars>> /\ Fairness
=============================================================================
