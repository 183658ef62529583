--------------------------- MODULE MC_DesDriver ----------------------------
(* Instantiates the simulation loop: validators 1 and 2 (2 faulty), an    *)
(* unregistered id 3 engines may still address, and validator 1's first  *)
(* message to itself pre-scheduled at time 0.                             *)
EXTENDS DesDriver

MC_Validators == {1, 2}
MC_Faulty == {2}
MC_TargetIds == {1, 2, 3}
MC_Payloads == 0 .. MaxMsgs
MC_Values == {"c"}
MC_MaxTime == MaxMsgs * MaxDelay
MC_InitMessages == <<QueueEntry(0, 1, Message(1, 0))>>
=============================================================================
