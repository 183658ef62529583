--------------------------- MODULE MC_VirtualNet ---------------------------
(* Instantiates VirtualNet for TLC: two registered validators (ids 1 and  *)
(* 2, the second faulty), an unregistered id 3 a caller may still target, *)
(* and one pre-scheduled init message.                                    *)
EXTENDS VirtualNet

MC_Validators == {1, 2}
MC_Faulty == {2}
MC_TargetIds == {1, 2, 3}
MC_Payloads == {"a"}
MC_Values == {"c"}
MC_InitMessages == <<QueueEntry(1, 1, Message(1, "a"))>>
=============================================================================
