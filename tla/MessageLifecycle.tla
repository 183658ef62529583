--------------------------- MODULE MessageLifecycle ---------------------------
(***************************************************************************)
(* What the orchestrator promises about each logical message instance      *)
(* (spec.md section 4.4): it is created by a dispatch and at once either   *)
(* dropped (terminal) or scheduled at an instant; a scheduled instance is  *)
(* delivered (handed to the driver, terminal) when it is the earliest one  *)
(* pending, or erased by clear_all_pending.  While instances are pending   *)
(* and nothing erases them, one of them is eventually delivered.           *)
(*                                                                         *)
(* An instance is any value naming it; lifecycle maps every instance       *)
(* created so far to its state and its delivery instant.  This module is  *)
(* the abstract specification that DesDriver is shown to implement.        *)
(***************************************************************************)
EXTENDS Naturals

CONSTANT Times            \* the delivery instants

VARIABLE lifecycle        \* instance -> [state, at]

States == {"dropped", "scheduled", "delivered", "erased"}

Pending == {i \in DOMAIN lifecycle : lifecycle[i].state = "scheduled"}

\* The instances the network starts with are all scheduled.
Init ==
    /\ lifecycle \in [DOMAIN lifecycle -> [state : {"scheduled"}, at : Times]]

\* A dispatch creates instances, each dropped or scheduled; nothing
\* existing changes.
Create ==
    /\ DOMAIN lifecycle \subseteq DOMAIN lifecycle'
    /\ \A i \in DOMAIN lifecycle : lifecycle'[i] = lifecycle[i]
    /\ \A i \in DOMAIN lifecycle' \ DOMAIN lifecycle :
         lifecycle'[i] \in [state : {"dropped", "scheduled"}, at : Times]

\* The earliest pending instance is handed to the driver.
Deliver(i) ==
    /\ i \in Pending
    /\ \A j \in Pending : lifecycle[i].at <= lifecycle[j].at
    /\ lifecycle' = [lifecycle EXCEPT ![i].state = "delivered"]

\* Every pending instance is erased.
Erase ==
    lifecycle' = [i \in DOMAIN lifecycle |->
                    IF i \in Pending THEN [lifecycle[i] EXCEPT !.state = "erased"]
                    ELSE lifecycle[i]]

Next == Create \/ (\E i \in Pending : Deliver(i)) \/ Erase

Spec == Init /\ [][Next]_lifecycle /\ WF_lifecycle(\E i \in Pending : Deliver(i))

=============================================================================
