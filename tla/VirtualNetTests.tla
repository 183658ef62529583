--------------------------- MODULE VirtualNetTests ---------------------------
(***************************************************************************)
(* The unit test messages_are_dispatched of mod virtual_net_tests, as a    *)
(* scripted caller of VirtualNet, run as written.  log is the sequence of  *)
(* entries the test's std::iter::successors loop pops.                     *)
(***************************************************************************)
EXTENDS VirtualNet

VARIABLES
    pc,             \* "dispatch", "pop" or "done"
    log             \* the entries popped so far, in order

\* The test builds the net with vec![] as init_messages.
NoInitMessages == <<>>

testVars == <<netVars, pc, log>>

(* The test starts from VirtualNet::new with no init messages. *)
DispatchedInit ==
    /\ Init
    /\ log = <<>>
    /\ pc = "dispatch"

(* messages_are_dispatched: one Target::All message from validator 1 at   *)
(* delivery time 2.                                                        *)
DispatchAll ==
    /\ pc = "dispatch"
    /\ DispatchMessages(2, <<TargetedMessage(Message(1, 1), All)>>)
    /\ pc' = "pop"
    /\ UNCHANGED <<validators_map, popped, delivered, erased, log>>

(* successors(pop_message(), |_| pop_message()): pop until None. *)
PopAll ==
    /\ pc = "pop"
    /\ PopMessage
    /\ IF popped' = None
         THEN pc' = "done" /\ UNCHANGED log
         ELSE pc' = "pop" /\ log' = Append(log, popped'[1])

DispatchedSpec == DispatchedInit /\ [][DispatchAll \/ PopAll]_testVars

-----------------------------------------------------------------------------
(* Properties *)

(* messages_are_dispatched asserts that the broadcast is popped as         *)
(* [(ValidatorId(2), message), (ValidatorId(1), message)]: a fixed order   *)
(* between two entries with the same delivery time.                        *)
DispatchedInTestOrder ==
    pc = "done" =>
      [i \in DOMAIN log |-> <<log[i].recipient, log[i].message>>]
        = <<<<2, Message(1, 1)>>, <<1, Message(1, 1)>>>>

=============================================================================
