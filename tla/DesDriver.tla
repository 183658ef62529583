------------------------------ MODULE DesDriver ------------------------------
(***************************************************************************)
(* The simulation loop around VirtualNet (spec.md sections 2 and 6): the   *)
(* driver pops the earliest entry, feeds it to the addressed validator's   *)
(* consensus engine, records what was received, produced and finalized in  *)
(* the validator's histories, and dispatches the engine's outputs at the   *)
(* current instant.  The engine is an external collaborator: on each       *)
(* message it may send one fresh message to any target and may finalize a *)
(* value.  Payloads are numbered from 0 (the init message) so that each    *)
(* message the engines produce is distinct.                                *)
(*                                                                         *)
(* The driver alternates two steps, pop then handle, because dispatch of   *)
(* the outputs is a second call into the net after pop_message returned.   *)
(* It ends the scenario when the queue is empty, or tears it down with     *)
(* empty_queue once every validator has finalized a value.                 *)
(***************************************************************************)
EXTENDS VirtualNet

CONSTANT MaxMsgs    \* bound on the messages the engines produce

ASSUME MaxMsgs \in Nat /\ Payloads = 0 .. MaxMsgs

VARIABLES
    now,            \* delivery time of the entry the driver handles
    next_payload,   \* the payload the next produced message will carry
    phase           \* "pop", "handle", "drained" or "torn_down"

driverVars == <<now, next_payload, phase>>
vars == <<netVars, driverVars>>

DriverInit ==
    /\ Init
    /\ now = 0
    /\ next_payload = 1
    /\ phase = "pop"

(* The loop's first half: pop_message; None ends the scenario. *)
DriverPop ==
    /\ phase = "pop"
    /\ PopMessage
    /\ IF popped' = None
         THEN phase' = "drained" /\ UNCHANGED now
         ELSE phase' = "handle" /\ now' = popped'[1].delivery_time
    /\ UNCHANGED next_payload

(* What an engine may return for one message: at most one fresh message   *)
(* from the handling validator to any target, and at most one finalized   *)
(* value.                                                                  *)
EngineOutputs(id) ==
    {<<>>} \cup
    (IF next_payload <= MaxMsgs
       THEN {<<TargetedMessage(Message(id, next_payload), t)>> : t \in Targets}
       ELSE {})

(* The loop's second half for a popped entry.  get_validator_mut returns  *)
(* None for an id that is not registered (a validator excluded from the   *)
(* scenario) and the entry is then discarded.                              *)
DriverHandle ==
    LET e == popped[1]
        r == e.recipient
    IN
    /\ phase = "handle"
    /\ phase' = "pop"
    /\ IF r \in DOMAIN validators_map
         THEN \E out \in EngineOutputs(r),
                 fin \in {<<>>} \cup {<<c>> : c \in Values} :
                /\ validators_map' =
                     PushFinalized(
                       PushMessagesProduced(
                         PushMessagesReceived(validators_map, r, <<e.message>>),
                         r, [k \in DOMAIN out |-> out[k].message.payload]),
                       r, fin)
                /\ DispatchMessages(now, out)
                /\ next_payload' = next_payload + Len(out)
         ELSE UNCHANGED <<validators_map, msg_queue, calls, decisions,
                          next_payload>>
    /\ UNCHANGED <<popped, delivered, erased, now>>

(* Teardown once every validator finalized a value: empty_queue discards  *)
(* whatever is still in flight.                                            *)
DriverTeardown ==
    /\ phase = "pop"
    /\ \A id \in DOMAIN validators_map :
         Len(validators_map[id].finalized_values) >= 1
    /\ EmptyQueue
    /\ phase' = "torn_down"
    /\ UNCHANGED <<now, next_payload>>

DriverNext == DriverPop \/ DriverHandle \/ DriverTeardown

(* The driver keeps calling the net while the scenario runs. *)
DriverSpec == DriverInit /\ [][DriverNext]_vars /\ WF_vars(DriverNext)

-----------------------------------------------------------------------------
(* Properties *)

(* The driver sees delivery times never go backwards: every entry         *)
(* pop_message returns is due no earlier than the one handled before it.   *)
(* This needs the queue to yield the earliest entry and the strategy never *)
(* to move a message before the dispatch instant the driver passes.        *)
DeliveredInTimeOrder ==
    [][phase = "pop" /\ phase' = "handle" =>
         popped'[1].delivery_time >= now]_vars

(* A validator only ever records as received a message that was addressed *)
(* to it: an init message for it, or a dispatched targeted message whose   *)
(* target is Target::All or Target::SingleValidator of its id.             *)
ReceivedOnlyAddressed ==
    \A id \in DOMAIN validators_map :
      \A k \in DOMAIN validators_map[id].messages_received :
        LET m == validators_map[id].messages_received[k]
        IN \/ \E i \in DOMAIN InitMessages :
                InitMessages[i].recipient = id /\ InitMessages[i].message = m
           \/ \E c \in DOMAIN calls :
                /\ calls[c].message = m
                /\ calls[c].target \in {All, SingleValidator(id)}

(* Every message the strategy scheduled for a registered validator is     *)
(* eventually in that validator's received history, unless the scenario   *)
(* is torn down first: the queue loses nothing and the loop drains it.     *)
ScheduledEventuallyReceived ==
    \A c \in 1 .. MaxCalls, id \in Validators :
        (\E d \in decisions : /\ d.call = c /\ d.recipient = id
                              /\ d.schedule.kind = "AtInstant")
          ~> (\/ phase = "torn_down"
              \/ /\ c \in DOMAIN calls
                 /\ \E k \in DOMAIN validators_map[id].messages_received :
                      validators_map[id].messages_received[k] = calls[c].message)

-----------------------------------------------------------------------------
(* Refinement.  Every queue entry of a driver run is distinct (payloads    *)
(* are fresh and a call's recipients are distinct), so an entry names its *)
(* message instance: init message k is instance <<0, k>>, the instance a  *)
(* decision created is <<call, recipient>>.  Its state is where its entry *)
(* is: in msg_queue, among the entries pop_message returned, or among the *)
(* entries empty_queue discarded.                                          *)
EntryState(e) ==
    CASE BagIn(e, msg_queue) -> "scheduled"
      [] BagIn(e, delivered) -> "delivered"
      [] BagIn(e, erased)    -> "erased"
      [] OTHER               -> "lost"

DecisionLifecycle(d) ==
    IF d.schedule = Drop
      THEN [state |-> "dropped", at |-> 0]
      ELSE [state |-> EntryState(QueueEntry(d.schedule.at, d.recipient,
                                            calls[d.call].message)),
            at |-> d.schedule.at]

LifecycleOf ==
    [i \in {<<0, k>> : k \in DOMAIN InitMessages}
           \cup {<<d.call, d.recipient>> : d \in decisions} |->
       IF i[1] = 0
         THEN [state |-> EntryState(InitMessages[i[2]]),
               at |-> InitMessages[i[2]].delivery_time]
         ELSE DecisionLifecycle(CHOOSE d \in decisions :
                                  <<d.call, d.recipient>> = i)]

Lifecycle == INSTANCE MessageLifecycle WITH lifecycle <- LifecycleOf

(* The driver loop over VirtualNet implements the per-instance lifecycle   *)
(* of spec.md 4.4: dispatch_messages creates instances that are dropped or *)
(* scheduled, pop_message delivers the earliest pending one, empty_queue   *)
(* erases the pending ones, no instance ever leaves a terminal state, and  *)
(* while instances are pending one is eventually delivered.                *)
ImplementsLifecycle == Lifecycle!Spec

=============================================================================
