----------------------------- MODULE VirtualNet -----------------------------
(***************************************************************************)
(* The virtual network of the consensus discrete-event simulator           *)
(* (src/node/src/components/consensus/tests/consensus_des_testing.rs):     *)
(* a registry of validators with their histories, a delivery queue of      *)
(* QueueEntry records, and a delivery-time strategy consulted once per     *)
(* recipient.  Each public method of VirtualNet and Validator that changes *)
(* state is one action; its arguments are chosen with \E.  Next is the     *)
(* most general caller: any method, any arguments, in any order.           *)
(*                                                                         *)
(* The queue type (super::queue::Queue) is not part of this repository's   *)
(* sources; it is modelled from its contract: push, clear, and pop of an   *)
(* entry with the smallest delivery time, ties broken in an unspecified    *)
(* way (so every minimal entry is a possible result).                      *)
(*                                                                         *)
(* Ghost variables record what the code does not keep: the dispatched      *)
(* targeted messages (calls), the strategy's decision for every recipient  *)
(* (decisions), and the entries removed by pop (delivered) and by          *)
(* empty_queue (erased).                                                   *)
(***************************************************************************)
EXTENDS Naturals, Sequences, FiniteSets, Bags

CONSTANTS
    Validators,       \* ids registered at VirtualNet::new (ValidatorId(u64))
    Faulty,           \* the validators constructed with is_faulty = TRUE
    TargetIds,        \* ids a caller may name in Target::SingleValidator
    Payloads,         \* message payloads M
    Values,           \* finalized consensus values C
    Strategy,         \* which delivery_time_strategy the net was built with
    MaxDelay,         \* largest delay a delaying strategy adds
    MaxTime,          \* largest base delivery time a caller passes
    MaxCalls,         \* bound on the number of targeted messages dispatched
    MaxBatch,         \* bound on the length of one dispatch_messages vector
    InitMessages      \* the init_messages vector given to VirtualNet::new

ASSUME Validators \subseteq Nat \ {0} /\ Validators \subseteq TargetIds
ASSUME Faulty \subseteq Validators
ASSUME Strategy \in {"NoOpDelay", "DropAll", "RandomDelay", "Lossy"}
ASSUME {MaxDelay, MaxTime, MaxCalls, MaxBatch} \subseteq Nat

VARIABLES
    validators_map,   \* BTreeMap<ValidatorId, Validator>: histories per id
    msg_queue,        \* Queue<M>: a bag of QueueEntry records
    popped,           \* the value the last pop_message returned
    calls,            \* ghost: every TargetedMessage dispatched, with its time
    decisions,        \* ghost: the strategy's outcome per (call, recipient)
    delivered,        \* ghost: bag of entries returned by pop_message
    erased            \* ghost: bag of entries discarded by empty_queue

netVars == <<validators_map, msg_queue, popped, calls, decisions,
             delivered, erased>>

-----------------------------------------------------------------------------
(* Data model: Target, Message, TargetedMessage, DeliverySchedule,        *)
(* QueueEntry.                                                             *)

Times == 0 .. (MaxTime + MaxDelay)

SingleValidator(id) == [kind |-> "Single", id |-> id]
All == [kind |-> "All", id |-> 0]
Targets == {All} \cup {SingleValidator(id) : id \in TargetIds}

Message(sender, payload) == [sender |-> sender, payload |-> payload]
Messages == {Message(s, p) : s \in Validators, p \in Payloads}

TargetedMessage(message, target) == [message |-> message, target |-> target]

\* Drop carries a dummy instant so that both variants are comparable records.
AtInstant(t) == [kind |-> "AtInstant", at |-> t]
Drop == [kind |-> "Drop", at |-> 0]

QueueEntry(delivery_time, recipient, message) ==
    [delivery_time |-> delivery_time, recipient |-> recipient,
     message |-> message]
QueueEntries == [delivery_time : Times, recipient : TargetIds,
                 message : Messages]

\* Option<QueueEntry>: None is <<>>, Some(e) is <<e>>.
None == <<>>
Some(e) == <<e>>

\* Validator::new: the flag from the constructor, empty histories.
NewValidator(id) ==
    [is_faulty |-> id \in Faulty, finalized_values |-> <<>>,
     messages_received |-> <<>>, messages_produced |-> <<>>]

-----------------------------------------------------------------------------
(* Delivery strategy.  Strategy::map is called with the base time wrapped *)
(* as AtInstant (From<Timestamp>); the random source is a nondeterministic *)
(* choice.  NoOpDelay and the trait's default return the argument; the   *)
(* other strategies are the delaying and dropping ones the trait allows.   *)
\* Fault: a delaying strategy that can add one more than MaxDelay.
StrategyMapOverDelay(base) ==
    CASE Strategy = "NoOpDelay"   -> {AtInstant(base)}
      [] Strategy = "DropAll"     -> {Drop}
      [] Strategy \in {"RandomDelay", "Lossy"} ->
           {AtInstant(base + d) : d \in 0 .. MaxDelay + 1}

StrategyMap(base) ==
    CASE Strategy = "NoOpDelay"   -> {AtInstant(base)}
      [] Strategy = "DropAll"     -> {Drop}
      [] Strategy = "RandomDelay" -> {AtInstant(base + d) : d \in 0 .. MaxDelay}
      [] Strategy = "Lossy"       -> {AtInstant(base + d) : d \in 0 .. MaxDelay}
                                       \cup {Drop}

\* The recipients of a target: Target::All is the snapshot of the keys of
\* validators_map at dispatch time; a single validator is taken as given,
\* registered or not.
Recipients(target) ==
    IF target.kind = "All" THEN DOMAIN validators_map ELSE {target.id}

\* A bag holding E(x) once for every x of the finite set S.
BagOfImages(S, E(_)) ==
    [e \in {E(x) : x \in S} |-> Cardinality({x \in S : E(x) = e})]

\* Fault: the entry is addressed back to the message's sender.
ScheduleMessageToSender(delivery_time, recipient, message) ==
    QueueEntry(delivery_time, message.sender, message)

\* schedule_message: the entry a scheduled decision pushes on the queue.
ScheduleMessage(delivery_time, recipient, message) ==
    QueueEntry(delivery_time, recipient, message)

\* send_messages for every targeted message of one dispatch: one strategy
\* outcome per recipient; AtInstant outcomes are pushed, Drop ones are not.
\* ds is the set of decisions [call, recipient, schedule] of this dispatch.
\* Fault: the base delivery time is scheduled instead of the tampered one.
SendMessagesAtBaseTime(ds) ==
    BagOfImages({d \in ds : d.schedule.kind = "AtInstant"},
                LAMBDA d : ScheduleMessage(calls'[d.call].time, d.recipient,
                                           calls'[d.call].message))

SendMessages(ds) ==
    BagOfImages({d \in ds : d.schedule.kind = "AtInstant"},
                LAMBDA d : ScheduleMessage(d.schedule.at, d.recipient,
                                           calls'[d.call].message))

-----------------------------------------------------------------------------
(* VirtualNet::new *)
Init ==
    /\ validators_map = [id \in Validators |-> NewValidator(id)]
    /\ msg_queue = BagOfImages(DOMAIN InitMessages, LAMBDA i : InitMessages[i])
    /\ popped = None
    /\ calls = <<>>
    /\ decisions = {}
    /\ delivered = EmptyBag
    /\ erased = EmptyBag

(* dispatch_messages(rand, delivery_time, messages): for each targeted     *)
(* message in order, resolve its recipients and, for each, consult the     *)
(* strategy with the base time and schedule the message unless dropped.    *)
(* DispatchPairs is the expansion: a <<call, recipient>> pair for every    *)
(* recipient of every targeted message.  DispatchScheduled is the effect   *)
(* of the call given the strategy's outcome for each pair.                 *)
DispatchPairs(messages) ==
    UNION {{<<Len(calls) + k, r>> : r \in Recipients(messages[k].target)}
           : k \in 1 .. Len(messages)}

DispatchScheduled(delivery_time, messages, outcome) ==
    LET ds == {[call |-> p[1], recipient |-> p[2], schedule |-> outcome[p]]
               : p \in DispatchPairs(messages)}
    IN
    /\ calls' = calls \o [k \in 1 .. Len(messages) |->
                            [time |-> delivery_time,
                             message |-> messages[k].message,
                             target |-> messages[k].target]]
    /\ decisions' = decisions \cup ds
    /\ msg_queue' = msg_queue (+) SendMessages(ds)

\* The bound on the targeted messages dispatched in a whole run.
WithinCallBudget(messages) == Len(calls) + Len(messages) <= MaxCalls

DispatchMessages(delivery_time, messages) ==
    /\ WithinCallBudget(messages)
    /\ \E outcome \in [DispatchPairs(messages) -> StrategyMap(delivery_time)] :
         DispatchScheduled(delivery_time, messages, outcome)

\* Fault: a max-heap ordered without Reverse yields the latest entry.
PopMessageLatest ==
    \/ /\ msg_queue /= EmptyBag
       /\ \E e \in BagToSet(msg_queue) :
            /\ \A f \in BagToSet(msg_queue) : e.delivery_time >= f.delivery_time
            /\ msg_queue' = msg_queue (-) SetToBag({e})
            /\ popped' = Some(e)
            /\ delivered' = delivered (+) SetToBag({e})
       /\ UNCHANGED <<validators_map, calls, decisions, erased>>
    \/ /\ msg_queue = EmptyBag
       /\ popped' = None
       /\ UNCHANGED <<validators_map, msg_queue, calls, decisions,
                      delivered, erased>>

(* pop_message: remove and return an entry with the earliest delivery     *)
(* time, or None when the queue is empty.                                  *)
PopMessage ==
    \/ /\ msg_queue /= EmptyBag
       /\ \E e \in BagToSet(msg_queue) :
            /\ \A f \in BagToSet(msg_queue) : e.delivery_time <= f.delivery_time
            /\ msg_queue' = msg_queue (-) SetToBag({e})
            /\ popped' = Some(e)
            /\ delivered' = delivered (+) SetToBag({e})
       /\ UNCHANGED <<validators_map, calls, decisions, erased>>
    \/ /\ msg_queue = EmptyBag
       /\ popped' = None
       /\ UNCHANGED <<validators_map, msg_queue, calls, decisions,
                      delivered, erased>>

(* empty_queue: drop every pending entry. *)
EmptyQueue ==
    /\ msg_queue' = EmptyBag
    /\ erased' = erased (+) msg_queue
    /\ UNCHANGED <<validators_map, popped, calls, decisions, delivered>>

(* Validator::push_finalized / push_messages_received /                   *)
(* push_messages_produced on the validator get_validator_mut(id) returns: *)
(* extend the one history of the one validator, in call order.  They are  *)
(* operators on the map so that a caller can apply several in one step.    *)
Extend(history, items) == history \o items

PushFinalized(vm, id, finalized_values) ==
    [vm EXCEPT ![id].finalized_values = Extend(@, finalized_values)]
\* Fault: the received messages are never recorded.
PushMessagesReceivedForgotten(vm, id, messages) == vm

PushMessagesReceived(vm, id, messages) ==
    [vm EXCEPT ![id].messages_received = Extend(@, messages)]
PushMessagesProduced(vm, id, messages) ==
    [vm EXCEPT ![id].messages_produced = Extend(@, messages)]

-----------------------------------------------------------------------------
(* The most general caller of the network: any dispatch, pop or          *)
(* empty_queue, in any order.  The Validator accumulators are driven by    *)
(* the simulation loop (DesDriver).                                        *)

Batches == UNION {[1 .. n -> [message : Messages, target : Targets]]
                  : n \in 1 .. MaxBatch}

Next ==
    \/ /\ \E t \in 0 .. MaxTime, ms \in Batches : DispatchMessages(t, ms)
       /\ UNCHANGED <<validators_map, popped, delivered, erased>>
    \/ PopMessage
    \/ EmptyQueue

Spec == Init /\ [][Next]_netVars

-----------------------------------------------------------------------------
(* Properties *)

TypeOK ==
    /\ DOMAIN validators_map = Validators
    /\ \A id \in Validators :
         /\ validators_map[id].is_faulty \in BOOLEAN
         /\ validators_map[id].finalized_values \in Seq(Values)
         /\ validators_map[id].messages_received \in Seq(Messages)
         /\ validators_map[id].messages_produced \in Seq(Payloads)
    /\ IsABag(msg_queue) /\ BagToSet(msg_queue) \subseteq QueueEntries
    /\ popped \in {None} \cup {Some(e) : e \in QueueEntries}
    /\ IsABag(delivered) /\ BagToSet(delivered) \subseteq QueueEntries
    /\ IsABag(erased) /\ BagToSet(erased) \subseteq QueueEntries

=============================================================================
