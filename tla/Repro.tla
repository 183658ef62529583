-------------------------------- MODULE Repro --------------------------------
(***************************************************************************)
(* Reproducibility of a simulation run (spec.md section 5): two runs of    *)
(* VirtualNet given the same seed and the same sequence of driver calls    *)
(* schedule the same entries and pop them at the same instants.            *)
(*                                                                         *)
(* Two instances A and B of VirtualNet share the seeded generator's output *)
(* (stream) and are driven in lock step by the same calls.  Each keeps its *)
(* own count of the values it has drawn.  dispatch_messages consults the   *)
(* strategy once per recipient, so the draws are consumed in the order     *)
(* the recipients are iterated: the targeted messages in order, and the    *)
(* recipients of Target::All in the order of validators_map's keys.  The   *)
(* queue (not in this repository) breaks ties between entries due at one  *)
(* instant in an order its contract leaves open, so each run resolves its  *)
(* own ties independently.                                                 *)
(***************************************************************************)
EXTENDS Naturals, Sequences, FiniteSets, Bags

LOCAL Seqs == INSTANCE SequencesExt

CONSTANTS
    Validators, TargetIds, Payloads, Strategy, MaxDelay, MaxTime, MaxCalls,
    MaxBatch,
    MaxDraws          \* bound on the values a run draws from its generator

ASSUME Strategy \in {"RandomDelay", "Lossy"} /\ MaxDraws \in Nat

\* The values one draw yields: a delay, or (for Lossy) MaxDelay + 1 for Drop.
Draws == IF Strategy = "Lossy" THEN 0 .. MaxDelay + 1 ELSE 0 .. MaxDelay

VARIABLES
    stream,           \* the generator's outputs for the common seed
    registry,         \* validators_map, which neither run changes here
    qA, poppedA, callsA, decisionsA, deliveredA, erasedA, drawsA,
    qB, poppedB, callsB, decisionsB, deliveredB, erasedB, drawsB

vars == <<stream, registry, qA, poppedA, callsA, decisionsA, deliveredA,
          erasedA, drawsA, qB, poppedB, callsB, decisionsB, deliveredB,
          erasedB, drawsB>>

A == INSTANCE VirtualNet WITH
       validators_map <- registry, msg_queue <- qA, popped <- poppedA,
       calls <- callsA, decisions <- decisionsA, delivered <- deliveredA,
       erased <- erasedA, Faulty <- {}, Values <- {}, InitMessages <- <<>>
B == INSTANCE VirtualNet WITH
       validators_map <- registry, msg_queue <- qB, popped <- poppedB,
       calls <- callsB, decisions <- decisionsB, delivered <- deliveredB,
       erased <- erasedB, Faulty <- {}, Values <- {}, InitMessages <- <<>>

-----------------------------------------------------------------------------
(* Strategy::map as a function of the value drawn from rng. *)
StrategyMapDrawn(draw, base) ==
    IF draw > MaxDelay THEN A!Drop ELSE A!AtInstant(base + draw)

KeyOrders(ids) == {Seqs!SetToSortSeq(ids, <)}

RecipientOrders(target) ==
    IF target.kind = "All" THEN KeyOrders(DOMAIN registry) ELSE {<<target.id>>}

(* The <<call, recipient>> pairs of one dispatch in the order send_messages *)
(* consults the strategy for them; n is the number of earlier calls.        *)
DrawOrders(n, messages) ==
    LET K == 1 .. Len(messages)
    IN {Seqs!FlattenSeq([k \in K |-> [i \in DOMAIN o[k] |-> <<n + k, o[k][i]>>]])
        : o \in {o \in [K -> UNION {RecipientOrders(messages[k].target) : k \in K}] :
                   \A k \in K : o[k] \in RecipientOrders(messages[k].target)}}

(* The outcome per pair when the draws after the first used ones are       *)
(* consumed in the order s.                                                 *)
Outcome(s, used, base) ==
    [p \in Seqs!ToSet(s) |->
       StrategyMapDrawn(stream[used + (CHOOSE i \in DOMAIN s : s[i] = p)], base)]

-----------------------------------------------------------------------------
Init ==
    /\ stream \in [1 .. MaxDraws -> Draws]
    /\ A!Init /\ B!Init
    /\ drawsA = 0 /\ drawsB = 0

(* Both runs call dispatch_messages(rng, t, messages). *)
Dispatch(t, messages) ==
    /\ A!WithinCallBudget(messages) /\ B!WithinCallBudget(messages)
    /\ \E sa \in DrawOrders(Len(callsA), messages),
          sb \in DrawOrders(Len(callsB), messages) :
         /\ drawsA + Len(sa) <= MaxDraws /\ drawsB + Len(sb) <= MaxDraws
         /\ A!DispatchScheduled(t, messages, Outcome(sa, drawsA, t))
         /\ B!DispatchScheduled(t, messages, Outcome(sb, drawsB, t))
         /\ drawsA' = drawsA + Len(sa) /\ drawsB' = drawsB + Len(sb)
    /\ UNCHANGED <<stream, registry, poppedA, deliveredA, erasedA,
                   poppedB, deliveredB, erasedB>>

(* Both runs call pop_message. *)
Pop ==
    /\ A!PopMessage
    /\ B!PopMessage
    /\ UNCHANGED <<stream, drawsA, drawsB>>

(* Both runs call empty_queue. *)
Clear ==
    /\ A!EmptyQueue /\ B!EmptyQueue
    /\ UNCHANGED <<stream, drawsA, drawsB>>

Next ==
    \/ \E t \in 0 .. MaxTime, ms \in A!Batches : Dispatch(t, ms)
    \/ Pop
    \/ Clear

Spec == Init /\ [][Next]_vars

-----------------------------------------------------------------------------
=============================================================================
