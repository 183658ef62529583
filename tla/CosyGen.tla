------------------------------- MODULE CosyGen -------------------------------
(***************************************************************************)
(* The reactor code generator of the cosy-macro crate                      *)
(* (src/cosy-macro/src/gen.rs).  From a reactor definition (a list of      *)
(* components and a list of requests, each request routed to a component  *)
(* or discarded) it emits the reactor struct, the event and error enums    *)
(* with their Display impls and From impls, and the Reactor impl whose     *)
(* dispatch_event matches on the event.                                    *)
(*                                                                         *)
(* Token streams are abstracted to what the generated Rust is made of:     *)
(* each generated item is a record naming the variant (or field) it is     *)
(* for, and a generated match is the sequence of its arms, in emission     *)
(* order.  The generators are pure functions of the definition, so the     *)
(* model is a constant definition drawn from all small ones and never      *)
(* changes.                                                                *)
(***************************************************************************)
EXTENDS Naturals, Sequences, FiniteSets

LOCAL Seqs == INSTANCE SequencesExt

CONSTANTS
    ComponentNames,   \* identifiers of components a definition may list
    RequestNames,     \* identifiers of requests a definition may list
    MinComponents,    \* shortest component list considered
    MaxComponents,    \* longest component list considered
    MaxRequests       \* longest request list considered

VARIABLE def          \* the ReactorDefinition being expanded

-----------------------------------------------------------------------------
(* ReactorDefinition: distinct components; distinct requests, each with   *)
(* Target::Discard or Target::Dest(component).                             *)

Discard == [kind |-> "Discard", dest |-> "none"]
Dest(c) == [kind |-> "Dest", dest |-> c]

InjectiveSeqs(S, m, n) ==
    {s \in UNION {[1 .. k -> S] : k \in m .. n} :
        Cardinality(Seqs!ToSet(s)) = Len(s)}

Definitions ==
    {[components |-> cs, requests |-> rs] :
        cs \in InjectiveSeqs(ComponentNames, MinComponents, MaxComponents),
        rs \in {r \in [1 .. 0 -> {}] \cup
                      UNION {[1 .. k -> [name : RequestNames,
                                         target : {Discard} \cup
                                                  {Dest(c) : c \in ComponentNames}]]
                             : k \in 1 .. MaxRequests} :
                  Cardinality({r[i].name : i \in DOMAIN r}) = Len(r)}}

\* Variant idents: a component's and a request's live in one enum.
ComponentVariant(c) == <<"component", c>>
RequestVariant(r) == <<"request", r.name>>

-----------------------------------------------------------------------------
(* generate_reactor: one field per component, in order. *)
GenerateReactor(d) ==
    [fields |-> [i \in DOMAIN d.components |-> d.components[i]]]

(* generate_reactor_types: for each component an event variant, an error  *)
(* variant, a Display arm for each and a From impl; then for each request *)
(* an event variant, a Display arm and a From impl.                        *)
\* Fault: the request loop forgets to push the Display arm.
GenerateReactorTypesNoRequestDisplay(d) ==
    LET cvs == [i \in DOMAIN d.components |-> ComponentVariant(d.components[i])]
        rvs == [i \in DOMAIN d.requests |-> RequestVariant(d.requests[i])]
    IN [event_variants         |-> cvs \o rvs,
        error_variants         |-> cvs,
        display_variants       |-> cvs,
        error_display_variants |-> cvs,
        from_impls             |-> cvs \o rvs]

GenerateReactorTypes(d) ==
    LET cvs == [i \in DOMAIN d.components |-> ComponentVariant(d.components[i])]
        rvs == [i \in DOMAIN d.requests |-> RequestVariant(d.requests[i])]
    IN [event_variants         |-> cvs \o rvs,
        error_variants         |-> cvs,
        display_variants       |-> cvs \o rvs,
        error_display_variants |-> cvs,
        from_impls             |-> cvs \o rvs]

(* generate_reactor_impl: the dispatch_event arms.  For each component,   *)
(* an arm calling handle_event on the component's field, followed - inside *)
(* the same loop iteration - by one arm for every request: Discard and     *)
(* Dest arms both return Default::default().                               *)
ComponentArm(c) == [variant |-> ComponentVariant(c), field |-> c]
RequestArm(r) == [variant |-> RequestVariant(r), field |-> "none"]

GenerateReactorImpl(d) ==
    LET perComponent(i) ==
            <<ComponentArm(d.components[i])>> \o
            [j \in DOMAIN d.requests |-> RequestArm(d.requests[j])]
    IN [dispatches |->
          Seqs!FlattenSeq([i \in DOMAIN d.components |-> perComponent(i)])]

-----------------------------------------------------------------------------
Init == def \in Definitions
Next == UNCHANGED def
Spec == Init /\ [][Next]_def

(* Properties *)

\* How many times x occurs in sequence s.
Occurrences(x, s) == Cardinality({i \in DOMAIN s : s[i] = x})

ExactlyOnce(S, s) ==
    /\ Seqs!ToSet(s) = S
    /\ \A x \in S : Occurrences(x, s) = 1

(* The generated types fit together: the event enum has one variant per   *)
(* component and per request, its Display match and its From impls cover  *)
(* each event variant exactly once, the error enum and its Display match   *)
(* cover each component exactly once, and the reactor struct has exactly   *)
(* one field per component.  generate_reactor and generate_reactor_types   *)
(* build these in separate loops that must agree.                          *)
GeneratedTypesConsistent ==
    LET t  == GenerateReactorTypes(def)
        ev == Seqs!ToSet(t.event_variants)
        cv == {ComponentVariant(def.components[i]) : i \in DOMAIN def.components}
    IN /\ ExactlyOnce(ev, t.event_variants)
       /\ ExactlyOnce(ev, t.display_variants)
       /\ ExactlyOnce(ev, t.from_impls)
       /\ ExactlyOnce(cv, t.error_variants)
       /\ ExactlyOnce(cv, t.error_display_variants)
       /\ ExactlyOnce(Seqs!ToSet(def.components), GenerateReactor(def).fields)

(* The match in the generated dispatch_event is exhaustive and has no     *)
(* unreachable arm: every event variant generate_reactor_types declares    *)
(* has exactly one dispatch arm, and every component arm names a field of  *)
(* the generated struct.                                                   *)
DispatchMatchesEvents ==
    LET arms == GenerateReactorImpl(def).dispatches
        ev   == Seqs!ToSet(GenerateReactorTypes(def).event_variants)
    IN /\ ExactlyOnce(ev, [i \in DOMAIN arms |-> arms[i].variant])
       /\ \A i \in DOMAIN arms :
            arms[i].field /= "none" =>
              arms[i].field \in Seqs!ToSet(GenerateReactor(def).fields)

=============================================================================
