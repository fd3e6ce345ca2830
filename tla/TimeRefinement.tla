--------------------------- MODULE TimeRefinement ---------------------------
(***************************************************************************)
(* The RTIAs, the RTIG and the streams between them are an implementation of *)
(* ConservativeTime, in which every federate sees at once what the others    *)
(* promise and send: a promise is in force once its NULL message is sent, an *)
(* event is pending at a federate from the moment it is sent to the moment   *)
(* it is given.                                                              *)
(***************************************************************************)
EXTENDS TimeInvariant

Event == [kind : {"EVENT"}, fed : Federate, date : Times, id : 1 .. MaxSpent]

Abstract == INSTANCE ConservativeTime WITH
    regulating  <- {f \in Federate : is_regulating[f]},
    constrained <- {f \in Federate : is_constrained[f]},
    promise     <- promised,
    pending     <- [f \in Federate |-> Pending(f)]

\* The RTIAs and the RTIG together do what ConservativeTime allows.
ImplementsConservativeTime == Abstract!Spec

\* The same of every step, from any initial state.
EachStepImplements == [][Abstract!Next]_(Abstract!vars)

-----------------------------------------------------------------------------
(* What the implementation needs beyond SafetyInvariant. *)

NoneTwice(s) ==
    \A i, j \in 1 .. Len(s) : s[i].kind = "EVENT" /\ s[i] = s[j] => i = j

\* An event is at one place of its way to a federate at a time, and there once: on
\* the stream of its sender, on the stream to the receiver or in the TSO queue; so
\* a federate is given it once (Federation::broadcast, the Queues of the RTIA).
EventsOnce ==
    /\ \A f \in Federate : NoneTwice(up[f]) /\ NoneTwice(down[f]) /\ NoneTwice(tsos[f])
    /\ \A f \in Federate : Events(down[f]) \cap Events(tsos[f]) = {}
    /\ \A f, g \in Federate : Events(up[g]) \cap (Events(down[f]) \cup Events(tsos[f])) = {}

\* Every event in the federation is one that its sender has spent.
EventsSpent ==
    \A f \in Federate :
        /\ \A m \in Elems(tsos[f]) : m.kind = "EVENT"
        /\ \A m \in Events(up[f]) \cup Events(down[f]) \cup Events(tsos[f]) :
              m.id \in 1 .. MaxSpent /\ m.id <= spent[m.fed]

EventInvariant == EventsOnce /\ EventsSpent
=============================================================================
