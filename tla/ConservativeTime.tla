-------------------------- MODULE ConservativeTime --------------------------
(***************************************************************************)
(* What conservative time management promises to a federation, with no       *)
(* RTIA, RTIG, stream or NULL message: every federate sees at once what the  *)
(* others have promised and sent.  A regulating federate has promised to     *)
(* send no event earlier than promise[g].  A constrained federate is given   *)
(* its events in the order of their dates, and is granted a date only when   *)
(* nothing earlier can come to it any more.                                  *)
(***************************************************************************)
EXTENDS Naturals

CONSTANTS
    Federate,
    Event       \* events; e.fed sends e, e.date is its time stamp

VARIABLES
    regulating, constrained,    \* the federates with each role
    promise,                    \* what each regulating federate has promised
    pending,                    \* the events on their way to each federate
    horizon                     \* the greatest date granted or given to each

vars == <<regulating, constrained, promise, pending, horizon>>

Init ==
    /\ regulating = {} /\ constrained = {}
    /\ promise = [f \in Federate |-> 0]
    /\ pending = [f \in Federate |-> {}]
    /\ horizon = [f \in Federate |-> 0]

\* Nothing earlier than date is on its way to f, nor can be sent any more.
Safe(f, date) ==
    /\ \A e \in pending[f] : date <= e.date
    /\ \A g \in regulating \ {f} : date <= promise[g]

\* A federate that begins to regulate promises what it likes, but no less than
\* what any constrained federate has reached.
Regulate(g) ==
    /\ g \notin regulating
    /\ regulating' = regulating \cup {g}
    /\ promise'[g] \in Nat
    /\ \A f \in constrained \ {g} : horizon[f] <= promise'[g]
    /\ promise' = [promise EXCEPT ![g] = promise'[g]]
    /\ UNCHANGED <<constrained, pending, horizon>>

Unregulate(g) ==
    /\ regulating' = regulating \ {g}
    /\ UNCHANGED <<constrained, promise, pending, horizon>>

Constrain(f) ==
    /\ Safe(f, horizon[f])
    /\ constrained' = constrained \cup {f}
    /\ UNCHANGED <<regulating, promise, pending, horizon>>

Unconstrain(f) ==
    /\ constrained' = constrained \ {f}
    /\ UNCHANGED <<regulating, promise, pending, horizon>>

\* g alone promises something, and takes nothing back.
Raise(g) ==
    /\ promise'[g] \in Nat /\ promise[g] <= promise'[g]
    /\ promise' = [promise EXCEPT ![g] = promise'[g]]

Promise(g) ==
    /\ g \in regulating
    /\ Raise(g)
    /\ UNCHANGED <<regulating, constrained, pending, horizon>>

Send(g, e) ==
    /\ g \in regulating
    /\ e.fed = g /\ promise[g] <= e.date
    /\ pending' = [f \in Federate |-> IF f = g THEN pending[f] ELSE pending[f] \cup {e}]
    /\ UNCHANGED <<regulating, constrained, promise, horizon>>

\* The earliest event of f; f may raise its own promise with it.
Deliver(f, e) ==
    /\ f \in constrained /\ e \in pending[f]
    /\ horizon[f] <= e.date /\ Safe(f, e.date)
    /\ pending' = [pending EXCEPT ![f] = @ \ {e}]
    /\ horizon' = [horizon EXCEPT ![f] = e.date]
    /\ Raise(f)
    /\ UNCHANGED <<regulating, constrained>>

\* A federate that is not constrained takes its events in any order.
Take(f, e) ==
    /\ f \notin constrained /\ e \in pending[f]
    /\ pending' = [pending EXCEPT ![f] = @ \ {e}]
    /\ UNCHANGED <<regulating, constrained, promise, horizon>>

\* f reaches any date that nothing earlier can come before any more.
Grant(f) ==
    /\ horizon'[f] \in Nat /\ horizon[f] <= horizon'[f]
    /\ f \in constrained => Safe(f, horizon'[f])
    /\ horizon' = [horizon EXCEPT ![f] = horizon'[f]]
    /\ Raise(f)
    /\ UNCHANGED <<regulating, constrained, pending>>

Next == \E f \in Federate :
    \/ Regulate(f) \/ Unregulate(f) \/ Constrain(f) \/ Unconstrain(f)
    \/ Promise(f) \/ Grant(f)
    \/ \E e \in Event : Send(f, e) \/ Deliver(f, e) \/ Take(f, e)

Spec == Init /\ [][Next]_vars
=============================================================================
