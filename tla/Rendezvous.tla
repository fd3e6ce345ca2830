----------------------------- MODULE Rendezvous -----------------------------
(***************************************************************************)
(* What synchronization points, saves and restorations promise to a          *)
(* federation, with no RTIA, RTIG, stream nor command queue.  A point begins *)
(* with the members it is asked of, and ends when none of them has still to  *)
(* answer; whoever hears of the end hears of it after that, and of a success *)
(* only when nobody has refused.  Members come and go at any time; one that  *)
(* is lost may take its last answers with it.                                *)
(***************************************************************************)
EXTENDS Naturals

CONSTANTS
    Federate,
    Founders,   \* the members there are in the beginning
    Thing       \* what points are for; p.of is a Thing, p.round tells p from earlier ones

VARIABLES
    members,
    lost,       \* the federates that are lost, whether still members or not
    running,    \* the points that have begun and not ended
    rounds,     \* how many have begun
    remaining,  \* the points each member has yet to answer
    refusals,   \* who has answered no to which point
    news        \* the ends each federate has yet to hear of

vars == <<members, lost, running, rounds, remaining, refusals, news>>

Init ==
    /\ members = Founders /\ lost = {}
    /\ running = {} /\ rounds = 0
    /\ remaining = [f \in Federate |-> {}]
    /\ refusals = {}
    /\ news = [f \in Federate |-> {}]

\* A member that comes is asked of some points that run.
Enter(f) ==
    /\ f \notin members
    /\ members' = members \cup {f}
    /\ remaining'[f] \subseteq running
    /\ remaining' = [remaining EXCEPT ![f] = remaining'[f]]
    /\ UNCHANGED <<lost, running, rounds, refusals, news>>

Leave(f) ==
    /\ members' = members \ {f}
    /\ remaining' = [remaining EXCEPT ![f] = {}]
    /\ UNCHANGED <<lost, running, rounds, refusals, news>>

\* The answers f gave last may be as if not given.
Lose(f) ==
    /\ f \notin lost
    /\ lost' = lost \cup {f}
    /\ remaining[f] \subseteq remaining'[f] /\ remaining'[f] \subseteq running
    /\ remaining' = [remaining EXCEPT ![f] = remaining'[f]]
    /\ refusals' = {r \in refusals : r.by # f}
    /\ UNCHANGED <<members, running, rounds, news>>

\* One point runs at a time for each thing.
Begin(x, S) ==
    /\ rounds' = rounds + 1
    /\ \A q \in running : q.of # x
    /\ LET p == [of |-> x, round |-> rounds + 1] IN
       /\ running' = running \cup {p}
       /\ remaining' = [f \in Federate |-> IF f \in S THEN remaining[f] \cup {p}
                                                      ELSE remaining[f]]
    /\ UNCHANGED <<members, lost, refusals, news>>

Answer(f, p, ok) ==
    /\ f \in members \ lost
    /\ remaining' = [remaining EXCEPT ![f] = @ \ {p}]
    /\ refusals' = IF ok THEN refusals ELSE refusals \cup {[by |-> f, point |-> p]}
    /\ UNCHANGED <<members, lost, running, rounds, news>>

Refused(p) == \E r \in refusals : r.point = p

\* The members of S are told.
Finish(p, ok, S) ==
    /\ running' = running \ {p}
    /\ \A f \in Federate : p \notin remaining[f]
    /\ ok => ~ Refused(p)
    /\ news' = [f \in Federate |-> IF f \in S THEN news[f] \cup {[point |-> p, ok |-> ok]}
                                              ELSE news[f]]
    /\ UNCHANGED <<members, lost, rounds, remaining, refusals>>

Hear(f) ==
    /\ \E n \in news[f] : news' = [news EXCEPT ![f] = @ \ {n}]
    /\ UNCHANGED <<members, lost, running, rounds, remaining, refusals>>

Next ==
    \/ \E f \in Federate : Enter(f) \/ Leave(f) \/ Lose(f) \/ Hear(f)
    \/ \E f \in Federate, ok \in BOOLEAN : \E p \in remaining[f] : Answer(f, p, ok)
    \/ \E x \in Thing, S \in SUBSET members : Begin(x, S)
    \/ \E p \in running, ok \in BOOLEAN, S \in SUBSET members : Finish(p, ok, S)

Spec == Init /\ [][Next]_vars
=============================================================================
