------------------------ MODULE FederationRefinement ------------------------
(***************************************************************************)
(* The RTIG, the RTIAs, their command queues and the streams between them    *)
(* are an implementation of Rendezvous: a federate has answered once its     *)
(* answer is sent, and has heard of an end once tick has given it.           *)
(***************************************************************************)
EXTENDS FederationInvariant

\* A point is answered as soon as the answer is on its way, the RTIG having still to
\* read it.
Remaining(f) == {p \in owed[f] : ~ Answering(f, p.of)}

News(f) == {[point |-> n.point, ok |-> n.ok] : n \in {m \in InTransit(f) : m.kind = "END"}}

Lost == {f \in Federate : rtia[f] = "lost"}

\* What a lost federate has refused is forgotten with it.
Refusals == {x \in failed : rtia[x.by] # "lost"}

Abstract == INSTANCE Rendezvous WITH
    Thing     <- Label \cup SavesAndRestores,
    lost      <- Lost,
    running   <- pending,
    rounds    <- round,
    remaining <- [f \in Federate |-> Remaining(f)],
    refusals  <- Refusals,
    news      <- [f \in Federate |-> News(f)]

\* The three protocols, with all that joins, resigns and is lost meanwhile, do what
\* Rendezvous allows: a point ends once every member it is asked of has answered,
\* and with success only if none has refused (addSynchronization,
\* unregisterSynchronization, federateSaveStatus, federateRestoreStatus, respondToAll).
ImplementsRendezvous == Abstract!Spec
=============================================================================
