-------------------------- MODULE MCTimeManagement --------------------------
(***************************************************************************)
(* Instances of TimeManagement for TLC.                                     *)
(***************************************************************************)
EXTENDS TimeRefinement, ClockReplicas, FiniteSets, TLC

LOCAL INSTANCE FiniteSetsExt

Symmetry == Permutations(Federate)

(***************************************************************************)
(* The federation just synchronized and every stream and queue drained: the  *)
(* state the start-up protocol leads to, whatever its interleaving, once     *)
(* each regulator has chosen a lookahead and every callback is delivered.    *)
(***************************************************************************)
InitSynchronized ==
    \E lookahead \in [Regulators -> Lookaheads] :
        /\ avancee_en_cours = [f \in Federate |-> "PAS_D_AVANCEE"]
        /\ date_avancee = [f \in Federate |-> 0]
        /\ type_granted_state = [f \in Federate |-> "UNINITIALIZED"]
        /\ heure_courante = [f \in Federate |-> 0]
        /\ lookahead_courant = [f \in Federate |->
                                  IF f \in Regulators THEN lookahead[f] ELSE 0]
        /\ lastNullMessageDate = [f \in Federate |-> 0]
        /\ is_regulating = [f \in Federate |-> f \in Regulators]
        /\ is_constrained = [f \in Federate |-> f \in Constraineds]
        /\ clocks = [f \in Federate |-> lookahead]
        /\ commands = [f \in Federate |-> <<>>]
        /\ fifos = [f \in Federate |-> <<>>]
        /\ tsos = [f \in Federate |-> <<>>]
        /\ my_regulators = lookahead
        /\ unsynchronized = {}
        /\ up = [f \in Federate |-> <<>>]
        /\ down = [f \in Federate |-> <<>>]
        /\ phase = [f \in Federate |-> "started"]
        /\ spent = [f \in Federate |-> 0]
        /\ promised = lookahead_courant
        /\ horizon = [f \in Federate |-> 0]

SpecSynchronized == InitSynchronized /\ [][Next]_vars

(***************************************************************************)
(* Fairness.  The RTIG waits in select and always serves the first ready      *)
(* stream of its list (getActiveSocket), so it is fair to its streams as a   *)
(* whole and to none of them.  An RTIA reads its own stream before the       *)
(* requests of its federate (readMessage).  A federate ticks as long as it   *)
(* waits for a grant or a callback (the protocol of TimeManagement.hh), and  *)
(* takes part: it goes through the start-up protocol, keeps asking to        *)
(* advance until the last date, and then stops regulating.  That decision is *)
(* strongly fair: a federate may first ask again for a date it has.          *)
(***************************************************************************)
End == Max(Times)

Participates(f) ==
    /\ WF_vars(\/ \E lookahead \in Lookaheads : SetTimeRegulating(f, TRUE, lookahead)
               \/ SetTimeConstrained(f, TRUE)
               \/ SynchronizationPointAchieved(f))
    /\ SF_vars(\E date \in Times :
                  /\ heure_courante[f] < date
                  /\ \/ TimeAdvanceRequest(f, date)
                     \/ TimeAdvanceRequestAvailable(f, date)
                     \/ NextEventRequest(f, date))
    /\ SF_vars(heure_courante[f] = End /\ SetTimeRegulating(f, FALSE, 0))

Fairness ==
    /\ WF_vars(\E f \in Federate : Rtig(f))
    /\ \A f \in Federate :
          WF_vars(ProcessNetworkMessage(f)) /\ WF_vars(Tick(f)) /\ Participates(f)

FairSpec == Spec /\ Fairness
FairSpecSynchronized == SpecSynchronized /\ Fairness

\* Every advance asked for is granted (no federate waits for ever on clocks that
\* no NULL message raises: timeAdvance, nextEventAdvance, sendNullMessage).
AdvanceIsGranted == \A f \in Federate : ~ Idle(f) ~> Idle(f)

\* Every federate reaches the last date: synchronization, advances and the
\* departure of the others included.
EveryoneReachesTheEnd == \A f \in Federate : <>(heure_courante[f] = End)
=============================================================================
