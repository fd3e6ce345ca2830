--------------------------- MODULE TimeInvariant ---------------------------
(***************************************************************************)
(* Why TimeManagement is safe: the invariant that the proofs rest on.        *)
(*                                                                          *)
(* What a regulator g says reaches the RTIA of f along one path: the stream  *)
(* up[g], the RTIG, the stream down[f], the clock set clocks[f].  The        *)
(* invariant says that the path keeps the order in which g spoke (Ordered),  *)
(* that nothing on it exceeds what g has promised (Genuine, ClocksHold),     *)
(* that f learns of g before any event of g (Known), that no new event of g  *)
(* can be earlier than its promise (Floor), and that f has not gone past a   *)
(* clock or a message it still has to deliver (Queue, Strict).               *)
(***************************************************************************)
EXTENDS TimeManagement

\* The federates are disciplined, and do not call the broken service.
Disciplined == Liberties = {} /\ "NERA" \notin Services

Elems(s) == {s[i] : i \in DOMAIN s}

\* The messages that carry a promise of their sender.
Promises == {"NULL", "REGULATOR_ON"}

\* On one path, the message b may come behind the message a.
MayFollow(a, b) ==
    /\ a.kind \in {"ACHIEVED", "SYNCHRONIZED"} => b.kind # "REGULATOR_ON"
    /\ a.fed = b.fed /\ b.kind = "EVENT" =>
          /\ a.kind # "REGULATOR_OFF"
          /\ a.kind \in Promises => a.date <= b.date

InOrder(s) == \A i, j \in 1 .. Len(s) : i < j => MayFollow(s[i], s[j])

Ordered ==
    /\ \A g \in Federate : InOrder(up[g])
    /\ \A f \in Federate : InOrder(down[f])
    /\ \A f, g \in Federate : \A a \in Elems(down[f]), b \in Elems(up[g]) : MayFollow(a, b)

\* What a message in flight says of its sender, or of the federation.
Genuine(m) ==
    /\ m.kind \in Promises => m.date <= promised[m.fed]
    /\ m.kind = "EVENT" => m.date \in Times
    /\ m.kind = "REGULATOR_OFF" => ~ is_regulating[m.fed] /\ phase[m.fed] = "started"
    /\ m.kind = "ACHIEVED" => phase[m.fed] # "starting"
    /\ m.kind = "SYNCHRONIZED" => unsynchronized = {}

MessagesHold ==
    /\ \A g \in Federate : \A m \in Elems(up[g]) :
          Genuine(m) /\ m.fed = g /\ (m.kind = "REGULATOR_ON" => g \in unsynchronized)
    /\ \A f \in Federate : \A m \in Elems(down[f]) :
          /\ Genuine(m)
          /\ m.kind \in {"NULL", "EVENT"} => m.fed # f
          /\ m.kind # "ACHIEVED"

Synced(f) ==
    phase[f] = "started" \/ \E m \in Elems(commands[f]) : m.kind = "SYNCHRONIZED"

\* Synchronized federates have met every regulator there will ever be.
StartupHolds ==
    \A f \in Federate :
        /\ phase[f] = "starting" => f \in unsynchronized
        /\ Synced(f) => /\ unsynchronized = {}
                        /\ \A m \in Elems(down[f]) : m.kind # "REGULATOR_ON"

\* What g has said and f has not heard yet.
Path(f, g) == {m \in Elems(down[f]) \cup Elems(up[g]) : m.fed = g}

ClocksHold ==
    \A f \in Federate : \A g \in DOMAIN clocks[f] :
        /\ clocks[f][g] <= promised[g]
        /\ \A m \in Path(f, g) : m.kind = "EVENT" => clocks[f][g] <= m.date

Known ==
    \A f, g \in Federate :
        (is_regulating[g] \/ \E m \in Path(f, g) : m.kind = "EVENT")
            => (g \in DOMAIN clocks[f] \/ \E m \in Path(f, g) : m.kind = "REGULATOR_ON")

\* The advance, the lookahead and the start-up phase of f fit together.
Local(f) ==
    /\ heure_courante[f] \in Times /\ date_avancee[f] \in Times
    /\ heure_courante[f] <= horizon[f] /\ horizon[f] <= EventBase(f)
    /\ lookahead_courant[f] = Eps
          <=> ~ Idle(f) /\ type_granted_state[f] = "AFTER_TAR_OR_NER_WITH_ZERO_LK"
    /\ Idle(f) /\ type_granted_state[f] = "AFTER_TAR_OR_NER_WITH_ZERO_LK"
          => lookahead_courant[f] = 0
    /\ ~ Started(f) => /\ Idle(f) /\ horizon[f] = 0
                       /\ type_granted_state[f] = "UNINITIALIZED"
    /\ avancee_en_cours[f] # "NERA"
    /\ avancee_en_cours[f] = "TARA" => type_granted_state[f] = "AFTER_TARA_OR_NERA"
    /\ phase[f] = "starting" /\ ~ is_regulating[f] => promised[f] = 0

\* A constrained f is not past a clock it has nor a message it holds.
Queue(f) ==
    /\ \A i, j \in 1 .. Len(tsos[f]) : i <= j => tsos[f][i].date <= tsos[f][j].date
    /\ \A m \in Elems(tsos[f]) : m.date \in Times
    /\ is_constrained[f] =>
          /\ \A g \in Others(clocks[f], f) : horizon[f] <= clocks[f][g]
          /\ \A m \in Elems(tsos[f]) : horizon[f] <= m.date

\* What testValidTime adds to the date of the advance, pending or granted.
Margin(f) ==
    IF type_granted_state[f] = "AFTER_TAR_OR_NER_WITH_ZERO_LK" THEN Eps
                                                              ELSE lookahead_courant[f]

\* A regulator has promised no more than its next event will respect; the date of
\* a next event request is not known yet and may be any of three.
Floor(f) ==
    is_regulating[f] =>
        /\ promised[f] <= EventBase(f) + Margin(f)
        /\ avancee_en_cours[f] = "NER" /\ is_constrained[f] =>
              /\ \A g \in Others(clocks[f], f) : promised[f] <= clocks[f][g] + Margin(f)
              /\ \A m \in Elems(tsos[f]) : promised[f] <= m.date + Margin(f)

\* After a strict grant, f is strictly short of every clock and message.
Strict(f) ==
    (/\ is_constrained[f] /\ Idle(f)
     /\ type_granted_state[f] \in {"AFTER_TAR_OR_NER", "AFTER_TAR_OR_NER_WITH_ZERO_LK"})
    => /\ \A g \in Others(clocks[f], f) : heure_courante[f] < clocks[f][g]
       /\ \A m \in Elems(tsos[f]) : heure_courante[f] < m.date

PathInvariant == Ordered /\ MessagesHold /\ StartupHolds /\ ClocksHold /\ Known

FederateInvariant(f) == Local(f) /\ Queue(f) /\ Floor(f) /\ Strict(f)

\* Between what a regulator has said and what a constrained federate has been
\* granted everything fits: each path keeps the order in which its sender spoke,
\* no clock is above its regulator's promise, no regulator can still send below
\* its promise, and no federate is past a clock or a message it holds (the clock
\* sets, timeAdvance, nextEventAdvance, testValidTime and sendNullMessage
\* together).  It is inductive for disciplined federates, and gives
\* NoMessageInThePast, ClocksAreLowerBounds, GrantIsFinal, KeepsPromise and
\* TimeGoesForward.
SafetyInvariant ==
    /\ TypeOK
    /\ PathInvariant
    /\ \A f \in Federate : FederateInvariant(f)
=============================================================================
