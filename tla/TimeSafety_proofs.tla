------------------------- MODULE TimeSafety_proofs --------------------------
(*****************************************************************************)
(* The safety of TimeManagement for disciplined federates: each kind of step *)
(* keeps SafetyInvariant, and the safety properties follow from it.  Only    *)
(* the invariant of the federate that acts needs an argument; the paths are  *)
(* the subject of TimeManagement_proofs.                                     *)
(*****************************************************************************)
EXTENDS TimeManagement_proofs

-----------------------------------------------------------------------------
(* What one federate sees of the rest of the state. *)

\* Nothing that FederateInvariant(f) reads changes, but the phase may advance.
Same(f) ==
    /\ avancee_en_cours'[f] = avancee_en_cours[f]
    /\ date_avancee'[f] = date_avancee[f]
    /\ type_granted_state'[f] = type_granted_state[f]
    /\ heure_courante'[f] = heure_courante[f]
    /\ lookahead_courant'[f] = lookahead_courant[f]
    /\ is_regulating'[f] = is_regulating[f]
    /\ is_constrained'[f] = is_constrained[f]
    /\ clocks'[f] = clocks[f]
    /\ tsos'[f] = tsos[f]
    /\ promised'[f] = promised[f]
    /\ horizon'[f] = horizon[f]
    /\ phase'[f] = "starting" => phase[f] = "starting"
    /\ phase[f] = "started" => phase'[f] = "started"

\* A federate that sees no difference keeps its invariant.
LEMMA SameKeeps ==
    ASSUME NEW f \in Federate, FederateInvariant(f), Same(f)
    PROVE  FederateInvariant(f)'
<1>1. (Idle(f)' <=> Idle(f)) /\ EventBase(f)' = EventBase(f) /\ Margin(f)' = Margin(f)
    BY DEF Same, Idle, EventBase, Margin
<1>2. Local(f)'
    BY <1>1 DEF FederateInvariant, Local, Same, Started
<1>3. Queue(f)'
    BY DEF FederateInvariant, Queue, Same
<1>4. Floor(f)'
    BY <1>1 DEF FederateInvariant, Floor, Same
<1>5. Strict(f)'
    BY <1>1 DEF FederateInvariant, Strict, Same
<1> QED
    BY <1>2, <1>3, <1>4, <1>5 DEF FederateInvariant

\* The types that the arithmetic on one federate needs.
LEMMA FederateTypes ==
    ASSUME TypeOK, NEW f \in Federate
    PROVE  /\ heure_courante[f] \in Nat /\ date_avancee[f] \in Nat
           /\ lookahead_courant[f] \in Nat /\ promised[f] \in Nat /\ horizon[f] \in Nat
           /\ EventBase(f) \in Nat /\ Margin(f) \in Nat /\ Eps \in Nat \ {0}
           /\ \A g \in Others(clocks[f], f) : clocks[f][g] \in Nat /\ g \in Federate
           /\ \A m \in Elems(tsos[f]) : m.date \in Nat
           /\ avancee_en_cours[f] \in {"PAS_D_AVANCEE", "TAR", "TARA", "NER", "NERA"}
<1>1. Eps \in Nat \ {0}
    BY TimesAssumption
<1>2. \A m \in Elems(tsos[f]) : m.date \in Nat
    BY StreamTypes, MessageFields
<1>3. \A g \in Others(clocks[f], f) : clocks[f][g] \in Nat /\ g \in Federate
    BY DEF TypeOK, ClockSet, Others
<1> QED
    BY <1>1, <1>2, <1>3 DEF TypeOK, EventBase, Margin

\* Dates are further apart than epsilon2.
LEMMA Spacing ==
    ASSUME NEW s \in Times, NEW t \in Times, s < t
    PROVE  s + Eps <= t
BY TimesAssumption

\* A started federate knows every regulator, and no event is earlier than its clock.
LEMMA StartedKnows ==
    ASSUME TypeOK, PathInvariant, NEW f \in Federate, NEW g \in Federate, Started(f)
    PROVE  /\ is_regulating[g] => g \in DOMAIN clocks[f]
           /\ \A m \in Path(f, g) : m.kind = "EVENT" =>
                 g \in DOMAIN clocks[f] /\ clocks[f][g] <= m.date
<1>1. unsynchronized = {} /\ \A m \in Elems(down[f]) : m.kind # "REGULATOR_ON"
    BY DEF PathInvariant, StartupHolds, Synced, Started
<1>2. \A m \in Elems(up[g]) : m.kind # "REGULATOR_ON"
    BY <1>1 DEF PathInvariant, MessagesHold
<1>3. \A m \in Path(f, g) : m.kind # "REGULATOR_ON"
    BY <1>1, <1>2 DEF Path
<1> QED
    BY <1>3 DEF PathInvariant, Known, ClocksHold

\* What testValidTime accepts keeps every promise made.
LEMMA ValidTimeRespects ==
    ASSUME TypeOK, Disciplined, NEW f \in Federate, FederateInvariant(f),
           NEW date \in Times, MaySendDated(f), TestValidTime(f, date)
    PROVE  is_regulating[f] /\ promised[f] <= date
<1>1. is_regulating[f] /\ type_granted_state[f] # "UNINITIALIZED"
    BY DEF MaySendDated, Disciplined
<1>2. ValidTimeIn(f, type_granted_state[f], date)
    BY <1>1 DEF TestValidTime
<1>3. EventBase(f) \in Times
    BY DEF FederateInvariant, Local, EventBase
<1>4. date \in Nat /\ EventBase(f) + Margin(f) <= date
    BY <1>2, <1>3, Spacing, TimesAssumption DEF ValidTimeIn, Margin
<1>5. promised[f] <= EventBase(f) + Margin(f)
    BY <1>1 DEF FederateInvariant, Floor
<1> QED
    BY <1>1, <1>4, <1>5, FederateTypes

-----------------------------------------------------------------------------
(* The steps of a federate f and of its RTIA: f alone sees a difference. *)

\* It is enough to look at the federate that acts.
LEMMA OnlyActor ==
    ASSUME \A k \in Federate : FederateInvariant(k), NEW f \in Federate,
           \A k \in Federate \ {f} : Same(k), FederateInvariant(f)'
    PROVE  \A k \in Federate : FederateInvariant(k)'
BY SameKeeps

\* What sendNullMessage, or its absence, does to the promise of f and to the paths.
LEMMA NullKeepsPath ==
    ASSUME TypeOK, PathInvariant, NEW f \in Federate, NEW date \in Nat, NEW lookahead \in Nat,
           SendNullMessage(f, date, lookahead) \/ UNCHANGED promiseVars,
           UNCHANGED <<down, clocks, unsynchronized, commands, is_regulating, phase>>
    PROVE  /\ PathInvariant'
           /\ \A k \in Federate \ {f} : promised'[k] = promised[k]
           /\ promised'[f] \in Nat
           /\ promised'[f] = promised[f] \/ promised'[f] = date + lookahead
<1>1. CASE UNCHANGED promiseVars
    BY <1>1, SilenceKeepsPath DEF promiseVars, TypeOK
<1>2. CASE /\ SendNullMessage(f, date, lookahead)
           /\ ~ UNCHANGED promiseVars
    <2>1. PICK p : p = Later(promised[f], date + lookahead)
        OBVIOUS
    <2>2. PICK m : m = Msg("NULL", f, date + lookahead)
        OBVIOUS
    <2>3. m \in Message /\ m.kind = "NULL" /\ m.fed = f /\ m.date = date + lookahead
        BY <2>2, MsgType DEF Msg, Kinds
    <2>4. /\ up' = [up EXCEPT ![f] = Append(@, m)]
          /\ promised' = [promised EXCEPT ![f] = p]
        BY <1>2, <2>1, <2>2 DEF SendNullMessage, TypeOK
    <2>5. /\ p \in Nat /\ promised[f] <= p /\ date + lookahead <= p
          /\ p = promised[f] \/ p = date + lookahead
        BY <2>1 DEF Later, TypeOK
    <2>6. /\ is_regulating' = [is_regulating EXCEPT ![f] = is_regulating[f]]
          /\ phase' = [phase EXCEPT ![f] = phase[f]]
          /\ is_regulating[f] \in BOOLEAN
          /\ phase[f] \in {"starting", "synchronizing", "started"}
        BY DEF TypeOK
    <2>7. m.date <= p /\ m.kind = "NULL"
        BY <2>3, <2>5
    <2>8. p \in Nat /\ promised[f] <= p
        BY <2>5
    <2>9. m \in Message /\ m.fed = f
        BY <2>3
    <2>10. PathInvariant'
        BY <2>4, <2>6, <2>7, <2>8, <2>9, SpeakKeepsPath
    <2>11. promised \in [Federate -> Nat]
        BY DEF TypeOK
    <2>12. promised'[f] = p /\ \A k \in Federate \ {f} : promised'[k] = promised[k]
        BY <2>4, <2>11
    <2>13. promised'[f] \in Nat /\ (promised'[f] = promised[f] \/ promised'[f] = date + lookahead)
        BY <2>5, <2>12
    <2> QED
        BY <2>10, <2>12, <2>13
<1> QED
    BY <1>1, <1>2

\* A message that promises nothing and changes no role.
LEMMA RemarkKeepsPath ==
    ASSUME TypeOK, PathInvariant, NEW f \in Federate, NEW m \in Message, m.fed = f,
           m.kind \in {"EVENT", "RECEIVE_ORDER", "CONSTRAINED_ON", "CONSTRAINED_OFF"},
           m.kind = "EVENT" => m.date \in Times /\ promised[f] <= m.date /\ is_regulating[f],
           up' = [up EXCEPT ![f] = Append(@, m)],
           promised' = [promised EXCEPT ![f] = promised[f]],
           is_regulating' = [is_regulating EXCEPT ![f] = is_regulating[f]],
           phase' = [phase EXCEPT ![f] = phase[f]],
           UNCHANGED <<down, clocks, unsynchronized, commands>>
    PROVE  PathInvariant'
<1>1. /\ promised[f] \in Nat /\ promised[f] <= promised[f]
      /\ is_regulating[f] \in BOOLEAN
      /\ phase[f] \in {"starting", "synchronizing", "started"}
    BY DEF TypeOK
<1>2. m.kind \notin Promises
    BY DEF Promises
<1> QED
    BY <1>1, <1>2, SpeakKeepsPath

-----------------------------------------------------------------------------
(* The requests to advance. *)

\* What the requests have in common: the margin over the new date is enough for
\* what was promised, and for a next event over every date that may be granted.
LEMMA BeginKeeps ==
    ASSUME TypeOK, \A k \in Federate : FederateInvariant(k), NEW f \in Federate,
           NEW kind \in {"TAR", "TARA", "NER"}, NEW date \in Times,
           NEW granted \in Granted \ {"UNINITIALIZED"}, NEW lookahead \in Nat,
           Started(f), RequestAccepted(f, date),
           BeginAdvance(f, kind, date, granted, lookahead),
           \A k \in Federate \ {f} : promised'[k] = promised[k],
           promised'[f] = promised[f] \/ promised'[f] = date + lookahead,
           lookahead = Eps <=> granted = "AFTER_TAR_OR_NER_WITH_ZERO_LK",
           kind = "TARA" => granted = "AFTER_TARA_OR_NERA",
           heure_courante[f] + Margin(f) <= date + lookahead,
           kind = "NER" => promised'[f] = promised[f] /\ Margin(f) <= lookahead
    PROVE  \A k \in Federate : FederateInvariant(k)'
<1>1. \A k \in Federate \ {f} : Same(k)
    BY DEF Same, BeginAdvance, roleVars, queueVars, TypeOK
<1>2. /\ avancee_en_cours'[f] = kind /\ date_avancee'[f] = date
      /\ type_granted_state'[f] = granted /\ lookahead_courant'[f] = lookahead
      /\ heure_courante' = heure_courante /\ horizon' = horizon /\ phase' = phase
      /\ is_regulating' = is_regulating /\ is_constrained' = is_constrained
      /\ clocks' = clocks /\ tsos' = tsos
    BY DEF BeginAdvance, roleVars, queueVars, TypeOK
<1>3. /\ Idle(f) /\ heure_courante[f] <= date /\ EventBase(f) = heure_courante[f]
      /\ ~ Idle(f)' /\ EventBase(f)' = date /\ Margin(f)' = lookahead
    BY <1>2 DEF RequestAccepted, Idle, EventBase, Margin
<1>4. /\ heure_courante[f] \in Nat /\ horizon[f] \in Nat /\ date \in Nat /\ Margin(f) \in Nat
      /\ promised[f] \in Nat
      /\ \A g \in Others(clocks[f], f) : clocks[f][g] \in Nat
      /\ \A m \in Elems(tsos[f]) : m.date \in Nat
    BY FederateTypes, TimesAssumption
<1>5. heure_courante[f] = horizon[f]
    BY <1>3, <1>4 DEF FederateInvariant, Local
<1>6. Local(f)'
    <2>1. Started(f)'
        BY <1>2 DEF Started
    <2> QED
        BY <1>2, <1>3, <1>4, <1>5, <2>1 DEF FederateInvariant, Local, Started
<1>7. Queue(f)'
    BY <1>2 DEF FederateInvariant, Queue
<1>8. Floor(f)'
    <2> SUFFICES ASSUME is_regulating[f]
                 PROVE  /\ promised'[f] <= date + lookahead
                        /\ kind = "NER" /\ is_constrained[f] =>
                              /\ \A g \in Others(clocks[f], f) :
                                    promised'[f] <= clocks[f][g] + lookahead
                              /\ \A m \in Elems(tsos[f]) : promised'[f] <= m.date + lookahead
        BY <1>2, <1>3 DEF Floor
    <2>1. promised[f] <= heure_courante[f] + Margin(f)
        BY <1>3 DEF FederateInvariant, Floor
    <2>2. promised'[f] <= date + lookahead
        BY <1>4, <2>1
    <2>3. is_constrained[f] =>
             /\ \A g \in Others(clocks[f], f) : heure_courante[f] <= clocks[f][g]
             /\ \A m \in Elems(tsos[f]) : heure_courante[f] <= m.date
        BY <1>5 DEF FederateInvariant, Queue
    <2> QED
        BY <1>4, <2>1, <2>2, <2>3
<1>9. Strict(f)'
    BY <1>3 DEF Strict
<1> QED
    BY <1>1, <1>6, <1>7, <1>8, <1>9, OnlyActor DEF FederateInvariant

\* The requests to advance keep the invariant.
LEMMA RequestKeeps ==
    ASSUME SafetyInvariant, Disciplined, NEW f \in Federate, NEW date \in Times,
           \/ TimeAdvanceRequest(f, date)
           \/ TimeAdvanceRequestAvailable(f, date)
           \/ NextEventRequest(f, date)
           \/ NextEventRequestAvailable(f, date)
    PROVE  PathInvariant' /\ \A k \in Federate : FederateInvariant(k)'
<1> USE DEF SafetyInvariant
<1>1. /\ date \in Nat /\ heure_courante[f] \in Nat /\ heure_courante[f] \in Times
      /\ lookahead_courant[f] \in Nat /\ Eps \in Nat \ {0} /\ RequestLookahead(f) \in Nat
    BY FederateTypes, TimesAssumption DEF FederateInvariant, Local, RequestLookahead
<1>2. Started(f) /\ RequestAccepted(f, date) /\ Idle(f) /\ heure_courante[f] <= date
    BY DEF TimeAdvanceRequest, TimeAdvanceRequestAvailable, NextEventRequest,
        NextEventRequestAvailable, RequestAccepted, Disciplined
<1>3. /\ lookahead_courant[f] # Eps
      /\ type_granted_state[f] = "AFTER_TAR_OR_NER_WITH_ZERO_LK" => lookahead_courant[f] = 0
    BY <1>2 DEF FederateInvariant, Local
<1>4. /\ Margin(f) \in Nat /\ Margin(f) <= RequestLookahead(f)
      /\ RequestLookahead(f) = Eps <=> GrantedState(f) = "AFTER_TAR_OR_NER_WITH_ZERO_LK"
      /\ GrantedState(f) \in Granted \ {"UNINITIALIZED"}
    BY <1>1, <1>3 DEF Margin, RequestLookahead, GrantedState, Granted
<1>5. CASE TimeAdvanceRequest(f, date)
    <2>1. BeginAdvance(f, "TAR", date, GrantedState(f), RequestLookahead(f))
        BY <1>5 DEF TimeAdvanceRequest
    <2>2. SendNullMessage(f, date, RequestLookahead(f)) \/ UNCHANGED promiseVars
        BY <1>5 DEF TimeAdvanceRequest, SendNullIfRegulating
    <2>3. UNCHANGED <<down, clocks, unsynchronized, commands, is_regulating, phase>>
        BY <2>1 DEF BeginAdvance, roleVars, queueVars, rtigVars
    <2>4. /\ PathInvariant'
          /\ \A k \in Federate \ {f} : promised'[k] = promised[k]
          /\ promised'[f] = promised[f] \/ promised'[f] = date + RequestLookahead(f)
        BY <1>1, <2>2, <2>3, NullKeepsPath
    <2>5. heure_courante[f] + Margin(f) <= date + RequestLookahead(f)
        BY <1>1, <1>2, <1>4
    <2> QED
        BY <1>1, <1>2, <1>4, <2>1, <2>4, <2>5, BeginKeeps
<1>6. CASE TimeAdvanceRequestAvailable(f, date)
    <2>1. BeginAdvance(f, "TARA", date, "AFTER_TARA_OR_NERA", lookahead_courant[f])
        BY <1>6 DEF TimeAdvanceRequestAvailable
    <2>2. SendNullMessage(f, date, lookahead_courant[f]) \/ UNCHANGED promiseVars
        BY <1>6 DEF TimeAdvanceRequestAvailable, SendNullIfRegulating
    <2>3. UNCHANGED <<down, clocks, unsynchronized, commands, is_regulating, phase>>
        BY <2>1 DEF BeginAdvance, roleVars, queueVars, rtigVars
    <2>4. /\ PathInvariant'
          /\ \A k \in Federate \ {f} : promised'[k] = promised[k]
          /\ promised'[f] = promised[f] \/ promised'[f] = date + lookahead_courant[f]
        BY <1>1, <2>2, <2>3, NullKeepsPath
    <2>5. heure_courante[f] + Margin(f) <= date + lookahead_courant[f]
        <3>1. CASE type_granted_state[f] = "AFTER_TAR_OR_NER_WITH_ZERO_LK"
            <4>1. heure_courante[f] < date
                BY <1>6, <3>1 DEF TimeAdvanceRequestAvailable, MayRequestAvailable, Disciplined
            <4> QED
                BY <1>1, <3>1, <4>1, Spacing DEF Margin
        <3>2. CASE type_granted_state[f] # "AFTER_TAR_OR_NER_WITH_ZERO_LK"
            BY <1>1, <1>2, <3>2 DEF Margin
        <3> QED
            BY <3>1, <3>2
    <2>6. "AFTER_TARA_OR_NERA" \in Granted \ {"UNINITIALIZED"}
        BY DEF Granted
    <2> QED
        BY <1>1, <1>2, <1>3, <2>1, <2>4, <2>5, <2>6, BeginKeeps
<1>7. CASE NextEventRequest(f, date)
    <2>1. BeginAdvance(f, "NER", date, GrantedState(f), RequestLookahead(f))
        BY <1>7 DEF NextEventRequest
    <2>2. UNCHANGED promiseVars
        BY <1>7 DEF NextEventRequest
    <2>3. UNCHANGED <<up, promised, down, clocks, unsynchronized, commands, is_regulating, phase>>
        BY <2>1, <2>2 DEF BeginAdvance, roleVars, queueVars, rtigVars, promiseVars
    <2>4. heure_courante[f] + Margin(f) <= date + RequestLookahead(f)
        BY <1>1, <1>2, <1>4
    <2> QED
        BY <1>1, <1>2, <1>4, <2>1, <2>3, <2>4, BeginKeeps, SilenceKeepsPath
<1>8. ~ NextEventRequestAvailable(f, date)
    BY DEF NextEventRequestAvailable, Disciplined
<1> QED
    BY <1>5, <1>6, <1>7, <1>8

-----------------------------------------------------------------------------
(* The changes of role and of lookahead. *)

\* setTimeRegulating keeps the invariant.
LEMMA SetTimeRegulatingKeeps ==
    ASSUME SafetyInvariant, Disciplined, NEW f \in Federate, NEW etat \in BOOLEAN,
           NEW lookahead \in Nat \ {Eps}, etat \/ lookahead = 0,
           SetTimeRegulating(f, etat, lookahead)
    PROVE  PathInvariant' /\ \A k \in Federate : FederateInvariant(k)'
<1> USE DEF SafetyInvariant
<1>1. PICK date : date = heure_courante[f] + lookahead
    OBVIOUS
<1>2. PICK p : p = IF etat THEN date ELSE promised[f]
    OBVIOUS
<1>3. PICK m : m = Msg(IF etat THEN "REGULATOR_ON" ELSE "REGULATOR_OFF", f, date)
    OBVIOUS
<1>4. /\ heure_courante[f] \in Nat /\ promised[f] \in Nat /\ date \in Nat /\ p \in Nat
      /\ horizon[f] \in Nat /\ Eps \in Nat \ {0}
    BY <1>1, <1>2, FederateTypes
<1>5. /\ m \in Message /\ m.fed = f /\ m.date = date
      /\ m.kind = IF etat THEN "REGULATOR_ON" ELSE "REGULATOR_OFF"
    BY <1>3, <1>4, MsgType DEF Msg, Kinds
<1>6. /\ Idle(f) /\ is_regulating[f] # etat
      /\ IF etat THEN phase[f] = "starting" ELSE phase[f] = "started"
    BY DEF SetTimeRegulating, Disciplined, MayEnable, MayDisable, Started
<1>7. /\ up' = [up EXCEPT ![f] = Append(@, m)]
      /\ promised' = [promised EXCEPT ![f] = p]
      /\ is_regulating' = [is_regulating EXCEPT ![f] = etat]
      /\ lookahead_courant' = [lookahead_courant EXCEPT ![f] = lookahead]
      /\ phase' = [phase EXCEPT ![f] = phase[f]] /\ phase' = phase
      /\ UNCHANGED <<avancee_en_cours, date_avancee, type_granted_state, heure_courante,
                     is_constrained, clocks, commands, tsos, unsynchronized, down, horizon>>
    BY <1>1, <1>2, <1>3 DEF SetTimeRegulating, TypeOK, queueVars, rtigVars
<1>8. etat => promised[f] = 0 /\ horizon[f] = 0 /\ type_granted_state[f] = "UNINITIALIZED"
    BY <1>6 DEF FederateInvariant, Local, Started
<1>9. promised[f] <= p
    BY <1>2, <1>4, <1>8
<1>10. PathInvariant'
    <2>1. phase[f] \in {"starting", "synchronizing", "started"}
        BY DEF TypeOK
    <2>2. m.kind \in Promises => m.date <= p
        BY <1>2, <1>4, <1>5 DEF Promises
    <2> QED
        BY <1>4, <1>5, <1>6, <1>7, <1>9, <2>1, <2>2, SpeakKeepsPath
<1>11. \A k \in Federate \ {f} : Same(k)
    BY <1>7 DEF Same, TypeOK
<1>12. /\ is_regulating'[f] = etat /\ lookahead_courant'[f] = lookahead /\ promised'[f] = p
       /\ Idle(f)' /\ EventBase(f)' = heure_courante[f] /\ EventBase(f) = heure_courante[f]
    BY <1>6, <1>7 DEF TypeOK, Idle, EventBase
<1>13. Local(f)'
    <2> QED
        BY <1>6, <1>7, <1>8, <1>12 DEF FederateInvariant, Local, Started
<1>14. Queue(f)'
    BY <1>7 DEF FederateInvariant, Queue
<1>15. Floor(f)'
    <2>1. etat => Margin(f)' = lookahead
        BY <1>7, <1>8, <1>12 DEF Margin
    <2> QED
        BY <1>1, <1>2, <1>4, <1>7, <1>12, <2>1 DEF Floor, Idle
<1>16. Strict(f)'
    BY <1>6, <1>7, <1>12 DEF FederateInvariant, Strict
<1> QED
    BY <1>10, <1>11, <1>13, <1>14, <1>15, <1>16, OnlyActor DEF FederateInvariant

\* setTimeConstrained keeps the invariant.
LEMMA SetTimeConstrainedKeeps ==
    ASSUME SafetyInvariant, Disciplined, NEW f \in Federate, NEW etat \in BOOLEAN,
           SetTimeConstrained(f, etat)
    PROVE  PathInvariant' /\ \A k \in Federate : FederateInvariant(k)'
<1> USE DEF SafetyInvariant
<1>1. PICK m : m = Msg(IF etat THEN "CONSTRAINED_ON" ELSE "CONSTRAINED_OFF", f, 0)
    OBVIOUS
<1>2. /\ m \in Message /\ m.fed = f
      /\ m.kind \in {"CONSTRAINED_ON", "CONSTRAINED_OFF"}
    BY <1>1, MsgType DEF Msg, Kinds
<1>3. /\ Idle(f) /\ is_constrained[f] # etat
      /\ etat => phase[f] = "starting"
    BY DEF SetTimeConstrained, Disciplined, MayEnable
<1>4. /\ up' = [up EXCEPT ![f] = Append(@, m)]
      /\ is_constrained' = [is_constrained EXCEPT ![f] = etat]
      /\ UNCHANGED <<promised, is_regulating, phase, avancee_en_cours, date_avancee, type_granted_state, heure_courante,
                     lookahead_courant, clocks, commands, tsos, unsynchronized, down, horizon>>
    BY <1>1 DEF SetTimeConstrained, TypeOK, advanceVars, queueVars, rtigVars
<1>5. PathInvariant'
    <2>1. /\ promised' = [promised EXCEPT ![f] = promised[f]]
          /\ is_regulating' = [is_regulating EXCEPT ![f] = is_regulating[f]]
          /\ phase' = [phase EXCEPT ![f] = phase[f]]
          /\ UNCHANGED <<down, clocks, unsynchronized, commands>>
          /\ up' = [up EXCEPT ![f] = Append(@, m)]
        BY <1>4 DEF TypeOK
    <2> QED
        BY <1>2, <2>1, RemarkKeepsPath
<1>6. \A k \in Federate \ {f} : Same(k)
    BY <1>4 DEF Same, TypeOK
<1>7. /\ is_constrained'[f] = etat /\ (Idle(f)' <=> Idle(f))
      /\ EventBase(f)' = EventBase(f) /\ Margin(f)' = Margin(f)
    BY <1>4 DEF TypeOK, Idle, EventBase, Margin
<1>8. etat => horizon[f] = 0 /\ type_granted_state[f] = "UNINITIALIZED"
    BY <1>3 DEF FederateInvariant, Local, Started
<1>9. Local(f)'
    BY <1>4, <1>7 DEF FederateInvariant, Local, Started
<1>10. Queue(f)'
    <2>1. /\ \A g \in Others(clocks[f], f) : 0 <= clocks[f][g]
          /\ \A m1 \in Elems(tsos[f]) : 0 <= m1.date
        BY FederateTypes
    <2> QED
        BY <1>4, <1>7, <1>8, <2>1 DEF FederateInvariant, Queue
<1>11. Floor(f)'
    BY <1>3, <1>4, <1>7 DEF FederateInvariant, Floor, Idle
<1>12. Strict(f)'
    BY <1>4, <1>7, <1>8 DEF FederateInvariant, Strict
<1> QED
    BY <1>5, <1>6, <1>9, <1>10, <1>11, <1>12, OnlyActor DEF FederateInvariant

\* setLookahead keeps the invariant: the new promise is within the new margin.
LEMMA SetLookaheadKeeps ==
    ASSUME SafetyInvariant, Disciplined, NEW f \in Federate, NEW lookahead \in Nat \ {Eps},
           SetLookahead(f, lookahead)
    PROVE  PathInvariant' /\ \A k \in Federate : FederateInvariant(k)'
<1> USE DEF SafetyInvariant
<1>1. /\ is_regulating[f] /\ lookahead >= lookahead_courant[f]
      /\ type_granted_state[f] # "AFTER_TAR_OR_NER_WITH_ZERO_LK"
    BY DEF SetLookahead, MaySetLookahead, Disciplined
<1>2. /\ lookahead_courant' = [lookahead_courant EXCEPT ![f] = lookahead]
      /\ UNCHANGED <<avancee_en_cours, date_avancee, type_granted_state, heure_courante,
                     is_regulating, is_constrained, clocks, commands, tsos, unsynchronized,
                     down, phase, horizon>>
    BY DEF SetLookahead, roleVars, queueVars, rtigVars
<1>3. SendNullMessage(f, heure_courante[f], lookahead)
    BY <1>1 DEF SetLookahead, SendNullIfRegulating
<1>4. /\ heure_courante[f] \in Nat /\ promised[f] \in Nat /\ horizon[f] \in Nat
      /\ lookahead_courant[f] \in Nat /\ EventBase(f) \in Nat
      /\ \A g \in Others(clocks[f], f) : clocks[f][g] \in Nat
      /\ \A m \in Elems(tsos[f]) : m.date \in Nat
    BY FederateTypes
<1>5. /\ PathInvariant'
      /\ \A k \in Federate \ {f} : promised'[k] = promised[k]
      /\ promised'[f] \in Nat
      /\ promised'[f] = promised[f] \/ promised'[f] = heure_courante[f] + lookahead
    BY <1>2, <1>3, <1>4, NullKeepsPath
<1>6. \A k \in Federate \ {f} : Same(k)
    BY <1>2, <1>5 DEF Same, TypeOK
<1>7. /\ lookahead_courant'[f] = lookahead /\ (Idle(f)' <=> Idle(f))
      /\ EventBase(f)' = EventBase(f)
      /\ Margin(f)' = lookahead /\ Margin(f) = lookahead_courant[f]
    BY <1>1, <1>2 DEF TypeOK, Idle, EventBase, Margin
<1>8. Local(f)'
    BY <1>1, <1>2, <1>7 DEF FederateInvariant, Local, Started
<1>9. Queue(f)'
    BY <1>2 DEF FederateInvariant, Queue
<1>10. Floor(f)'
    <2>1. /\ heure_courante[f] <= horizon[f] /\ horizon[f] <= EventBase(f)
          /\ is_constrained[f] =>
                /\ \A g \in Others(clocks[f], f) : horizon[f] <= clocks[f][g]
                /\ \A m \in Elems(tsos[f]) : horizon[f] <= m.date
        BY DEF FederateInvariant, Local, Queue
    <2>2. /\ promised[f] <= EventBase(f) + lookahead_courant[f]
          /\ avancee_en_cours[f] = "NER" /\ is_constrained[f] =>
                /\ \A g \in Others(clocks[f], f) : promised[f] <= clocks[f][g] + lookahead_courant[f]
                /\ \A m \in Elems(tsos[f]) : promised[f] <= m.date + lookahead_courant[f]
        BY <1>1, <1>7 DEF FederateInvariant, Floor
    <2>3. promised'[f] <= EventBase(f) + lookahead
        BY <1>1, <1>4, <1>5, <2>1, <2>2
    <2>4. avancee_en_cours[f] = "NER" /\ is_constrained[f] =>
             /\ \A g \in Others(clocks[f], f) : promised'[f] <= clocks[f][g] + lookahead
             /\ \A m \in Elems(tsos[f]) : promised'[f] <= m.date + lookahead
        BY <1>1, <1>4, <1>5, <2>1, <2>2
    <2> QED
        BY <1>2, <1>7, <2>3, <2>4 DEF Floor
<1>11. Strict(f)'
    BY <1>2, <1>7 DEF FederateInvariant, Strict
<1> QED
    BY <1>5, <1>6, <1>8, <1>9, <1>10, <1>11, OnlyActor DEF FederateInvariant

-----------------------------------------------------------------------------
(* The other requests: they change nothing but the stream of f and its phase. *)

\* An event that respects the promises keeps the invariant.
LEMMA SendEventKeeps ==
    ASSUME SafetyInvariant, Disciplined, NEW f \in Federate,
           NEW kind \in {"EVENT", "RECEIVE_ORDER"}, NEW date \in Nat,
           SendEvent(f, kind, date),
           kind = "EVENT" => date \in Times /\ is_regulating[f] /\ promised[f] <= date
    PROVE  PathInvariant' /\ \A k \in Federate : FederateInvariant(k)'
<1> USE DEF SafetyInvariant
<1>1. PICK m : m = [kind |-> kind, fed |-> f, date |-> date, id |-> spent[f] + 1]
    OBVIOUS
<1>2. m \in Message /\ m.fed = f /\ m.kind = kind /\ m.date = date
    BY <1>1 DEF Message, Kinds, TypeOK
<1>3. /\ up' = [up EXCEPT ![f] = Append(@, m)]
      /\ UNCHANGED <<avancee_en_cours, date_avancee, type_granted_state, heure_courante,
                     lookahead_courant, is_regulating, is_constrained, clocks, commands, tsos,
                     unsynchronized, down, phase, promised, horizon>>
    BY <1>1 DEF SendEvent, TypeOK, advanceVars, roleVars, queueVars, rtigVars
<1>4. PathInvariant'
    <2>1. /\ promised' = [promised EXCEPT ![f] = promised[f]]
          /\ is_regulating' = [is_regulating EXCEPT ![f] = is_regulating[f]]
          /\ phase' = [phase EXCEPT ![f] = phase[f]]
          /\ UNCHANGED <<down, clocks, unsynchronized, commands>>
          /\ up' = [up EXCEPT ![f] = Append(@, m)]
        BY <1>3 DEF TypeOK
    <2> QED
        BY <1>2, <2>1, RemarkKeepsPath
<1>5. \A k \in Federate : Same(k)
    BY <1>3 DEF Same
<1> QED
    BY <1>4, <1>5, SameKeeps

\* Achieving the start-up label keeps the invariant.
LEMMA AchievedKeeps ==
    ASSUME SafetyInvariant, NEW f \in Federate, SynchronizationPointAchieved(f)
    PROVE  PathInvariant' /\ \A k \in Federate : FederateInvariant(k)'
<1> USE DEF SafetyInvariant
<1>1. PICK m : m = Msg("ACHIEVED", f, 0)
    OBVIOUS
<1>2. m \in Message /\ m.fed = f /\ m.kind = "ACHIEVED"
    BY <1>1, MsgType DEF Msg, Kinds
<1>3. /\ up' = [up EXCEPT ![f] = Append(@, m)]
      /\ promised' = [promised EXCEPT ![f] = promised[f]]
      /\ is_regulating' = [is_regulating EXCEPT ![f] = is_regulating[f]]
      /\ phase[f] = "starting" /\ phase' = [phase EXCEPT ![f] = "synchronizing"]
      /\ UNCHANGED <<avancee_en_cours, date_avancee, type_granted_state, heure_courante,
                     lookahead_courant, is_regulating, is_constrained, clocks, commands, tsos,
                     unsynchronized, down, promised, horizon>>
    BY <1>1 DEF SynchronizationPointAchieved, TypeOK, advanceVars, roleVars, queueVars, rtigVars
<1>4. PathInvariant'
    <2>1. PICK p \in Nat : p = promised[f] /\ promised[f] <= p
        BY DEF TypeOK
    <2>2. PICK r \in BOOLEAN : r = is_regulating[f]
        BY DEF TypeOK
    <2>3. PICK ph \in {"starting", "synchronizing", "started"} : ph = "synchronizing"
        OBVIOUS
    <2>4. m.kind \notin Promises
        BY <1>2 DEF Promises
    <2>5. /\ promised' = [promised EXCEPT ![f] = p]
          /\ is_regulating' = [is_regulating EXCEPT ![f] = r]
          /\ phase[f] = "starting" /\ phase' = [phase EXCEPT ![f] = ph]
        BY <1>3, <2>1, <2>2, <2>3
    <2>6. r => is_regulating[f]
        BY <2>2
    <2>7. UNCHANGED <<down, clocks, unsynchronized, commands>>
        BY <1>3
    <2>8. up' = [up EXCEPT ![f] = Append(@, m)]
        BY <1>3
    <2> QED
        BY <1>2, <2>1, <2>3, <2>4, <2>5, <2>6, <2>7, <2>8, SpeakKeepsPath
<1>5. \A k \in Federate : Same(k)
    BY <1>3 DEF Same, TypeOK
<1> QED
    BY <1>4, <1>5, SameKeeps

\* Every request of a federate keeps the invariant.
LEMMA RequestsKeep ==
    ASSUME SafetyInvariant, Disciplined, NEW f \in Federate, Request(f)
    PROVE  PathInvariant' /\ \A k \in Federate : FederateInvariant(k)'
<1>0. Times \subseteq Nat /\ 0 \in Nat \ {Eps} /\ Lookaheads \subseteq Nat \ {Eps}
    BY TimesAssumption, LookaheadsAssumption
<1>1. CASE \E lookahead \in Lookaheads : SetTimeRegulating(f, TRUE, lookahead)
    BY <1>0, <1>1, SetTimeRegulatingKeeps
<1>2. CASE SetTimeRegulating(f, FALSE, 0)
    BY <1>0, <1>2, SetTimeRegulatingKeeps
<1>3. CASE \E etat \in BOOLEAN : SetTimeConstrained(f, etat)
    BY <1>3, SetTimeConstrainedKeeps
<1>4. CASE \E lookahead \in Lookaheads : SetLookahead(f, lookahead)
    BY <1>0, <1>4, SetLookaheadKeeps
<1>5. CASE \E date \in Times : \/ TimeAdvanceRequest(f, date)
                               \/ TimeAdvanceRequestAvailable(f, date)
                               \/ NextEventRequest(f, date)
                               \/ NextEventRequestAvailable(f, date)
    BY <1>5, RequestKeeps
<1>6. CASE \E date \in Times : SendDated(f, date) \/ DeleteObject(f, date)
    <2>1. PICK date \in Times : MaySendDated(f) /\ TestValidTime(f, date)
                                /\ SendEvent(f, "EVENT", date)
        BY <1>6 DEF SendDated, DeleteObject, MayDelete, Disciplined
    <2>2. is_regulating[f] /\ promised[f] <= date
        BY <2>1, ValidTimeRespects DEF SafetyInvariant
    <2> QED
        BY <1>0, <2>1, <2>2, SendEventKeeps
<1>7. CASE SendReceiveOrder(f)
    BY <1>7, SendEventKeeps DEF SendReceiveOrder
<1>8. CASE SynchronizationPointAchieved(f)
    BY <1>8, AchievedKeeps
<1> QED
    BY <1>1, <1>2, <1>3, <1>4, <1>5, <1>6, <1>7, <1>8 DEF Request

-----------------------------------------------------------------------------
(* tick. *)

\* Giving a command or a receive order message keeps the invariant.
LEMMA DeliverQueueKeeps ==
    ASSUME SafetyInvariant, NEW f \in Federate, DeliverCommand(f) \/ DeliverFifo(f)
    PROVE  PathInvariant' /\ \A k \in Federate : FederateInvariant(k)'
<1> USE DEF SafetyInvariant
<1>1. CASE DeliverCommand(f)
    <2>1. \A k \in Federate : Same(k)
        BY <1>1 DEF DeliverCommand, Same, TypeOK, advanceVars, roleVars, promiseVars
    <2> QED
        BY <1>1, <2>1, SameKeeps, CommandKeepsPath
<1>2. CASE DeliverFifo(f)
    <2>1. UNCHANGED <<advanceVars, roleVars, clocks, commands, tsos, rtigVars, promiseVars,
                      down, phase, horizon>>
        BY <1>2 DEF DeliverFifo
    <2>2. \A k \in Federate : Same(k)
        BY <2>1 DEF Same, advanceVars, roleVars, promiseVars
    <2>3. PathInvariant'
        BY <2>1, SilenceKeepsPath DEF roleVars, rtigVars, promiseVars
    <2> QED
        BY <2>2, <2>3, SameKeeps
<1> QED
    BY <1>1, <1>2

\* The head of the TSO queue is the earliest of its messages.
LEMMA HeadIsEarliest ==
    ASSUME TypeOK, NEW f \in Federate, Queue(f), tsos[f] # <<>>
    PROVE  /\ Head(tsos[f]) \in Elems(tsos[f])
           /\ Elems(Tail(tsos[f])) \subseteq Elems(tsos[f])
           /\ \A m \in Elems(tsos[f]) : Head(tsos[f]).date <= m.date
           /\ \A i, j \in 1 .. Len(Tail(tsos[f])) :
                 i <= j => Tail(tsos[f])[i].date <= Tail(tsos[f])[j].date
<1>1. tsos[f] \in Seq(Message)
    BY DEF TypeOK
<1>2. PICK s : s = tsos[f]
    OBVIOUS
<1>3. /\ Len(s) \in Nat \ {0} /\ Tail(s) \in Seq(Message)
      /\ Len(Tail(s)) = Len(s) - 1
      /\ Head(s) = s[1] /\ DOMAIN s = 1 .. Len(s)
      /\ \A i \in 1 .. Len(Tail(s)) : Tail(s)[i] = s[i + 1]
    BY <1>1, <1>2, HeadTailProperties, EmptySeq
<1>4. \A i, j \in 1 .. Len(s) : i <= j => s[i].date <= s[j].date
    BY <1>2 DEF Queue
<1>5. Elems(s) = {Head(s)} \cup Elems(Tail(s))
    BY <1>1, <1>2, ElemsTail
<1>6. \A m \in Elems(s) : Head(s).date <= m.date
    BY <1>3, <1>4 DEF Elems
<1>7. \A i, j \in 1 .. Len(Tail(s)) : i <= j => Tail(s)[i].date <= Tail(s)[j].date
    <2> SUFFICES ASSUME NEW i \in 1 .. Len(s) - 1, NEW j \in 1 .. Len(s) - 1, i <= j
                 PROVE  Tail(s)[i].date <= Tail(s)[j].date
        BY <1>3
    <2>1. i + 1 \in 1 .. Len(s) /\ j + 1 \in 1 .. Len(s) /\ i + 1 <= j + 1
        BY <1>3
    <2>2. s[i + 1].date <= s[j + 1].date
        BY <1>4, <2>1
    <2> QED
        BY <1>3, <2>2
<1> QED
    BY <1>2, <1>5, <1>6, <1>7

\* A message given in time stamp order leaves f short of every clock and message.
LEMMA DeliverKeepsQueue ==
    ASSUME TypeOK, NEW f \in Federate, Queue(f), is_constrained[f], tsos[f] # <<>>,
           AtMost(Head(tsos[f]).date, clocks[f], f), DeliverTso(f),
           UNCHANGED <<clocks, is_constrained>>
    PROVE  /\ Queue(f)'
           /\ horizon'[f] = Head(tsos[f]).date
           /\ \A k \in Federate \ {f} : horizon'[k] = horizon[k] /\ tsos'[k] = tsos[k]
           /\ Elems(tsos[f])' \subseteq Elems(tsos[f])
<1>1. PICK h : h = Head(tsos[f])
    OBVIOUS
<1>2. PICK t : t = Tail(tsos[f])
    OBVIOUS
<1>3. /\ h \in Elems(tsos[f]) /\ Elems(t) \subseteq Elems(tsos[f])
      /\ \A m \in Elems(tsos[f]) : h.date <= m.date
      /\ \A i, j \in 1 .. Len(t) : i <= j => t[i].date <= t[j].date
    BY <1>1, <1>2, HeadIsEarliest
<1>4. /\ tsos'[f] = t /\ horizon'[f] = Later(horizon[f], h.date)
      /\ \A k \in Federate \ {f} : horizon'[k] = horizon[k] /\ tsos'[k] = tsos[k]
    BY <1>1, <1>2 DEF DeliverTso, TypeOK
<1>5. horizon[f] \in Nat /\ h.date \in Nat /\ horizon[f] <= h.date
    BY <1>3, FederateTypes DEF Queue
<1>6. horizon'[f] = h.date
    BY <1>4, <1>5 DEF Later
<1>7. \A g \in Others(clocks[f], f) : h.date <= clocks[f][g]
    BY <1>1 DEF AtMost
<1>8. Queue(f)'
    BY <1>3, <1>4, <1>6, <1>7 DEF Queue
<1> QED
    BY <1>1, <1>3, <1>4, <1>6, <1>8

\* A grant, by whichever service: the date is short of the clocks and messages
\* that f knows, strictly when the service is not an "available" one, and the
\* margin over it is enough for what f has promised.
LEMMA GrantKeeps ==
    ASSUME TypeOK, \A k \in Federate : FederateInvariant(k), NEW f \in Federate,
           NEW date \in Times, ~ Idle(f), horizon[f] <= date,
           TimeAdvanceGrant(f, date), TickFrame,
           is_constrained[f] =>
              /\ \A g \in Others(clocks[f], f) : date <= clocks[f][g]
              /\ \A m \in Elems(tsos[f]) : date <= m.date
              /\ avancee_en_cours[f] # "TARA" =>
                    /\ \A g \in Others(clocks[f], f) : date < clocks[f][g]
                    /\ \A m \in Elems(tsos[f]) : date < m.date,
           \A k \in Federate \ {f} :
              promised'[k] = promised[k] /\ date_avancee'[k] = date_avancee[k],
           date_avancee'[f] \in Times,
           is_regulating[f] => promised'[f] <= date + Margin(f)
    PROVE  \A k \in Federate : FederateInvariant(k)'
<1>1. \A k \in Federate \ {f} : Same(k)
    BY DEF Same, TimeAdvanceGrant, TickFrame, roleVars, TypeOK
<1>2. /\ heure_courante'[f] = date /\ avancee_en_cours'[f] = "PAS_D_AVANCEE"
      /\ lookahead_courant'[f] = (IF lookahead_courant[f] = Eps THEN 0 ELSE lookahead_courant[f])
      /\ horizon'[f] = Later(horizon[f], date)
      /\ type_granted_state' = type_granted_state /\ phase' = phase
      /\ is_regulating' = is_regulating /\ is_constrained' = is_constrained
      /\ clocks' = clocks /\ tsos' = tsos
    BY DEF TimeAdvanceGrant, TickFrame, roleVars, TypeOK
<1>3. /\ date \in Nat /\ horizon[f] \in Nat /\ Eps \in Nat \ {0}
    BY FederateTypes, TimesAssumption
<1>4. horizon'[f] = date
    BY <1>2, <1>3 DEF Later
<1>5. Idle(f)' /\ EventBase(f)' = date
    BY <1>2 DEF Idle, EventBase
<1>6. Started(f) /\ Started(f)'
    BY <1>2 DEF FederateInvariant, Local, Started
<1>7. lookahead_courant[f] = Eps <=> type_granted_state[f] = "AFTER_TAR_OR_NER_WITH_ZERO_LK"
    BY DEF FederateInvariant, Local
<1>8. Margin(f)' = Margin(f)
    BY <1>2, <1>7 DEF Margin
<1>9. Local(f)'
    BY <1>2, <1>3, <1>4, <1>5, <1>6, <1>7 DEF Local, Started
<1>10. Queue(f)'
    BY <1>2, <1>4 DEF FederateInvariant, Queue
<1>11. Floor(f)'
    BY <1>2, <1>5, <1>8 DEF Floor
<1>12. Strict(f)'
    <2>1. type_granted_state[f] \in {"AFTER_TAR_OR_NER", "AFTER_TAR_OR_NER_WITH_ZERO_LK"}
             => avancee_en_cours[f] # "TARA"
        BY DEF FederateInvariant, Local
    <2> QED
        BY <1>2, <2>1 DEF Strict
<1> QED
    BY <1>1, <1>9, <1>10, <1>11, <1>12, OnlyActor DEF FederateInvariant

\* timeAdvance keeps the invariant, whether it gives a message or grants.
LEMMA TimeAdvanceKeeps ==
    ASSUME SafetyInvariant, NEW f \in Federate, TimeAdvanceTso(f) \/ TimeAdvanceDone(f)
    PROVE  PathInvariant' /\ \A k \in Federate : FederateInvariant(k)'
<1> USE DEF SafetyInvariant
<1>1. /\ avancee_en_cours[f] \in {"TAR", "TARA"} /\ TickFrame
      /\ UNCHANGED <<date_avancee, promiseVars>>
    BY DEF TimeAdvanceTso, TimeAdvanceDone, Advancing
<1>2. ~ Idle(f) /\ EventBase(f) = date_avancee[f]
    BY <1>1 DEF Idle, EventBase
<1>3. PathInvariant'
    BY <1>1, SilenceKeepsPath DEF TickFrame, roleVars, rtigVars, promiseVars
<1>4. /\ FederateInvariant(f) /\ Queue(f)
      /\ date_avancee[f] \in Times /\ date_avancee[f] \in Nat /\ horizon[f] <= date_avancee[f]
      /\ \A g \in Others(clocks[f], f) : clocks[f][g] \in Nat
      /\ \A m \in Elems(tsos[f]) : m.date \in Nat
    BY <1>2, FederateTypes DEF FederateInvariant, Local
<1>5. CASE TimeAdvanceTso(f)
    <2>1. /\ is_constrained[f] /\ tsos[f] # <<>> /\ Head(tsos[f]).date <= date_avancee[f]
          /\ AtMost(Head(tsos[f]).date, clocks[f], f) /\ DeliverTso(f)
        BY <1>5 DEF TimeAdvanceTso, HasTso
    <2>2. /\ UNCHANGED <<avancee_en_cours, heure_courante, lookahead_courant, date_avancee,
                         type_granted_state, is_regulating, is_constrained, clocks, promised, phase>>
        BY <1>1, <2>1 DEF DeliverTso, TickFrame, roleVars, promiseVars
    <2>3. /\ Queue(f)' /\ horizon'[f] = Head(tsos[f]).date
          /\ \A k \in Federate \ {f} : horizon'[k] = horizon[k] /\ tsos'[k] = tsos[k]
        BY <1>4, <2>1, <2>2, DeliverKeepsQueue
    <2>4. \A k \in Federate \ {f} : Same(k)
        BY <2>2, <2>3 DEF Same
    <2>5. horizon[f] <= Head(tsos[f]).date /\ Head(tsos[f]).date \in Nat /\ horizon[f] \in Nat
          /\ heure_courante[f] \in Nat
        BY <1>4, <2>1, HeadIsEarliest, FederateTypes DEF Queue
    <2>6. (Idle(f)' <=> Idle(f)) /\ EventBase(f)' = EventBase(f) /\ Margin(f)' = Margin(f)
        BY <2>2 DEF Idle, EventBase, Margin
    <2>7. Local(f)'
        BY <1>2, <1>4, <2>1, <2>2, <2>3, <2>5, <2>6 DEF FederateInvariant, Local, Started
    <2>8. Floor(f)'
        BY <1>1, <1>4, <2>2, <2>6 DEF FederateInvariant, Floor
    <2>9. Strict(f)'
        BY <1>2, <2>6 DEF Strict
    <2> QED
        BY <1>3, <2>3, <2>4, <2>7, <2>8, <2>9, OnlyActor DEF FederateInvariant
<1>6. CASE TimeAdvanceDone(f)
    <2>1. TimeAdvanceGrant(f, date_avancee[f])
        BY <1>6 DEF TimeAdvanceDone
    <2>2. ASSUME is_constrained[f]
          PROVE  /\ \A g \in Others(clocks[f], f) : date_avancee[f] <= clocks[f][g]
                 /\ \A m \in Elems(tsos[f]) : date_avancee[f] < m.date
                 /\ avancee_en_cours[f] # "TARA" =>
                       \A g \in Others(clocks[f], f) : date_avancee[f] < clocks[f][g]
        <3>1. LbtsAllows(f, date_avancee[f])
            BY <1>6, <2>2 DEF TimeAdvanceDone
        <3>2. \A g \in Others(clocks[f], f) : date_avancee[f] <= clocks[f][g]
            BY <1>4, <3>1 DEF LbtsAllows, Below, AtMost
        <3>3. avancee_en_cours[f] # "TARA" =>
                 \A g \in Others(clocks[f], f) : date_avancee[f] < clocks[f][g]
            BY <1>1, <3>1 DEF LbtsAllows, Below
        <3>4. ASSUME NEW m \in Elems(tsos[f])
              PROVE  date_avancee[f] < m.date
            <4>1. tsos[f] # <<>>
                BY <3>4 DEF Elems
            <4>2. Head(tsos[f]).date \in Nat /\ Head(tsos[f]).date <= m.date
                BY <1>4, <4>1, HeadIsEarliest
            <4>3. ~ (Head(tsos[f]).date <= date_avancee[f])
                <5>1. SUFFICES ASSUME Head(tsos[f]).date <= date_avancee[f] PROVE FALSE
                    OBVIOUS
                <5>2. AtMost(Head(tsos[f]).date, clocks[f], f)
                    BY <1>4, <3>2, <4>2, <5>1 DEF AtMost
                <5> QED
                    BY <1>6, <2>2, <4>1, <5>1, <5>2 DEF TimeAdvanceDone, HasTso
            <4> QED
                BY <1>4, <4>2, <4>3
        <3> QED
            BY <3>2, <3>3, <3>4
    <2>3. is_regulating[f] => promised'[f] <= date_avancee[f] + Margin(f)
        BY <1>1, <1>2, <1>4 DEF FederateInvariant, Floor, promiseVars
    <2>4. is_constrained[f] =>
              /\ \A g \in Others(clocks[f], f) : date_avancee[f] <= clocks[f][g]
              /\ \A m \in Elems(tsos[f]) : date_avancee[f] <= m.date
              /\ avancee_en_cours[f] # "TARA" =>
                    /\ \A g \in Others(clocks[f], f) : date_avancee[f] < clocks[f][g]
                    /\ \A m \in Elems(tsos[f]) : date_avancee[f] < m.date
        BY <1>4, <2>2
    <2>5. /\ \A k \in Federate \ {f} :
                promised'[k] = promised[k] /\ date_avancee'[k] = date_avancee[k]
          /\ date_avancee'[f] \in Times
        BY <1>1, <1>4 DEF promiseVars
    <2> QED
        BY <1>1, <1>2, <1>3, <1>4, <2>1, <2>3, <2>4, <2>5, GrantKeeps
<1> QED
    BY <1>5, <1>6

\* date_min is the date asked for, or that of the first message when it is earlier.
LEMMA DateMinFacts ==
    ASSUME TypeOK, NEW f \in Federate, Queue(f), date_avancee[f] \in Times
    PROVE  /\ DateMin(f) \in Nat /\ DateMin(f) \in Times /\ DateMin(f) <= date_avancee[f]
           /\ \A m \in Elems(tsos[f]) : DateMin(f) <= m.date
           /\ DateMin(f) = date_avancee[f] \/ \E m \in Elems(tsos[f]) : DateMin(f) = m.date
           /\ HasTso(f, DateMin(f)) => tsos[f] # <<>> /\ Head(tsos[f]).date = DateMin(f)
           /\ ~ HasTso(f, DateMin(f)) => \A m \in Elems(tsos[f]) : DateMin(f) < m.date
<1>1. date_avancee[f] \in Nat /\ \A m \in Elems(tsos[f]) : m.date \in Nat
    BY FederateTypes
<1>2. CASE tsos[f] = <<>>
    <2>1. Elems(tsos[f]) = {}
        BY <1>2 DEF Elems
    <2> QED
        BY <1>1, <1>2, <2>1 DEF DateMin, HasTso
<1>3. CASE tsos[f] # <<>>
    <2>1. PICK h : h = Head(tsos[f])
        OBVIOUS
    <2>2. /\ h \in Elems(tsos[f]) /\ h.date \in Nat /\ h.date \in Times
          /\ \A m \in Elems(tsos[f]) : h.date <= m.date
        BY <1>1, <1>3, <2>1, HeadIsEarliest DEF Queue
    <2>3. DateMin(f) = IF h.date < date_avancee[f] THEN h.date ELSE date_avancee[f]
        BY <1>3, <2>1 DEF DateMin
    <2>4. HasTso(f, DateMin(f)) <=> h.date <= DateMin(f)
        BY <1>3, <2>1 DEF HasTso
    <2>5. CASE h.date < date_avancee[f]
        BY <1>1, <1>3, <2>1, <2>2, <2>3, <2>4, <2>5
    <2>6. CASE ~ (h.date < date_avancee[f])
        BY <1>1, <1>3, <2>1, <2>2, <2>3, <2>4, <2>6
    <2> QED
        BY <2>5, <2>6
<1> QED
    BY <1>2, <1>3

\* nextEventAdvance keeps the invariant, whether it reaches date_min or not.
LEMMA NextEventKeeps ==
    ASSUME SafetyInvariant, NEW f \in Federate,
           NextEventReached(f) \/ NextEventShort(f) \/ NextEventFree(f)
    PROVE  PathInvariant' /\ \A k \in Federate : FederateInvariant(k)'
<1> USE DEF SafetyInvariant
<1>1. avancee_en_cours[f] = "NER" /\ TickFrame
    BY DEF NextEventReached, NextEventShort, NextEventFree, Advancing, FederateInvariant, Local
<1>2. /\ ~ Idle(f) /\ EventBase(f) = date_avancee[f] /\ FederateInvariant(f) /\ Queue(f)
      /\ date_avancee[f] \in Times /\ horizon[f] <= date_avancee[f] /\ Started(f)
      /\ Margin(f) = lookahead_courant[f]
    BY <1>1 DEF Idle, EventBase, FederateInvariant, Local, Margin
<1>3. UNCHANGED <<down, clocks, unsynchronized, commands, is_regulating, is_constrained,
                  type_granted_state, phase>>
    BY <1>1 DEF TickFrame, roleVars, rtigVars
<1>4. PICK dm : dm = DateMin(f)
    OBVIOUS
<1>5. /\ dm \in Nat /\ dm \in Times /\ dm <= date_avancee[f]
      /\ \A m \in Elems(tsos[f]) : dm <= m.date
      /\ dm = date_avancee[f] \/ \E m \in Elems(tsos[f]) : dm = m.date
      /\ HasTso(f, dm) => tsos[f] # <<>> /\ Head(tsos[f]).date = dm
      /\ ~ HasTso(f, dm) => \A m \in Elems(tsos[f]) : dm < m.date
    BY <1>2, <1>4, DateMinFacts
<1>6. /\ date_avancee[f] \in Nat /\ horizon[f] \in Nat /\ heure_courante[f] \in Nat
      /\ lookahead_courant[f] \in Nat /\ promised[f] \in Nat
      /\ \A g \in Others(clocks[f], f) : clocks[f][g] \in Nat
      /\ \A m \in Elems(tsos[f]) : m.date \in Nat
    BY FederateTypes
<1>7. is_constrained[f] =>
         /\ \A g \in Others(clocks[f], f) : horizon[f] <= clocks[f][g]
         /\ \A m \in Elems(tsos[f]) : horizon[f] <= m.date
    BY <1>2 DEF Queue
<1>8. is_regulating[f] =>
         /\ promised[f] <= date_avancee[f] + lookahead_courant[f]
         /\ is_constrained[f] =>
               /\ \A g \in Others(clocks[f], f) : promised[f] <= clocks[f][g] + lookahead_courant[f]
               /\ \A m \in Elems(tsos[f]) : promised[f] <= m.date + lookahead_courant[f]
    BY <1>1, <1>2 DEF FederateInvariant, Floor
<1>9. CASE NextEventReached(f)
    <2>1. /\ is_constrained[f] /\ LbtsAllows(f, dm)
          /\ date_avancee' = [date_avancee EXCEPT ![f] = dm]
          /\ SendNullIfRegulating(f, dm, lookahead_courant[f])
          /\ IF HasTso(f, dm) THEN DeliverTso(f) ELSE TimeAdvanceGrant(f, dm)
        BY <1>4, <1>9 DEF NextEventReached
    <2>2. \A g \in Others(clocks[f], f) : dm < clocks[f][g] /\ dm <= clocks[f][g]
        BY <1>1, <1>5, <1>6, <2>1 DEF LbtsAllows, Below
    <2>3. /\ PathInvariant'
          /\ \A k \in Federate \ {f} : promised'[k] = promised[k]
          /\ promised'[f] \in Nat
          /\ promised'[f] = promised[f] \/ promised'[f] = dm + lookahead_courant[f]
        BY <1>3, <1>5, <1>6, <2>1, NullKeepsPath DEF SendNullIfRegulating
    <2>4. horizon[f] <= dm
        BY <1>2, <1>5, <1>7, <2>1
    <2>5. is_regulating[f] => promised[f] <= dm + lookahead_courant[f]
        BY <1>5, <1>8, <2>1
    <2>6. is_regulating[f] => promised'[f] <= dm + lookahead_courant[f]
        BY <1>5, <1>6, <2>3, <2>5
    <2>7. /\ date_avancee'[f] = dm
          /\ \A k \in Federate \ {f} : date_avancee'[k] = date_avancee[k]
        BY <2>1 DEF TypeOK
    <2>8. CASE ~ HasTso(f, dm)
        <3>1. TimeAdvanceGrant(f, dm)
            BY <2>1, <2>8
        <3>2. /\ \A m \in Elems(tsos[f]) : dm <= m.date /\ dm < m.date
            BY <1>5, <2>8
        <3>3. /\ \A k \in Federate \ {f} :
                    promised'[k] = promised[k] /\ date_avancee'[k] = date_avancee[k]
              /\ date_avancee'[f] \in Times
              /\ is_regulating[f] => promised'[f] <= dm + Margin(f)
            BY <1>2, <1>5, <2>3, <2>6, <2>7
        <3> QED
            BY <1>1, <1>2, <1>5, <2>2, <2>3, <2>4, <3>1, <3>2, <3>3, GrantKeeps
    <2>9. CASE HasTso(f, dm)
        <3>1. DeliverTso(f) /\ tsos[f] # <<>> /\ Head(tsos[f]).date = dm
            BY <1>5, <2>1, <2>9
        <3>2. AtMost(Head(tsos[f]).date, clocks[f], f)
            BY <2>2, <3>1 DEF AtMost
        <3>3. /\ Queue(f)' /\ horizon'[f] = dm /\ Elems(tsos[f])' \subseteq Elems(tsos[f])
              /\ \A k \in Federate \ {f} : horizon'[k] = horizon[k] /\ tsos'[k] = tsos[k]
            BY <1>2, <1>3, <2>1, <3>1, <3>2, DeliverKeepsQueue
        <3>4. UNCHANGED <<avancee_en_cours, heure_courante, lookahead_courant>>
            BY <3>1 DEF DeliverTso
        <3>5. \A k \in Federate \ {f} : Same(k)
            BY <1>3, <2>3, <2>7, <3>3, <3>4 DEF Same
        <3>6. /\ (Idle(f)' <=> Idle(f)) /\ EventBase(f)' = dm
              /\ Margin(f)' = lookahead_courant[f]
            BY <1>2, <1>3, <2>7, <3>4 DEF Idle, EventBase, Margin
        <3>7. heure_courante[f] <= dm
            BY <1>2, <1>5, <1>6, <2>4 DEF FederateInvariant, Local
        <3>8. Local(f)'
            <4>1. Started(f)'
                BY <1>2, <1>3 DEF Started
            <4> QED
                BY <1>2, <1>3, <1>5, <2>7, <3>3, <3>4, <3>6, <3>7, <4>1
                    DEF FederateInvariant, Local, Started
        <3>9. Floor(f)'
            <4>1. is_regulating[f] =>
                     /\ \A g \in Others(clocks[f], f) :
                           promised'[f] <= clocks[f][g] + lookahead_courant[f]
                     /\ \A m \in Elems(tsos[f]) : promised'[f] <= m.date + lookahead_courant[f]
                BY <1>5, <1>6, <2>2, <2>3, <2>6
            <4> QED
                BY <1>3, <2>6, <3>3, <3>6, <4>1 DEF Floor
        <3>10. Strict(f)'
            BY <1>2, <3>6 DEF Strict
        <3> QED
            BY <2>3, <3>3, <3>5, <3>8, <3>9, <3>10, OnlyActor DEF FederateInvariant
    <2> QED
        BY <2>8, <2>9
<1>10. CASE NextEventShort(f)
    <2>1. PICK g \in Others(clocks[f], f) :
             /\ AtMost(clocks[f][g], clocks[f], f)
             /\ SendNullMessage(f, clocks[f][g], lookahead_courant[f])
        BY <1>10 DEF NextEventShort, IsLBTS
    <2>2. /\ is_constrained[f] /\ is_regulating[f] /\ ~ LbtsAllows(f, dm)
          /\ UNCHANGED <<avancee_en_cours, date_avancee, heure_courante, lookahead_courant,
                         tsos, horizon>>
        BY <1>4, <1>10 DEF NextEventShort
    <2>3. PICK h \in Others(clocks[f], f) : ~ (dm < clocks[f][h])
        BY <2>2 DEF LbtsAllows, Below
    <2>4. /\ clocks[f][g] \in Nat /\ clocks[f][g] <= dm
          /\ \A k \in Others(clocks[f], f) : clocks[f][g] <= clocks[f][k]
        BY <1>5, <1>6, <2>1, <2>3 DEF AtMost
    <2>5. /\ PathInvariant'
          /\ \A k \in Federate \ {f} : promised'[k] = promised[k]
          /\ promised'[f] \in Nat
          /\ promised'[f] = promised[f] \/ promised'[f] = clocks[f][g] + lookahead_courant[f]
        BY <1>3, <1>6, <2>1, <2>4, NullKeepsPath
    <2>6. \A k \in Federate \ {f} : Same(k)
        BY <1>3, <2>2, <2>5 DEF Same
    <2>7. (Idle(f)' <=> Idle(f)) /\ EventBase(f)' = EventBase(f) /\ Margin(f)' = Margin(f)
        BY <1>3, <2>2 DEF Idle, EventBase, Margin
    <2>8. Local(f)'
        BY <1>2, <1>3, <2>2, <2>7 DEF FederateInvariant, Local, Started
    <2>9. Queue(f)'
        BY <1>2, <1>3, <2>2 DEF Queue
    <2>10. Floor(f)'
        <3>1. promised'[f] <= date_avancee[f] + lookahead_courant[f]
            BY <1>5, <1>6, <1>8, <2>2, <2>4, <2>5
        <3>2. \A k \in Others(clocks[f], f) : promised'[f] <= clocks[f][k] + lookahead_courant[f]
            BY <1>6, <1>8, <2>2, <2>4, <2>5
        <3>3. \A m \in Elems(tsos[f]) : promised'[f] <= m.date + lookahead_courant[f]
            BY <1>5, <1>6, <1>8, <2>2, <2>4, <2>5
        <3> QED
            BY <1>2, <1>3, <2>2, <2>7, <3>1, <3>2, <3>3 DEF Floor
    <2>11. Strict(f)'
        BY <1>2, <2>7 DEF Strict
    <2> QED
        BY <2>5, <2>6, <2>8, <2>9, <2>10, <2>11, OnlyActor DEF FederateInvariant
<1>11. CASE NextEventFree(f)
    <2>1. /\ ~ is_constrained[f] /\ TimeAdvanceGrant(f, date_avancee[f])
          /\ SendNullIfRegulating(f, date_avancee[f], lookahead_courant[f])
          /\ UNCHANGED date_avancee
        BY <1>11 DEF NextEventFree
    <2>2. /\ PathInvariant'
          /\ \A k \in Federate \ {f} : promised'[k] = promised[k]
          /\ promised'[f] \in Nat
          /\ promised'[f] = promised[f] \/ promised'[f] = date_avancee[f] + lookahead_courant[f]
        BY <1>3, <1>6, <2>1, NullKeepsPath DEF SendNullIfRegulating
    <2>3. is_regulating[f] => promised'[f] <= date_avancee[f] + Margin(f)
        BY <1>2, <1>6, <1>8, <2>2
    <2> QED
        BY <1>1, <1>2, <2>1, <2>2, <2>3, GrantKeeps
<1> QED
    BY <1>9, <1>10, <1>11

-----------------------------------------------------------------------------
(* The RTIA of f processes the head of its stream. *)

\* insertTsoMessage keeps the queue in the order of the dates, and adds m alone.
LEMMA InsertTsoKeeps ==
    ASSUME TypeOK, NEW f \in Federate, NEW m \in Message, InsertTso(f, m), Queue(f)
    PROVE  /\ \A k \in Federate \ {f} : tsos'[k] = tsos[k]
           /\ Elems(tsos'[f]) \subseteq Elems(tsos[f]) \cup {m}
           /\ \A i, j \in 1 .. Len(tsos'[f]) : i <= j => tsos'[f][i].date <= tsos'[f][j].date
<1>1. PICK s : s = tsos[f]
    OBVIOUS
<1>2. s \in Seq(Message) /\ Len(s) \in Nat /\ DOMAIN s = 1 .. Len(s)
    BY <1>1 DEF TypeOK
<1>3. PICK k \in 0 .. Len(s) :
         /\ \A i \in 1 .. k : s[i].date <= m.date
         /\ k < Len(s) => s[k + 1].date > m.date
         /\ tsos' = [tsos EXCEPT ![f] = SubSeq(@, 1, k) \o <<m>> \o SubSeq(@, k + 1, Len(@))]
    BY <1>1 DEF InsertTso
<1>4. PICK t : t = SubSeq(s, 1, k) \o <<m>> \o SubSeq(s, k + 1, Len(s))
    OBVIOUS
<1>5. tsos'[f] = t /\ \A g \in Federate \ {f} : tsos'[g] = tsos[g]
    BY <1>1, <1>3, <1>4 DEF TypeOK
<1>6. /\ Len(t) = Len(s) + 1 /\ DOMAIN t = 1 .. Len(s) + 1
      /\ \A i \in 1 .. k : t[i] = s[i]
      /\ t[k + 1] = m
      /\ \A i \in k + 2 .. Len(s) + 1 : t[i] = s[i - 1]
    <2>1. s \in Seq(Message) /\ m \in Message /\ k \in 0 .. Len(s)
        BY <1>2
    <2>2. t = Inserted(s, k, m)
        BY <1>4 DEF Inserted
    <2>3. HasInserted(t, s, k, m)
        BY <2>1, <2>2, InsertAt, Zenon
    <2> QED
        BY <2>3 DEF HasInserted
<1>7. \A i, j \in 1 .. Len(s) : i <= j => s[i].date <= s[j].date
    BY <1>1 DEF Queue
<1>8. m.date \in Nat /\ \A i \in 1 .. Len(s) : s[i].date \in Nat
    BY <1>2, MessageFields
<1>9. \A i \in k + 1 .. Len(s) : m.date <= s[i].date
    BY <1>2, <1>3, <1>7, <1>8
<1>10. Elems(t) \subseteq Elems(s) \cup {m}
    <2>1. \A i \in 1 .. Len(s) + 1 : t[i] \in Elems(s) \cup {m}
        <3> SUFFICES ASSUME NEW i \in 1 .. Len(s) + 1 PROVE t[i] \in Elems(s) \cup {m}
            OBVIOUS
        <3>1. CASE i \in 1 .. k
            BY <1>2, <1>6, <3>1 DEF Elems
        <3>2. CASE i = k + 1
            BY <1>6, <3>2
        <3>3. CASE i \in k + 2 .. Len(s) + 1
            <4>1. i - 1 \in 1 .. Len(s) /\ t[i] = s[i - 1]
                BY <1>2, <1>6, <3>3
            <4> QED
                BY <1>2, <4>1 DEF Elems
        <3> QED
            BY <1>2, <3>1, <3>2, <3>3
    <2> QED
        BY <1>6, <2>1 DEF Elems
<1>11. \A i, j \in 1 .. Len(t) : i <= j => t[i].date <= t[j].date
    <2> SUFFICES ASSUME NEW i \in 1 .. Len(s) + 1, NEW j \in 1 .. Len(s) + 1, i <= j
                 PROVE  t[i].date <= t[j].date
        BY <1>6
    <2>1. CASE j \in 1 .. k
        <3>1. i \in 1 .. k /\ i \in 1 .. Len(s) /\ j \in 1 .. Len(s)
            BY <1>2, <2>1
        <3> QED
            BY <1>6, <1>7, <2>1, <3>1
    <2>2. CASE j = k + 1
        <3>1. i \in 1 .. k \/ i = k + 1
            BY <1>2, <2>2
        <3> QED
            BY <1>3, <1>6, <1>8, <2>2, <3>1
    <2>3. CASE j \in k + 2 .. Len(s) + 1
        <3>1. t[j] = s[j - 1] /\ j - 1 \in k + 1 .. Len(s) /\ j - 1 \in 1 .. Len(s)
            BY <1>2, <1>6, <2>3
        <3>2. CASE i \in 1 .. k
            <4>1. i \in 1 .. Len(s) /\ i <= j - 1 /\ t[i] = s[i]
                BY <1>2, <1>6, <2>3, <3>2
            <4> QED
                BY <1>7, <3>1, <4>1
        <3>3. CASE i = k + 1
            BY <1>6, <1>9, <3>1, <3>3
        <3>4. CASE i \in k + 2 .. Len(s) + 1
            <4>1. i - 1 \in 1 .. Len(s) /\ i - 1 <= j - 1 /\ t[i] = s[i - 1]
                BY <1>2, <1>6, <2>3, <3>4
            <4> QED
                BY <1>7, <3>1, <4>1
        <3> QED
            BY <1>2, <3>2, <3>3, <3>4
    <2> QED
        BY <1>2, <2>1, <2>2, <2>3
<1> QED
    BY <1>1, <1>5, <1>10, <1>11

\* Clocks that go forward, regulators met before the start, and events no earlier
\* than a clock leave f where it may be.
LEMMA LearningKeeps ==
    ASSUME TypeOK, TypeOK', NEW f \in Federate, FederateInvariant(f),
           UNCHANGED <<avancee_en_cours, date_avancee, type_granted_state, heure_courante,
                       lookahead_courant, is_regulating, is_constrained, promised, phase, horizon>>,
           \A i, j \in 1 .. Len(tsos'[f]) : i <= j => tsos'[f][i].date <= tsos'[f][j].date,
           \A g \in Others(clocks'[f], f) :
              \/ g \in Others(clocks[f], f) /\ clocks[f][g] <= clocks'[f][g]
              \/ ~ Started(f),
           \A m \in Elems(tsos'[f]) :
              \/ m \in Elems(tsos[f])
              \/ /\ m.date \in Times
                 /\ ~ Started(f) \/ \E g \in Others(clocks[f], f) : clocks[f][g] <= m.date
    PROVE  FederateInvariant(f)'
<1>1. (Idle(f)' <=> Idle(f)) /\ EventBase(f)' = EventBase(f) /\ Margin(f)' = Margin(f)
    BY DEF Idle, EventBase, Margin
<1>2. Local(f)'
    BY <1>1 DEF FederateInvariant, Local, Started
<1>3. /\ heure_courante[f] \in Nat /\ promised[f] \in Nat /\ horizon[f] \in Nat
      /\ Margin(f) \in Nat
      /\ \A g \in Others(clocks[f], f) : clocks[f][g] \in Nat
      /\ \A m \in Elems(tsos[f]) : m.date \in Nat
    BY FederateTypes
<1>4. /\ \A g \in Others(clocks'[f], f) : clocks'[f][g] \in Nat
      /\ \A m \in Elems(tsos'[f]) : m.date \in Nat
    <2>1. \A g \in Others(clocks'[f], f) : clocks'[f][g] \in Nat
        BY DEF TypeOK, ClockSet, Others
    <2>2. tsos'[f] \in Seq(Message)
        BY DEF TypeOK
    <2> QED
        BY <2>1, <2>2, ElemsType, MessageFields
<1>5. ~ Started(f) => Idle(f) /\ horizon[f] = 0 /\ type_granted_state[f] = "UNINITIALIZED"
    BY DEF FederateInvariant, Local
<1>6. Queue(f)'
    <2>1. \A m \in Elems(tsos'[f]) : m.date \in Times
        BY DEF FederateInvariant, Queue
    <2>2. ASSUME is_constrained[f]
          PROVE  /\ \A g \in Others(clocks'[f], f) : horizon[f] <= clocks'[f][g]
                 /\ \A m \in Elems(tsos'[f]) : horizon[f] <= m.date
        <3>1. /\ \A g \in Others(clocks[f], f) : horizon[f] <= clocks[f][g]
              /\ \A m \in Elems(tsos[f]) : horizon[f] <= m.date
            BY <2>2 DEF FederateInvariant, Queue
        <3> QED
            BY <1>3, <1>4, <1>5, <3>1
    <2> QED
        BY <2>1, <2>2 DEF Queue
<1>7. Floor(f)'
    <2> SUFFICES ASSUME is_regulating[f]
                 PROVE  /\ promised[f] <= EventBase(f) + Margin(f)
                        /\ avancee_en_cours[f] = "NER" /\ is_constrained[f] =>
                              /\ \A g \in Others(clocks'[f], f) :
                                    promised[f] <= clocks'[f][g] + Margin(f)
                              /\ \A m \in Elems(tsos'[f]) : promised[f] <= m.date + Margin(f)
        BY <1>1 DEF Floor
    <2>1. /\ promised[f] <= EventBase(f) + Margin(f)
          /\ avancee_en_cours[f] = "NER" /\ is_constrained[f] =>
                /\ \A g \in Others(clocks[f], f) : promised[f] <= clocks[f][g] + Margin(f)
                /\ \A m \in Elems(tsos[f]) : promised[f] <= m.date + Margin(f)
        BY DEF FederateInvariant, Floor
    <2>2. avancee_en_cours[f] = "NER" => Started(f)
        BY <1>5 DEF Idle
    <2> QED
        BY <1>3, <1>4, <2>1, <2>2
<1>8. Strict(f)'
    <2> SUFFICES ASSUME is_constrained[f], Idle(f),
                        type_granted_state[f] \in
                           {"AFTER_TAR_OR_NER", "AFTER_TAR_OR_NER_WITH_ZERO_LK"}
                 PROVE  /\ \A g \in Others(clocks'[f], f) : heure_courante[f] < clocks'[f][g]
                        /\ \A m \in Elems(tsos'[f]) : heure_courante[f] < m.date
        BY <1>1 DEF Strict
    <2>1. Started(f)
        BY <1>5
    <2>2. /\ \A g \in Others(clocks[f], f) : heure_courante[f] < clocks[f][g]
          /\ \A m \in Elems(tsos[f]) : heure_courante[f] < m.date
        BY DEF FederateInvariant, Strict
    <2> QED
        BY <1>3, <1>4, <2>1, <2>2
<1> QED
    BY <1>2, <1>6, <1>7, <1>8 DEF FederateInvariant

\* processNetworkMessage keeps the invariant.
LEMMA ProcessKeeps ==
    ASSUME SafetyInvariant, NEW f \in Federate, ProcessNetworkMessage(f)
    PROVE  PathInvariant' /\ \A k \in Federate : FederateInvariant(k)'
<1> USE DEF SafetyInvariant
<1>1. PICK h : h = Head(down[f])
    OBVIOUS
<1>2. PICK kinds : Receives(f, kinds)
    BY DEF ProcessNetworkMessage, ReceiveClock, ReceiveCommand, ReceiveEvent
<1>3. /\ down[f] # <<>>
      /\ UNCHANGED <<avancee_en_cours, date_avancee, type_granted_state, heure_courante,
                     lookahead_courant, is_regulating, is_constrained, promised, phase, horizon>>
    BY <1>2 DEF Receives, advanceVars, roleVars, promiseVars
<1>4. /\ h \in Elems(down[f]) /\ h \in Message /\ h.fed \in Federate /\ h.date \in Nat
    BY <1>1, <1>3, StreamTypes, ElemsTail, MessageFields
<1>5. TypeOK' /\ PathInvariant'
    BY ProcessType, ReceiveKeepsPath
<1>6. FederateInvariant(f) /\ Queue(f) /\ \A g \in DOMAIN clocks[f] : clocks[f][g] \in Nat
    BY DEF FederateInvariant, TypeOK, ClockSet
<1>7. CASE ReceiveClock(f)
    <2>1. /\ UNCHANGED tsos
          /\ \A k \in Federate \ {f} : clocks'[k] = clocks[k]
          /\ \/ h.kind = "NULL" /\ clocks'[f] = Update(clocks[f], h.fed, h.date)
             \/ h.kind = "REGULATOR_ON" /\ clocks'[f] = Insert(clocks[f], h.fed, h.date)
             \/ h.kind = "REGULATOR_OFF" /\ clocks'[f] = Remove(clocks[f], h.fed)
        BY <1>1, <1>7 DEF ReceiveClock, Receives, TypeOK, queueVars
    <2>2. \A k \in Federate \ {f} : Same(k)
        BY <1>3, <2>1 DEF Same
    <2>3. h.kind = "REGULATOR_ON" => ~ Started(f)
        BY <1>4 DEF PathInvariant, StartupHolds, Synced, Started
    <2>4. \A g \in Others(clocks'[f], f) :
             \/ g \in Others(clocks[f], f) /\ clocks[f][g] <= clocks'[f][g]
             \/ ~ Started(f)
        BY <1>4, <1>6, <2>1, <2>3 DEF Others, Update, Remove
    <2>5. \A i, j \in 1 .. Len(tsos'[f]) : i <= j => tsos'[f][i].date <= tsos'[f][j].date
        BY <1>6, <2>1 DEF Queue
    <2>6. FederateInvariant(f)'
        BY <1>3, <1>5, <1>6, <2>1, <2>4, <2>5, LearningKeeps
    <2> QED
        BY <1>5, <2>2, <2>6, OnlyActor
<1>8. CASE ReceiveCommand(f) \/ (ReceiveEvent(f) /\ UNCHANGED tsos)
    <2>1. UNCHANGED <<clocks, tsos>>
        BY <1>8 DEF ReceiveCommand, ReceiveEvent
    <2>2. \A k \in Federate : Same(k)
        BY <1>3, <2>1 DEF Same
    <2> QED
        BY <1>5, <2>2, SameKeeps
<1>9. CASE ReceiveEvent(f) /\ h.kind = "EVENT" /\ InsertTso(f, h)
    <2>1. UNCHANGED clocks
        BY <1>9 DEF ReceiveEvent
    <2>2. /\ \A k \in Federate \ {f} : tsos'[k] = tsos[k]
          /\ Elems(tsos'[f]) \subseteq Elems(tsos[f]) \cup {h}
          /\ \A i, j \in 1 .. Len(tsos'[f]) : i <= j => tsos'[f][i].date <= tsos'[f][j].date
        BY <1>4, <1>6, <1>9, InsertTsoKeeps
    <2>3. \A k \in Federate \ {f} : Same(k)
        BY <1>3, <2>1, <2>2 DEF Same
    <2>4. h.date \in Times /\ h.fed # f
        BY <1>4, <1>9 DEF PathInvariant, MessagesHold, Genuine
    <2>5. Started(f) => \E g \in Others(clocks[f], f) : clocks[f][g] <= h.date
        <3>1. h \in Path(f, h.fed)
            BY <1>4 DEF Path
        <3> QED
            BY <1>4, <1>9, <2>4, <3>1, StartedKnows DEF Others
    <2>6. \A g \in Others(clocks'[f], f) : g \in Others(clocks[f], f) /\ clocks[f][g] <= clocks'[f][g]
        BY <1>6, <2>1 DEF Others
    <2>7. FederateInvariant(f)'
        BY <1>3, <1>5, <1>6, <2>2, <2>4, <2>5, <2>6, LearningKeeps
    <2> QED
        BY <1>5, <2>3, <2>7, OnlyActor
<1> QED
    BY <1>1, <1>7, <1>8, <1>9 DEF ProcessNetworkMessage, ReceiveEvent, Receives

-----------------------------------------------------------------------------
(* The RTIG: no federate sees a difference until its RTIA reads its stream. *)

\* The steps of the RTIG keep the invariant.
LEMMA RtigKeeps ==
    ASSUME SafetyInvariant, NEW g \in Federate, Rtig(g)
    PROVE  PathInvariant' /\ \A k \in Federate : FederateInvariant(k)'
<1> USE DEF SafetyInvariant
<1>1. PICK h : h = Head(up[g])
    OBVIOUS
<1>2. PICK kind : Takes(g, kind)
    BY DEF Rtig, UpdateRegulator, AddRegulator, RemoveRegulator, SetConstrained, Broadcast,
        UnregisterSynchronization
<1>3. /\ up[g] # <<>> /\ up' = [up EXCEPT ![g] = Tail(@)]
      /\ UNCHANGED <<avancee_en_cours, date_avancee, type_granted_state, heure_courante,
                     lookahead_courant, is_regulating, is_constrained, clocks, commands, tsos,
                     promised, phase, horizon>>
    BY <1>2 DEF Takes, advanceVars, roleVars, queueVars
<1>4. \A k \in Federate : FederateInvariant(k)'
    <2>1. \A k \in Federate : Same(k)
        BY <1>3 DEF Same
    <2> QED
        BY <2>1, SameKeeps
<1>5. h \in Message /\ h.date \in Nat
    BY <1>1, <1>3, HeadTailType, MessageFields DEF TypeOK
<1>6. ASSUME UNCHANGED unsynchronized, DOMAIN down' = Federate,
             \A f \in Federate : Gains(f, h),
             h.kind = "REGULATOR_ON" => \A f \in Federate : h \in Elems(down'[f]),
             h.kind \in {"NULL", "EVENT"} => down'[g] = down[g],
             h.kind \notin {"ACHIEVED", "SYNCHRONIZED"}
      PROVE  PathInvariant'
    BY <1>1, <1>3, <1>6, RelayKeepsPath
<1>7. CASE UpdateRegulator(g) \/ Broadcast(g)
    <2>1. /\ h.kind \in {"NULL", "EVENT", "RECEIVE_ORDER"} /\ UNCHANGED unsynchronized
          /\ down' = [f \in Federate |-> IF f = g THEN down[f] ELSE Append(down[f], h)]
        BY <1>1, <1>7 DEF UpdateRegulator, Broadcast, Takes, RespondToOthers, rtigVars
    <2>2. /\ DOMAIN down' = Federate /\ down'[g] = down[g]
          /\ \A f \in Federate : down'[f] = down[f] \/ down'[f] = Append(down[f], h)
        BY <2>1
    <2>3. \A f \in Federate : Gains(f, h)
        BY <2>2 DEF Gains
    <2> QED
        BY <1>4, <1>6, <2>1, <2>2, <2>3
<1>8. CASE AddRegulator(g)
    <2>1. PICK e : e = Msg("REGULATION_ENABLED", g, h.date)
        OBVIOUS
    <2>2. e \in Message /\ Inert(e)
        BY <1>5, <2>1, MsgType DEF Kinds, Msg, Inert
    <2>3. /\ h.kind = "REGULATOR_ON" /\ UNCHANGED unsynchronized
          /\ down' = [f \in Federate |-> IF f = g THEN down[f] \o <<h, e>>
                                                  ELSE Append(down[f], h)]
        BY <1>1, <1>8, <2>1 DEF AddRegulator, Takes
    <2>4. \A f \in Federate : /\ down[f] \in Seq(Message)
                              /\ Append(down[f], h) \in Seq(Message)
        BY <1>5 DEF TypeOK
    <2>5. down[g] \o <<h, e>> = Append(Append(down[g], h), e)
        BY <1>5, <2>2, <2>4
    <2>6. /\ DOMAIN down' = Federate
          /\ \A f \in Federate : \/ down'[f] = Append(down[f], h)
                                 \/ down'[f] = Append(Append(down[f], h), e)
        BY <2>3, <2>5
    <2>7. \A f \in Federate : Gains(f, h)
        BY <2>2, <2>6 DEF Gains
    <2>8. ASSUME NEW f \in Federate
          PROVE  h \in Elems(down'[f])
        <3>1. Elems(Append(down[f], h)) = Elems(down[f]) \cup {h}
            BY <2>4, ElemsAppend
        <3>2. Elems(Append(Append(down[f], h), e)) = Elems(Append(down[f], h)) \cup {e}
            BY <2>4, ElemsAppend
        <3> QED
            BY <2>6, <3>1, <3>2
    <2> QED
        BY <1>4, <1>6, <2>3, <2>6, <2>7, <2>8
<1>9. CASE RemoveRegulator(g)
    <2>1. /\ h.kind = "REGULATOR_OFF" /\ UNCHANGED unsynchronized
          /\ down' = [f \in Federate |-> Append(down[f], h)]
        BY <1>1, <1>9 DEF RemoveRegulator, Takes, RespondToAll
    <2>2. DOMAIN down' = Federate /\ \A f \in Federate : down'[f] = Append(down[f], h)
        BY <2>1
    <2>3. \A f \in Federate : Gains(f, h)
        BY <2>2 DEF Gains
    <2> QED
        BY <1>4, <1>6, <2>1, <2>2, <2>3
<1>10. CASE SetConstrained(g)
    <2>1. PICK e : e = Msg("CONSTRAINED_ENABLED", g, 0)
        OBVIOUS
    <2>2. e \in Message /\ Inert(e)
        BY <2>1, MsgType DEF Kinds, Msg, Inert
    <2>3. /\ h.kind \in {"CONSTRAINED_ON", "CONSTRAINED_OFF"} /\ UNCHANGED unsynchronized
          /\ UNCHANGED down \/ down' = [down EXCEPT ![g] = Append(@, e)]
        BY <1>1, <1>10, <2>1 DEF SetConstrained, Takes, rtigVars
    <2>4. /\ DOMAIN down' = Federate
          /\ \A f \in Federate : down'[f] = down[f] \/ down'[f] = Append(down[f], e)
        BY <2>3 DEF TypeOK
    <2>5. \A f \in Federate : Gains(f, h)
        BY <2>2, <2>4 DEF Gains
    <2> QED
        BY <1>4, <1>6, <2>3, <2>4, <2>5
<1>11. CASE UnregisterSynchronization(g)
    BY <1>4, <1>11, SynchronizeKeepsPath
<1> QED
    BY <1>7, <1>8, <1>9, <1>10, <1>11 DEF Rtig

-----------------------------------------------------------------------------
(* The invariant is inductive. *)

\* The invariant holds before anything happens.
LEMMA InitSafe == Init => SafetyInvariant
<1> SUFFICES ASSUME Init PROVE SafetyInvariant
    OBVIOUS
<1>1. TypeOK
    BY DEF Init, TypeOK, ClockSet, NoClock, Granted
<1>2. \A f \in Federate : /\ up[f] = <<>> /\ down[f] = <<>> /\ tsos[f] = <<>>
                          /\ commands[f] = <<>> /\ clocks[f] = NoClock
    BY DEF Init
<1>3. /\ \A f \in Federate : /\ Elems(up[f]) = {} /\ Elems(down[f]) = {}
                             /\ Elems(tsos[f]) = {} /\ Elems(commands[f]) = {}
                             /\ DOMAIN clocks[f] = {} /\ Others(clocks[f], f) = {}
      /\ \A f \in Federate : InOrder(up[f]) /\ InOrder(down[f])
      /\ \A f \in Federate : Len(tsos[f]) = 0
    BY <1>2 DEF Elems, InOrder, NoClock, Others
<1>4. PathInvariant
    <2>1. \A f \in Federate : phase[f] = "starting" /\ ~ is_regulating[f] /\ f \in unsynchronized
        BY DEF Init
    <2>2. \A f, g \in Federate : Path(f, g) = {}
        BY <1>3 DEF Path
    <2>3. Ordered /\ MessagesHold
        BY <1>3 DEF Ordered, MessagesHold
    <2>4. StartupHolds
        BY <1>3, <2>1 DEF StartupHolds, Synced
    <2> QED
        BY <1>3, <2>1, <2>2, <2>3, <2>4 DEF PathInvariant, ClocksHold, Known
<1>5. ASSUME NEW f \in Federate
      PROVE  FederateInvariant(f)
    <2>1. /\ avancee_en_cours[f] = "PAS_D_AVANCEE" /\ date_avancee[f] = 0
          /\ heure_courante[f] = 0 /\ horizon[f] = 0 /\ lookahead_courant[f] = 0
          /\ type_granted_state[f] = "UNINITIALIZED" /\ promised[f] = 0
          /\ ~ is_regulating[f] /\ ~ is_constrained[f]
        BY DEF Init
    <2>2. Local(f)
        BY <2>1, TimesAssumption DEF Local, Idle, EventBase, Started
    <2>3. Queue(f)
        BY <1>3, <2>1 DEF Queue
    <2> QED
        BY <2>1, <2>2, <2>3 DEF FederateInvariant, Floor, Strict
<1> QED
    BY <1>1, <1>4, <1>5 DEF SafetyInvariant

\* Every step of disciplined federates, their RTIAs and the RTIG keeps it.
LEMMA StepSafe ==
    ASSUME Disciplined
    PROVE  SafetyInvariant /\ [Next]_vars => SafetyInvariant'
<1> SUFFICES ASSUME SafetyInvariant, [Next]_vars
             PROVE  PathInvariant' /\ \A k \in Federate : FederateInvariant(k)'
    BY TypeStep DEF SafetyInvariant
<1>1. CASE UNCHANGED vars
    <2>1. \A k \in Federate : Same(k)
        BY <1>1 DEF Same, vars, advanceVars, roleVars, queueVars, promiseVars
    <2>2. PathInvariant'
        BY <1>1, SilenceKeepsPath DEF SafetyInvariant, vars, roleVars, queueVars, rtigVars, promiseVars
    <2> QED
        BY <2>1, <2>2, SameKeeps DEF SafetyInvariant
<1>2. ASSUME NEW f \in Federate, Tick(f)
      PROVE  PathInvariant' /\ \A k \in Federate : FederateInvariant(k)'
    BY <1>2, DeliverQueueKeeps, TimeAdvanceKeeps, NextEventKeeps DEF Tick
<1> QED
    BY <1>1, <1>2, RequestsKeep, RtigKeeps, ProcessKeeps DEF Next

\* Disciplined federates keep the federation safe: every path keeps its order and
\* its promises, and no federate is past what its RTIA knows.
THEOREM SafetyInvariantHolds ==
    ASSUME Disciplined
    PROVE  Spec => []SafetyInvariant
BY InitSafe, StepSafe, PTL DEF Spec

-----------------------------------------------------------------------------
(* What the invariant gives. *)

\* An event in flight towards f is on a path to f from another federate.
LEMMA InFlightOnPath ==
    ASSUME SafetyInvariant, NEW f \in Federate, NEW m \in InFlight(f)
    PROVE  m.kind = "EVENT" /\ m.fed \in Federate \ {f} /\ m \in Path(f, m.fed) /\ m.date \in Nat
<1> USE DEF SafetyInvariant
<1>1. CASE m \in Events(down[f])
    <2>1. m \in Elems(down[f]) /\ m.kind = "EVENT"
        BY <1>1 DEF Events, Elems
    <2>2. m.fed # f
        BY <2>1 DEF PathInvariant, MessagesHold
    <2> QED
        BY <2>1, <2>2, StreamTypes, MessageFields DEF Path
<1>2. ASSUME NEW g \in Federate \ {f}, m \in Events(up[g])
      PROVE  m.kind = "EVENT" /\ m.fed = g /\ m \in Path(f, g) /\ m.date \in Nat
    <2>1. m \in Elems(up[g]) /\ m.kind = "EVENT"
        BY <1>2 DEF Events, Elems
    <2>2. m.fed = g
        BY <2>1 DEF PathInvariant, MessagesHold
    <2> QED
        BY <2>1, <2>2, StreamTypes, MessageFields DEF Path
<1> QED
    BY <1>1, <1>2 DEF InFlight

\* The invariant has no message in the past: before the start nothing was granted,
\* and after it the clocks are between the horizon and the events in flight.
LEMMA NoneInThePast == SafetyInvariant => NoMessageInThePast
<1> SUFFICES ASSUME SafetyInvariant, NEW f \in Federate, is_constrained[f], NEW m \in Pending(f)
             PROVE  horizon[f] <= m.date
    BY DEF NoMessageInThePast
<1> USE DEF SafetyInvariant
<1>1. /\ FederateInvariant(f) /\ horizon[f] \in Nat
      /\ \A g \in Others(clocks[f], f) : clocks[f][g] \in Nat
    BY FederateTypes
<1>2. CASE m \in Events(tsos[f])
    <2>1. m \in Elems(tsos[f])
        BY <1>2 DEF Events, Elems
    <2> QED
        BY <1>1, <2>1 DEF FederateInvariant, Queue
<1>3. CASE m \in InFlight(f)
    <2>1. m.kind = "EVENT" /\ m.fed \in Federate \ {f} /\ m \in Path(f, m.fed) /\ m.date \in Nat
        BY <1>3, InFlightOnPath
    <2>2. CASE Started(f)
        <3>1. m.fed \in DOMAIN clocks[f] /\ clocks[f][m.fed] <= m.date
            BY <2>1, <2>2, StartedKnows
        <3>2. m.fed \in Others(clocks[f], f)
            BY <2>1, <3>1 DEF Others
        <3>3. horizon[f] <= clocks[f][m.fed]
            BY <1>1, <3>2 DEF FederateInvariant, Queue
        <3> QED
            BY <1>1, <2>1, <3>1, <3>2, <3>3
    <2>3. CASE ~ Started(f)
        BY <1>1, <2>1, <2>3 DEF FederateInvariant, Local
    <2> QED
        BY <2>2, <2>3
<1> QED
    BY <1>2, <1>3 DEF Pending

\* The same strictly, after a strict grant.
LEMMA GrantsFinal == SafetyInvariant => GrantIsFinal
<1> SUFFICES ASSUME SafetyInvariant, NEW f \in Federate, is_constrained[f], Idle(f),
                    type_granted_state[f] \in {"AFTER_TAR_OR_NER", "AFTER_TAR_OR_NER_WITH_ZERO_LK"},
                    NEW m \in Pending(f)
             PROVE  heure_courante[f] < m.date
    BY DEF GrantIsFinal
<1> USE DEF SafetyInvariant
<1>1. /\ FederateInvariant(f) /\ heure_courante[f] \in Nat
      /\ \A g \in Others(clocks[f], f) : clocks[f][g] \in Nat
    BY FederateTypes
<1>2. /\ Started(f)
      /\ \A g \in Others(clocks[f], f) : heure_courante[f] < clocks[f][g]
      /\ \A e \in Elems(tsos[f]) : heure_courante[f] < e.date
    BY <1>1 DEF FederateInvariant, Local, Strict
<1>3. CASE m \in Events(tsos[f])
    <2>1. m \in Elems(tsos[f])
        BY <1>3 DEF Events, Elems
    <2> QED
        BY <1>2, <2>1
<1>4. CASE m \in InFlight(f)
    <2>1. m.kind = "EVENT" /\ m.fed \in Federate \ {f} /\ m \in Path(f, m.fed) /\ m.date \in Nat
        BY <1>4, InFlightOnPath
    <2>2. m.fed \in DOMAIN clocks[f] /\ clocks[f][m.fed] <= m.date
        BY <1>2, <2>1, StartedKnows
    <2>3. m.fed \in Others(clocks[f], f)
        BY <2>1, <2>2 DEF Others
    <2> QED
        BY <1>1, <1>2, <2>1, <2>2, <2>3
<1> QED
    BY <1>3, <1>4 DEF Pending

\* The clocks bound the events in flight.
LEMMA ClocksBelow == SafetyInvariant => ClocksAreLowerBounds
<1> SUFFICES ASSUME SafetyInvariant, NEW f \in Federate, NEW g \in Others(clocks[f], f),
                    NEW m \in InFlight(f), m.fed = g
             PROVE  clocks[f][g] <= m.date
    BY DEF ClocksAreLowerBounds
<1>1. m.kind = "EVENT" /\ m \in Path(f, g)
    BY InFlightOnPath
<1> QED
    BY <1>1 DEF SafetyInvariant, PathInvariant, ClocksHold, Others

\* A constrained federate never meets an event earlier than a date it was granted
\* or than an event it was given, whatever the number of federates, their
\* lookaheads and the dates they ask for.
THEOREM NothingArrivesInThePast ==
    ASSUME Disciplined
    PROVE  Spec => []NoMessageInThePast
BY SafetyInvariantHolds, NoneInThePast, PTL

\* After timeAdvanceRequest or nextEventRequest no event of the granted date is
\* still to come.
THEOREM GrantsAreFinal ==
    ASSUME Disciplined
    PROVE  Spec => []GrantIsFinal
BY SafetyInvariantHolds, GrantsFinal, PTL

\* The clock that an RTIA has for a regulator is a lower bound of the events of
\* that regulator still on their way to it.
THEOREM ClocksBoundEvents ==
    ASSUME Disciplined
    PROVE  Spec => []ClocksAreLowerBounds
BY SafetyInvariantHolds, ClocksBelow, PTL

-----------------------------------------------------------------------------
(* The action properties. *)

\* What a message at the end of a stream adds to its events.
LEMMA EventsAppend ==
    ASSUME NEW S, NEW s \in Seq(S), NEW m
    PROVE  \A e \in Events(Append(s, m)) \ Events(s) : e = m /\ m.kind = "EVENT"
<1>1. Elems(Append(s, m)) = Elems(s) \cup {m}
    BY ElemsAppend
<1> QED
    BY <1>1 DEF Events, Elems

\* Taking a message from a stream adds no event to it.
LEMMA EventsTail ==
    ASSUME NEW S, NEW s \in Seq(S), s # <<>>
    PROVE  Events(Tail(s)) \subseteq Events(s)
<1>1. Elems(Tail(s)) \subseteq Elems(s)
    BY ElemsTail
<1> QED
    BY <1>1 DEF Events, Elems

\* What a step may put on the stream of a federate.
Extends(g) ==
    \/ up'[g] = up[g]
    \/ up[g] # <<>> /\ up'[g] = Tail(up[g])
    \/ \E m \in Message : /\ up'[g] = Append(up[g], m)
                          /\ m.kind = "EVENT" => promised[g] <= m.date

\* A step adds at most one message to a stream, and no event earlier than promised.
LEMMA StepExtends ==
    ASSUME SafetyInvariant, Disciplined, Next, NEW g \in Federate
    PROVE  Extends(g)
<1> USE DEF SafetyInvariant
<1>1. PICK f \in Federate : Request(f) \/ Tick(f) \/ Rtig(f) \/ ProcessNetworkMessage(f)
    BY DEF Next
<1>2. ASSUME UNCHANGED up PROVE Extends(g)
    BY <1>2 DEF Extends
<1>3. ASSUME NEW m \in Message, up' = [up EXCEPT ![f] = Append(@, m)],
             m.kind = "EVENT" => promised[f] <= m.date
      PROVE  Extends(g)
    <2>1. CASE g = f
        <3>1. up'[g] = Append(up[g], m)
            BY <1>3, <2>1 DEF TypeOK
        <3> QED
            BY <1>3, <2>1, <3>1 DEF Extends
    <2>2. CASE g # f
        BY <1>3, <2>2 DEF Extends, TypeOK
    <2> QED
        BY <2>1, <2>2
<1>4. ASSUME NEW kind \in Kinds \ {"EVENT"}, NEW date \in Nat,
             up' = [up EXCEPT ![f] = Append(@, Msg(kind, f, date))]
      PROVE  Extends(g)
    <2>1. Msg(kind, f, date) \in Message /\ Msg(kind, f, date).kind # "EVENT"
        BY MsgType DEF Msg
    <2> QED
        BY <1>3, <1>4, <2>1
<1>5. ASSUME NEW date \in Nat, NEW lookahead \in Nat, SendNullIfRegulating(f, date, lookahead)
      PROVE  Extends(g)
    <2>1. date + lookahead \in Nat /\ "NULL" \in Kinds \ {"EVENT"}
        BY DEF Kinds
    <2> QED
        BY <1>2, <1>4, <1>5, <2>1 DEF SendNullIfRegulating, SendNullMessage, promiseVars
<1>6. /\ Times \subseteq Nat /\ Lookaheads \subseteq Nat /\ lookahead_courant[f] \in Nat
      /\ heure_courante[f] \in Nat /\ date_avancee[f] \in Nat /\ DateMin(f) \in Nat
      /\ RequestLookahead(f) \in Nat
      /\ \A k \in Others(clocks[f], f) : clocks[f][k] \in Nat
    BY TimesAssumption, LookaheadsAssumption, FederateTypes, DateMinType DEF RequestLookahead
<1> HIDE DEF SafetyInvariant
<1>7. spent[f] + 1 \in Nat
    <2>1. spent[f] \in Nat
        BY DEF SafetyInvariant, TypeOK
    <2> QED
        BY <2>1
<1>8. CASE Request(f)
    <2>1. CASE \/ \E lookahead \in Lookaheads : SetTimeRegulating(f, TRUE, lookahead)
               \/ SetTimeRegulating(f, FALSE, 0)
        <3>1. PICK etat \in BOOLEAN, lookahead \in Nat : SetTimeRegulating(f, etat, lookahead)
            BY <1>6, <2>1
        <3>2. /\ (IF etat THEN "REGULATOR_ON" ELSE "REGULATOR_OFF") \in Kinds \ {"EVENT"}
              /\ heure_courante[f] + lookahead \in Nat
            BY <1>6 DEF Kinds
        <3> QED
            BY <1>4, <3>1, <3>2 DEF SetTimeRegulating
    <2>2. CASE \E etat \in BOOLEAN : SetTimeConstrained(f, etat)
        <3>1. PICK etat \in BOOLEAN : SetTimeConstrained(f, etat)
            BY <2>2
        <3>2. (IF etat THEN "CONSTRAINED_ON" ELSE "CONSTRAINED_OFF") \in Kinds \ {"EVENT"}
            BY DEF Kinds
        <3> QED
            BY <1>4, <3>1, <3>2 DEF SetTimeConstrained
    <2>3. CASE \/ \E lookahead \in Lookaheads : SetLookahead(f, lookahead)
               \/ \E date \in Times : TimeAdvanceRequest(f, date)
               \/ \E date \in Times : TimeAdvanceRequestAvailable(f, date)
        BY <1>5, <1>6, <2>3 DEF SetLookahead, TimeAdvanceRequest, TimeAdvanceRequestAvailable
    <2>4. CASE \/ \E date \in Times : NextEventRequest(f, date)
               \/ \E date \in Times : NextEventRequestAvailable(f, date)
        BY <1>2, <2>4 DEF NextEventRequest, NextEventRequestAvailable, promiseVars
    <2>5. CASE \/ \E date \in Times : SendDated(f, date)
               \/ \E date \in Times : DeleteObject(f, date)
        <3>1. PICK date \in Times : /\ MaySendDated(f) /\ TestValidTime(f, date)
                                    /\ SendEvent(f, "EVENT", date)
            BY <2>5 DEF SendDated, DeleteObject, MayDelete, Disciplined
        <3>2. promised[f] <= date
            BY <3>1, ValidTimeRespects DEF SafetyInvariant
        <3>3. PICK m : m = [kind |-> "EVENT", fed |-> f, date |-> date, id |-> spent[f] + 1]
            OBVIOUS
        <3>4. m \in Message /\ m.date = date
            BY <1>6, <1>7, <3>3 DEF Message, Kinds
        <3>5. up' = [up EXCEPT ![f] = Append(@, m)]
            BY <3>1, <3>3 DEF SendEvent
        <3> QED
            BY <1>3, <3>2, <3>4, <3>5
    <2>6. CASE SendReceiveOrder(f)
        <3>1. PICK m : m = [kind |-> "RECEIVE_ORDER", fed |-> f, date |-> 0, id |-> spent[f] + 1]
            OBVIOUS
        <3>2. m \in Message /\ m.kind # "EVENT"
            BY <1>7, <3>1 DEF Message, Kinds
        <3>3. up' = [up EXCEPT ![f] = Append(@, m)]
            BY <2>6, <3>1 DEF SendReceiveOrder, SendEvent
        <3> QED
            BY <1>3, <3>2, <3>3
    <2>7. CASE SynchronizationPointAchieved(f)
        BY <1>4, <2>7 DEF SynchronizationPointAchieved, Kinds
    <2> QED
        BY <1>8, <2>1, <2>2, <2>3, <2>4, <2>5, <2>6, <2>7 DEF Request
<1>9. CASE Tick(f)
    <2>1. CASE \/ DeliverCommand(f) \/ DeliverFifo(f) \/ TimeAdvanceTso(f) \/ TimeAdvanceDone(f)
        BY <1>2, <2>1 DEF DeliverCommand, DeliverFifo, TimeAdvanceTso, TimeAdvanceDone, promiseVars
    <2>2. CASE NextEventReached(f) \/ NextEventFree(f)
        BY <1>5, <1>6, <2>2 DEF NextEventReached, NextEventFree
    <2>3. CASE NextEventShort(f)
        <3>1. PICK k \in Others(clocks[f], f) :
                 SendNullIfRegulating(f, clocks[f][k], lookahead_courant[f])
            BY <2>3 DEF NextEventShort, SendNullIfRegulating
        <3> QED
            BY <1>5, <1>6, <3>1
    <2> QED
        BY <1>9, <2>1, <2>2, <2>3 DEF Tick
<1>10. CASE Rtig(f)
    <2>1. up[f] # <<>> /\ up' = [up EXCEPT ![f] = Tail(@)]
        BY <1>10 DEF Rtig, UpdateRegulator, AddRegulator, RemoveRegulator, SetConstrained,
            Broadcast, UnregisterSynchronization, Takes
    <2> QED
        BY <2>1 DEF Extends, SafetyInvariant, TypeOK
<1>11. CASE ProcessNetworkMessage(f)
    BY <1>2, <1>11 DEF ProcessNetworkMessage, ReceiveClock, ReceiveCommand, ReceiveEvent,
        Receives, promiseVars
<1> QED
    BY <1>1, <1>8, <1>9, <1>10, <1>11

\* No federate sends an event earlier than what it has promised: testValidTime
\* and the NULL messages agree, whatever mixture of services it calls.
THEOREM PromisesAreKept ==
    ASSUME Disciplined
    PROVE  Spec => KeepsPromise
<1>1. SafetyInvariant /\ [Next]_vars =>
         [\A g \in Federate : \A m \in Events(up'[g]) \ Events(up[g]) : promised[g] <= m.date]_vars
    <2> SUFFICES ASSUME SafetyInvariant, Next, NEW g \in Federate,
                        NEW m \in Events(up'[g]) \ Events(up[g])
                 PROVE  promised[g] <= m.date
        OBVIOUS
    <2>1. up[g] \in Seq(Message)
        BY DEF SafetyInvariant, TypeOK
    <2>2. Extends(g)
        BY StepExtends
    <2>3. CASE up[g] # <<>> /\ up'[g] = Tail(up[g])
        BY <2>1, <2>3, EventsTail
    <2>4. ASSUME NEW a \in Message, up'[g] = Append(up[g], a),
                 a.kind = "EVENT" => promised[g] <= a.date
          PROVE  promised[g] <= m.date
        <3>1. m = a /\ a.kind = "EVENT"
            BY <2>1, <2>4, EventsAppend
        <3> QED
            BY <2>4, <3>1
    <2> QED
        BY <2>2, <2>3, <2>4 DEF Extends
<1> QED
    BY <1>1, SafetyInvariantHolds, PTL DEF Spec, KeepsPromise

\* No step takes back a date granted to a federate, or given with an event.
LEMMA HorizonGrows ==
    ASSUME TypeOK, Next, NEW f \in Federate
    PROVE  horizon[f] <= horizon'[f]
<1>1. PICK g \in Federate : Request(g) \/ Tick(g) \/ Rtig(g) \/ ProcessNetworkMessage(g)
    BY DEF Next
<1>2. horizon[f] \in Nat /\ date_avancee[g] \in Nat /\ DateMin(g) \in Nat
    BY FederateTypes, DateMinType
<1>3. ASSUME UNCHANGED horizon PROVE horizon[f] <= horizon'[f]
    BY <1>2, <1>3
<1>4. ASSUME NEW date \in Nat, horizon' = [horizon EXCEPT ![g] = Later(@, date)]
      PROVE  horizon[f] <= horizon'[f]
    <2>1. \/ horizon'[f] = horizon[f]
          \/ horizon'[f] = Later(horizon[f], date)
        BY <1>4 DEF TypeOK
    <2> QED
        BY <1>2, <2>1 DEF Later
<1>5. ASSUME tsos[g] # <<>> PROVE Head(tsos[g]).date \in Nat
    <2>1. tsos[g] \in Seq(Message)
        BY DEF TypeOK
    <2> QED
        BY <1>5, <2>1, HeadTailType, MessageFields
<1>6. CASE Request(g)
    BY <1>3, <1>6 DEF Request, SetTimeRegulating, SetTimeConstrained, SetLookahead,
        TimeAdvanceRequest, TimeAdvanceRequestAvailable, NextEventRequest,
        NextEventRequestAvailable, BeginAdvance, SendDated, DeleteObject, SendReceiveOrder,
        SendEvent, SynchronizationPointAchieved
<1>7. CASE Tick(g)
    <2>1. CASE DeliverCommand(g) \/ DeliverFifo(g) \/ NextEventShort(g)
        BY <1>3, <2>1 DEF DeliverCommand, DeliverFifo, NextEventShort
    <2>2. CASE tsos[g] # <<>> /\ DeliverTso(g)
        BY <1>4, <1>5, <2>2 DEF DeliverTso
    <2>3. CASE TimeAdvanceGrant(g, date_avancee[g]) \/ TimeAdvanceGrant(g, DateMin(g))
        BY <1>2, <1>4, <2>3 DEF TimeAdvanceGrant
    <2> QED
        BY <1>7, <2>1, <2>2, <2>3 DEF Tick, TimeAdvanceTso, TimeAdvanceDone, NextEventReached,
            NextEventFree, HasTso
<1>8. CASE Rtig(g)
    BY <1>3, <1>8 DEF Rtig, UpdateRegulator, AddRegulator, RemoveRegulator, SetConstrained,
        Broadcast, UnregisterSynchronization, Takes
<1>9. CASE ProcessNetworkMessage(g)
    BY <1>3, <1>9 DEF ProcessNetworkMessage, ReceiveClock, ReceiveCommand, ReceiveEvent, Receives
<1> QED
    BY <1>1, <1>6, <1>7, <1>8, <1>9

\* A grant is never to a date before one already granted or delivered: what
\* nextEventRequestAvailable breaks holds of the three other services.
THEOREM GrantsGoForward ==
    ASSUME Disciplined
    PROVE  Spec => TimeGoesForward
<1>1. SafetyInvariant /\ SafetyInvariant' /\ [Next]_vars =>
         [\A f \in Federate : (avancee_en_cours'[f] = "PAS_D_AVANCEE" /\ ~ Idle(f))
                                 => horizon[f] <= heure_courante'[f]]_vars
    <2> SUFFICES ASSUME SafetyInvariant, SafetyInvariant', Next, NEW f \in Federate,
                        avancee_en_cours'[f] = "PAS_D_AVANCEE"
                 PROVE  horizon[f] <= heure_courante'[f]
        OBVIOUS
    <2>1. horizon[f] <= horizon'[f]
        BY HorizonGrows DEF SafetyInvariant
    <2>2. horizon'[f] <= heure_courante'[f]
        BY DEF SafetyInvariant, FederateInvariant, Local, EventBase, Idle
    <2>3. horizon[f] \in Nat /\ horizon'[f] \in Nat /\ heure_courante'[f] \in Nat
        BY DEF SafetyInvariant, TypeOK
    <2> QED
        BY <2>1, <2>2, <2>3
<1> QED
    BY <1>1, SafetyInvariantHolds, PTL DEF Spec, TimeGoesForward
=============================================================================
