----------------------- MODULE TimeManagement_proofs ------------------------
(*****************************************************************************)
(* Theorems about TimeManagement, for every set of federates, dates,         *)
(* lookaheads and services: its variables keep their types, an advance is    *)
(* announced by a NULL message, and the paths of TimeInvariant, with one     *)
(* lemma for each of the ways a step changes the streams (a federate speaks, *)
(* the RTIG relays, the start-up label is achieved, an RTIA receives, a      *)
(* command is given to a federate).                                          *)
(*****************************************************************************)
EXTENDS TimeInvariant, SequenceTheorems, TLAPS

-----------------------------------------------------------------------------
(* Helpers on messages, sequences and clock sets. *)

\* Msg builds messages.
LEMMA MsgType ==
    ASSUME NEW kind \in Kinds, NEW g \in Federate, NEW date \in Nat
    PROVE  Msg(kind, g, date) \in Message
BY DEF Msg, Message

\* The head and the tail of a non-empty queue of messages are messages.
LEMMA HeadTailType ==
    ASSUME NEW S, NEW s \in Seq(S), s # <<>>
    PROVE  Head(s) \in S /\ Tail(s) \in Seq(S)
BY HeadTailProperties

\* The operations of the class LBTS keep a clock set a clock set.
LEMMA ClockSetOps ==
    ASSUME NEW c, ClockSet(c), NEW g \in Federate, NEW date \in Nat
    PROVE  /\ ClockSet(Insert(c, g, date))
           /\ ClockSet(Update(c, g, date))
           /\ ClockSet(Remove(c, g))
BY DEF ClockSet, Insert, Update, Remove

-----------------------------------------------------------------------------
(* Type correctness. *)

\* A NULL message is well typed and so is what sendNullMessage remembers of it.
LEMMA NullType ==
    ASSUME TypeOK, NEW f \in Federate, NEW date \in Nat, NEW lookahead \in Nat,
           SendNullMessage(f, date, lookahead) \/ UNCHANGED promiseVars
    PROVE  /\ up' \in [Federate -> Seq(Message)]
           /\ lastNullMessageDate' \in [Federate -> Nat]
           /\ promised' \in [Federate -> Nat]
<1> DEFINE promise == date + lookahead
           m == Msg("NULL", f, promise)
<1>1. promise \in Nat
    OBVIOUS
<1>2. m \in Message
    BY <1>1, MsgType DEF Kinds
<1>3. CASE UNCHANGED promiseVars
    BY <1>3 DEF TypeOK, promiseVars
<1>4. CASE /\ up' = [up EXCEPT ![f] = Append(@, m)]
           /\ lastNullMessageDate' = [lastNullMessageDate EXCEPT ![f] = promise]
           /\ promised' = [promised EXCEPT ![f] = Later(@, promise)]
    <2> HIDE DEF m, promise
    <2> QED BY <1>1, <1>2, <1>4, SMTT(30) DEF TypeOK, Later
<1> QED
    BY <1>3, <1>4 DEF SendNullMessage

\* setTimeRegulating keeps the types.
LEMMA SetTimeRegulatingType ==
    ASSUME TypeOK, NEW f \in Federate, NEW etat \in BOOLEAN, NEW lookahead \in Nat,
           SetTimeRegulating(f, etat, lookahead)
    PROVE  TypeOK'
<1> DEFINE m == Msg(IF etat THEN "REGULATOR_ON" ELSE "REGULATOR_OFF", f, heure_courante[f] + lookahead)
<1>1. m \in Message
    BY MsgType DEF Kinds, TypeOK
<1> HIDE DEF m
<1>2. up' = [up EXCEPT ![f] = Append(@, m)]
    BY DEF SetTimeRegulating, m
<1>3. up' \in [Federate -> Seq(Message)]
    BY <1>1, <1>2 DEF TypeOK
<1>4. is_regulating' \in [Federate -> BOOLEAN]
    <2>1. is_regulating' = [is_regulating EXCEPT ![f] = etat]
        BY DEF SetTimeRegulating
    <2> QED
        BY <2>1 DEF TypeOK
<1>5. lookahead_courant' \in [Federate -> Nat]
    <2>1. lookahead_courant' = [lookahead_courant EXCEPT ![f] = lookahead]
        BY DEF SetTimeRegulating
    <2> QED
        BY <2>1 DEF TypeOK
<1>6. spent' \in [Federate -> Nat]
    <2>1. PICK cost \in Nat : spent' = [spent EXCEPT ![f] = @ + cost]
        BY DEF SetTimeRegulating, Spend
    <2> QED
        BY <2>1 DEF TypeOK
<1>7. promised' \in [Federate -> Nat]
    <2>1. PICK d \in Nat : promised' = [promised EXCEPT ![f] = d]
        <3>1. heure_courante[f] + lookahead \in Nat /\ promised[f] \in Nat
            BY DEF TypeOK
        <3> QED
            BY <3>1 DEF SetTimeRegulating
    <2> QED
        BY <2>1 DEF TypeOK
<1> QED
    BY <1>3, <1>4, <1>5, <1>6, <1>7 DEF SetTimeRegulating, TypeOK, queueVars, rtigVars

\* setTimeConstrained keeps the types.
LEMMA SetTimeConstrainedType ==
    ASSUME TypeOK, NEW f \in Federate, NEW etat \in BOOLEAN, SetTimeConstrained(f, etat)
    PROVE  TypeOK'
<1> DEFINE m == Msg(IF etat THEN "CONSTRAINED_ON" ELSE "CONSTRAINED_OFF", f, 0)
<1>1. m \in Message
    BY MsgType DEF Kinds, TypeOK
<1> HIDE DEF m
<1>2. up' = [up EXCEPT ![f] = Append(@, m)]
    BY DEF SetTimeConstrained, m
<1>3. up' \in [Federate -> Seq(Message)]
    BY <1>1, <1>2 DEF TypeOK
<1>4. /\ is_constrained' \in [Federate -> BOOLEAN]
      /\ spent' \in [Federate -> Nat]
    BY DEF SetTimeConstrained, TypeOK, Spend
<1> QED
    BY <1>3, <1>4 DEF SetTimeConstrained, TypeOK, queueVars, rtigVars, advanceVars

\* setLookahead keeps the types.
LEMMA SetLookaheadType ==
    ASSUME TypeOK, NEW f \in Federate, NEW lookahead \in Nat, SetLookahead(f, lookahead)
    PROVE  TypeOK'
<1>1. /\ up' \in [Federate -> Seq(Message)]
      /\ lastNullMessageDate' \in [Federate -> Nat]
      /\ promised' \in [Federate -> Nat]
    BY NullType DEF SetLookahead, SendNullIfRegulating, TypeOK
<1>2. lookahead_courant' \in [Federate -> Nat]
    BY DEF SetLookahead, TypeOK
<1> QED
    BY <1>1, <1>2 DEF SetLookahead, TypeOK, roleVars, queueVars, rtigVars

\* The four requests to advance.
LEMMA RequestType ==
    ASSUME TypeOK, NEW f \in Federate, NEW date \in Nat,
           \/ TimeAdvanceRequest(f, date)
           \/ TimeAdvanceRequestAvailable(f, date)
           \/ NextEventRequest(f, date)
           \/ NextEventRequestAvailable(f, date)
    PROVE  TypeOK'
<1>1. RequestLookahead(f) \in Nat /\ lookahead_courant[f] \in Nat
    BY TimesAssumption DEF RequestLookahead, TypeOK
<1>2. /\ up' \in [Federate -> Seq(Message)]
      /\ lastNullMessageDate' \in [Federate -> Nat]
      /\ promised' \in [Federate -> Nat]
    BY <1>1, NullType DEF TimeAdvanceRequest, TimeAdvanceRequestAvailable,
        NextEventRequest, NextEventRequestAvailable, SendNullIfRegulating
<1>3. PICK kind \in {"TAR", "TARA", "NER", "NERA"}, granted \in Granted, lookahead \in Nat :
         BeginAdvance(f, kind, date, granted, lookahead)
    BY <1>1 DEF TimeAdvanceRequest, TimeAdvanceRequestAvailable,
        NextEventRequest, NextEventRequestAvailable, GrantedState, Granted
<1> QED
    BY <1>2, <1>3 DEF BeginAdvance, TypeOK, roleVars, queueVars, rtigVars

\* Sending an event keeps the types.
LEMMA SendEventType ==
    ASSUME TypeOK, NEW f \in Federate, NEW kind \in Kinds, NEW date \in Nat,
           SendEvent(f, kind, date)
    PROVE  TypeOK'
<1> DEFINE m == [kind |-> kind, fed |-> f, date |-> date, id |-> spent[f] + 1]
<1>1. m \in Message
    BY DEF Message, TypeOK
<1> HIDE DEF m
<1>2. up' = [up EXCEPT ![f] = Append(@, m)]
    BY DEF SendEvent, m
<1>3. up' \in [Federate -> Seq(Message)]
    BY <1>1, <1>2 DEF TypeOK
<1>4. spent' \in [Federate -> Nat]
    BY DEF SendEvent, TypeOK
<1> QED
    BY <1>3, <1>4 DEF SendEvent, TypeOK, advanceVars, roleVars, queueVars, rtigVars

\* Achieving the start-up label keeps the types.
LEMMA AchievedType ==
    ASSUME TypeOK, NEW f \in Federate, SynchronizationPointAchieved(f)
    PROVE  TypeOK'
<1>1. Msg("ACHIEVED", f, 0) \in Message
    BY MsgType DEF Kinds
<1>2. up' \in [Federate -> Seq(Message)]
    BY <1>1 DEF SynchronizationPointAchieved, TypeOK
<1>3. phase' \in [Federate -> {"starting", "synchronizing", "started"}]
    BY DEF SynchronizationPointAchieved, TypeOK
<1> QED
    BY <1>2, <1>3 DEF SynchronizationPointAchieved, TypeOK, advanceVars, roleVars, queueVars, rtigVars

\* Giving a command or a receive order message keeps the types.
LEMMA DeliverQueueType ==
    ASSUME TypeOK, NEW f \in Federate, DeliverCommand(f) \/ DeliverFifo(f)
    PROVE  TypeOK'
<1>1. CASE DeliverCommand(f)
    <2>1. Tail(commands[f]) \in Seq(Message)
        BY <1>1, HeadTailType DEF DeliverCommand, TypeOK
    <2>2. commands' \in [Federate -> Seq(Message)]
        BY <1>1, <2>1 DEF DeliverCommand, TypeOK
    <2>3. phase' \in [Federate -> {"starting", "synchronizing", "started"}]
        BY <1>1 DEF DeliverCommand, TypeOK
    <2> QED
        BY <1>1, <2>2, <2>3 DEF DeliverCommand, TypeOK, advanceVars, roleVars, rtigVars,
            promiseVars
<1>2. CASE DeliverFifo(f)
    <2>1. Tail(fifos[f]) \in Seq(Message)
        BY <1>2, HeadTailType DEF DeliverFifo, TypeOK
    <2>2. fifos' \in [Federate -> Seq(Message)]
        BY <1>2, <2>1 DEF DeliverFifo, TypeOK
    <2> QED
        BY <1>2, <2>2 DEF DeliverFifo, TypeOK, advanceVars, roleVars, rtigVars, promiseVars
<1> QED
    BY <1>1, <1>2

\* The part of the state that a delivery or a grant changes.
LEMMA DeliverOrGrantType ==
    ASSUME TypeOK, NEW f \in Federate, NEW date \in Nat,
           \/ tsos[f] # <<>> /\ DeliverTso(f)
           \/ TimeAdvanceGrant(f, date)
    PROVE  /\ tsos' \in [Federate -> Seq(Message)]
           /\ horizon' \in [Federate -> Nat]
           /\ avancee_en_cours' \in [Federate -> {"PAS_D_AVANCEE", "TAR", "TARA", "NER", "NERA"}]
           /\ heure_courante' \in [Federate -> Nat]
           /\ lookahead_courant' \in [Federate -> Nat]
<1>1. CASE tsos[f] # <<>> /\ DeliverTso(f)
    <2>1. Tail(tsos[f]) \in Seq(Message) /\ Head(tsos[f]) \in Message
        BY <1>1, HeadTailType DEF TypeOK
    <2>2. Head(tsos[f]).date \in Nat
        BY <2>1 DEF Message
    <2> QED
        BY <1>1, <2>1, <2>2 DEF DeliverTso, TypeOK, Later
<1>2. CASE TimeAdvanceGrant(f, date)
    BY <1>2 DEF TimeAdvanceGrant, TypeOK, Later
<1> QED
    BY <1>1, <1>2

\* date_min is a date.
LEMMA DateMinType ==
    ASSUME TypeOK, NEW f \in Federate
    PROVE  DateMin(f) \in Nat
<1>1. tsos[f] # <<>> => Head(tsos[f]) \in Message
    BY HeadTailType DEF TypeOK
<1>2. tsos[f] # <<>> => Head(tsos[f]).date \in Nat
    BY <1>1 DEF Message
<1> QED
    BY <1>2 DEF DateMin, TypeOK

\* timeAdvance keeps the types.
LEMMA TimeAdvanceType ==
    ASSUME TypeOK, NEW f \in Federate, TimeAdvanceTso(f) \/ TimeAdvanceDone(f)
    PROVE  TypeOK'
<1>1. date_avancee[f] \in Nat
    BY DEF TypeOK
<1>2. \/ tsos[f] # <<>> /\ DeliverTso(f)
      \/ TimeAdvanceGrant(f, date_avancee[f])
    BY DEF TimeAdvanceTso, TimeAdvanceDone, HasTso
<1>3. /\ UNCHANGED <<date_avancee, promiseVars>>
      /\ TickFrame
    BY DEF TimeAdvanceTso, TimeAdvanceDone
<1> QED
    BY <1>1, <1>2, <1>3, DeliverOrGrantType DEF TypeOK, TickFrame, promiseVars, roleVars, rtigVars

\* nextEventAdvance keeps the types.
LEMMA NextEventType ==
    ASSUME TypeOK, NEW f \in Federate,
           NextEventReached(f) \/ NextEventShort(f) \/ NextEventFree(f)
    PROVE  TypeOK'
<1>1. /\ DateMin(f) \in Nat /\ date_avancee[f] \in Nat /\ lookahead_courant[f] \in Nat
      /\ \A g \in Others(clocks[f], f) : clocks[f][g] \in Nat
    BY DateMinType DEF TypeOK, ClockSet, Others
<1>2. TickFrame
    BY DEF NextEventReached, NextEventShort, NextEventFree
<1>3. CASE NextEventReached(f)
    <2>1. /\ up' \in [Federate -> Seq(Message)]
          /\ lastNullMessageDate' \in [Federate -> Nat]
          /\ promised' \in [Federate -> Nat]
        BY <1>1, <1>3, NullType DEF NextEventReached, SendNullIfRegulating
    <2>2. \/ tsos[f] # <<>> /\ DeliverTso(f)
          \/ TimeAdvanceGrant(f, DateMin(f))
        BY <1>3 DEF NextEventReached, HasTso
    <2>3. date_avancee' \in [Federate -> Nat]
        BY <1>1, <1>3 DEF NextEventReached, TypeOK
    <2> QED
        BY <1>1, <1>2, <2>1, <2>2, <2>3, DeliverOrGrantType DEF TypeOK, TickFrame, roleVars, rtigVars
<1>4. CASE NextEventShort(f)
    <2>1. /\ up' \in [Federate -> Seq(Message)]
          /\ lastNullMessageDate' \in [Federate -> Nat]
          /\ promised' \in [Federate -> Nat]
        BY <1>1, <1>4, NullType DEF NextEventShort
    <2> QED
        BY <1>2, <1>4, <2>1 DEF NextEventShort, TypeOK, TickFrame, roleVars, rtigVars
<1>5. CASE NextEventFree(f)
    <2>1. /\ up' \in [Federate -> Seq(Message)]
          /\ lastNullMessageDate' \in [Federate -> Nat]
          /\ promised' \in [Federate -> Nat]
        BY <1>1, <1>5, NullType DEF NextEventFree, SendNullIfRegulating
    <2>2. TimeAdvanceGrant(f, date_avancee[f])
        BY <1>5 DEF NextEventFree
    <2>3. UNCHANGED date_avancee
        BY <1>5 DEF NextEventFree
    <2> QED
        BY <1>1, <1>2, <2>1, <2>2, <2>3, DeliverOrGrantType DEF TypeOK, TickFrame, roleVars, rtigVars
<1> QED
    BY <1>3, <1>4, <1>5

\* The steps of the RTIG keep the types.
LEMMA RtigType ==
    ASSUME TypeOK, NEW g \in Federate, Rtig(g)
    PROVE  TypeOK'
<1> DEFINE m == Head(up[g])
<1>1. PICK kind : Takes(g, kind)
    BY DEF Rtig, UpdateRegulator, AddRegulator, RemoveRegulator, SetConstrained, Broadcast,
        UnregisterSynchronization
<1>2. m \in Message /\ Tail(up[g]) \in Seq(Message)
    BY <1>1, HeadTailType DEF Takes, TypeOK
<1>3. m.date \in Nat
    BY <1>2 DEF Message
<1>4. up' \in [Federate -> Seq(Message)]
    BY <1>1, <1>2 DEF Takes, TypeOK
<1>5. /\ Msg("REGULATION_ENABLED", g, m.date) \in Message
      /\ Msg("CONSTRAINED_ENABLED", g, 0) \in Message
      /\ Msg("SYNCHRONIZED", g, 0) \in Message
    BY <1>3, MsgType DEF Kinds
<1> HIDE DEF m
<1>6. /\ ClockSet(my_regulators')
      /\ unsynchronized' \subseteq Federate
    <2>1. ClockSet(my_regulators)
        BY DEF TypeOK
    <2>2. \/ my_regulators' = my_regulators
          \/ my_regulators' = Update(my_regulators, g, m.date)
          \/ my_regulators' = Insert(my_regulators, g, m.date)
          \/ my_regulators' = Remove(my_regulators, g)
        BY DEF Rtig, UpdateRegulator, AddRegulator, RemoveRegulator, SetConstrained,
            Broadcast, UnregisterSynchronization, rtigVars, m
    <2>3. ClockSet(my_regulators')
        BY <1>3, <2>1, <2>2, ClockSetOps
    <2>4. unsynchronized' \subseteq unsynchronized
        BY DEF Rtig, UpdateRegulator, AddRegulator, RemoveRegulator, SetConstrained,
            Broadcast, UnregisterSynchronization, rtigVars
    <2> QED
        BY <2>3, <2>4 DEF TypeOK
<1>7. down' \in [Federate -> Seq(Message)]
    <2>1. \A n \in Message : \A f \in Federate : Append(down[f], n) \in Seq(Message)
        BY DEF TypeOK
    <2>2. CASE \E n \in Message : RespondToAll(n) \/ RespondToOthers(g, n)
        <3>1. PICK n \in Message : RespondToAll(n) \/ RespondToOthers(g, n)
            BY <2>2
        <3>2. \A f \in Federate : down[f] \in Seq(Message)
            BY DEF TypeOK
        <3> QED
            BY <2>1, <3>1, <3>2 DEF RespondToAll, RespondToOthers
    <2>3. CASE AddRegulator(g)
        <3>1. down[g] \o <<m, Msg("REGULATION_ENABLED", g, m.date)>> \in Seq(Message)
            BY <1>2, <1>5 DEF TypeOK
        <3> QED
            BY <1>2, <2>1, <2>3, <3>1 DEF AddRegulator, TypeOK, m
    <2>4. CASE down' = [down EXCEPT ![g] = Append(@, Msg("CONSTRAINED_ENABLED", g, 0))]
        BY <1>5, <2>4 DEF TypeOK
    <2>5. CASE UNCHANGED down
        BY <2>5 DEF TypeOK
    <2> QED
        BY <1>2, <1>5, <2>2, <2>3, <2>4, <2>5 DEF Rtig, UpdateRegulator, RemoveRegulator,
            SetConstrained, Broadcast, UnregisterSynchronization, m
<1> QED
    BY <1>1, <1>4, <1>6, <1>7 DEF Takes, TypeOK, advanceVars, roleVars, queueVars

\* insertTsoMessage keeps the types of the TSO queues.
LEMMA InsertTsoType ==
    ASSUME TypeOK, NEW f \in Federate, NEW m \in Message, InsertTso(f, m)
    PROVE  tsos' \in [Federate -> Seq(Message)]
<1>1. PICK k \in 0 .. Len(tsos[f]) :
         tsos' = [tsos EXCEPT ![f] = SubSeq(@, 1, k) \o <<m>> \o SubSeq(@, k + 1, Len(@))]
    BY DEF InsertTso
<1>2. tsos[f] \in Seq(Message) /\ Len(tsos[f]) \in Nat
    BY DEF TypeOK
<1>3. SubSeq(tsos[f], 1, k) \in Seq(Message)
    BY <1>2, SubSeqProperties
<1>4. SubSeq(tsos[f], k + 1, Len(tsos[f])) \in Seq(Message)
    BY <1>2, SubSeqProperties
<1>5. SubSeq(tsos[f], 1, k) \o <<m>> \o SubSeq(tsos[f], k + 1, Len(tsos[f])) \in Seq(Message)
    BY <1>3, <1>4
<1> QED
    BY <1>1, <1>5 DEF TypeOK

\* processNetworkMessage keeps the types.
LEMMA ProcessType ==
    ASSUME TypeOK, NEW f \in Federate, ProcessNetworkMessage(f)
    PROVE  TypeOK'
<1> DEFINE m == Head(down[f])
<1>1. PICK kinds : Receives(f, kinds)
    BY DEF ProcessNetworkMessage, ReceiveClock, ReceiveCommand, ReceiveEvent
<1>2. m \in Message /\ Tail(down[f]) \in Seq(Message)
    BY <1>1, HeadTailType DEF Receives, TypeOK
<1>3. m.date \in Nat /\ m.fed \in Federate
    BY <1>2 DEF Message
<1>4. down' \in [Federate -> Seq(Message)]
    BY <1>1, <1>2 DEF Receives, TypeOK
<1>5. CASE ReceiveClock(f)
    <2>1. PICK c : ClockSet(c) /\ clocks' = [clocks EXCEPT ![f] = c]
        BY <1>3, <1>5, ClockSetOps DEF ReceiveClock, TypeOK
    <2>2. DOMAIN clocks' = Federate /\ \A h \in Federate : ClockSet(clocks'[h])
        BY <2>1 DEF TypeOK
    <2> QED
        BY <1>1, <1>4, <1>5, <2>2 DEF ReceiveClock, Receives, TypeOK, advanceVars, roleVars,
            rtigVars, promiseVars, queueVars
<1>6. CASE ReceiveCommand(f)
    <2>1. commands' \in [Federate -> Seq(Message)]
        BY <1>2, <1>6 DEF ReceiveCommand, TypeOK
    <2> QED
        BY <1>1, <1>4, <1>6, <2>1 DEF ReceiveCommand, Receives, TypeOK, advanceVars, roleVars,
            rtigVars, promiseVars
<1>7. CASE ReceiveEvent(f)
    <2>1. tsos' \in [Federate -> Seq(Message)] /\ fifos' \in [Federate -> Seq(Message)]
        <3>1. CASE InsertTso(f, m) /\ UNCHANGED fifos
            BY <1>2, <3>1, InsertTsoType DEF TypeOK
        <3>2. CASE fifos' = [fifos EXCEPT ![f] = Append(@, m)] /\ UNCHANGED tsos
            BY <1>2, <3>2 DEF TypeOK
        <3> QED
            BY <1>7, <3>1, <3>2 DEF ReceiveEvent
    <2> QED
        BY <1>1, <1>4, <1>7, <2>1 DEF ReceiveEvent, Receives, TypeOK, advanceVars, roleVars,
            rtigVars, promiseVars
<1> QED
    BY <1>5, <1>6, <1>7 DEF ProcessNetworkMessage

\* The requests of a federate keep the types.
LEMMA RequestsType ==
    ASSUME TypeOK, NEW f \in Federate, Request(f)
    PROVE  TypeOK'
<1>1. Times \subseteq Nat /\ Lookaheads \subseteq Nat
    BY TimesAssumption, LookaheadsAssumption
<1>2. CASE \E lookahead \in Lookaheads : SetTimeRegulating(f, TRUE, lookahead)
    BY <1>1, <1>2, SetTimeRegulatingType
<1>3. CASE SetTimeRegulating(f, FALSE, 0)
    BY <1>3, SetTimeRegulatingType
<1>4. CASE \E etat \in BOOLEAN : SetTimeConstrained(f, etat)
    BY <1>4, SetTimeConstrainedType
<1>5. CASE \E lookahead \in Lookaheads : SetLookahead(f, lookahead)
    BY <1>1, <1>5, SetLookaheadType
<1>6. CASE \E date \in Times : \/ TimeAdvanceRequest(f, date)
                               \/ TimeAdvanceRequestAvailable(f, date)
                               \/ NextEventRequest(f, date)
                               \/ NextEventRequestAvailable(f, date)
    BY <1>1, <1>6, RequestType
<1>7. CASE \E date \in Times : SendDated(f, date) \/ DeleteObject(f, date)
    BY <1>1, <1>7, SendEventType DEF SendDated, DeleteObject, Kinds
<1>8. CASE SendReceiveOrder(f)
    BY <1>8, SendEventType DEF SendReceiveOrder, Kinds
<1>9. CASE SynchronizationPointAchieved(f)
    BY <1>9, AchievedType
<1> QED
    BY <1>2, <1>3, <1>4, <1>5, <1>6, <1>7, <1>8, <1>9 DEF Request

\* Every step keeps the types.
LEMMA TypeStep == TypeOK /\ [Next]_vars => TypeOK'
<1> SUFFICES ASSUME TypeOK, [Next]_vars PROVE TypeOK'
    OBVIOUS
<1>1. CASE UNCHANGED vars
    BY <1>1 DEF TypeOK, vars, advanceVars, roleVars, queueVars, rtigVars, promiseVars
<1>2. ASSUME NEW f \in Federate, Tick(f)
      PROVE  TypeOK'
    BY <1>2, DeliverQueueType, TimeAdvanceType, NextEventType DEF Tick
<1> QED
    BY <1>1, <1>2, RequestsType, RtigType, ProcessType DEF Next

\* Every variable of every RTIA, of the RTIG and of the streams keeps its type:
\* clock sets know federates only, queues and streams hold messages only, dates
\* and lookaheads stay natural numbers.
THEOREM TypeCorrect == Spec => []TypeOK
<1>1. Init => TypeOK
    BY DEF Init, TypeOK, ClockSet, NoClock, Granted
<1> QED
    BY <1>1, TypeStep, PTL DEF Spec

-----------------------------------------------------------------------------
(* Advances are announced. *)

\* No federate regulates after the start, nor changes its lookahead.
SettledRegulation == "late_regulation" \notin Liberties /\ "lookahead" \notin Services

\* What g has sent NULL messages for it still promises, and its advance too.
Announced(g) ==
    /\ ~ Started(g) => Idle(g) /\ lastNullMessageDate[g] = 0
    /\ is_regulating[g] => lastNullMessageDate[g] <= promised[g]
    /\ is_regulating[g] /\ avancee_en_cours[g] \in {"TAR", "TARA"}
          => date_avancee[g] + lookahead_courant[g] <= promised[g]

\* What Announced(g) speaks of does not change, g may have started.
Unmoved(g) ==
    /\ Started(g) => Started(g)'
    /\ avancee_en_cours'[g] = avancee_en_cours[g] /\ date_avancee'[g] = date_avancee[g]
    /\ lookahead_courant'[g] = lookahead_courant[g] /\ is_regulating'[g] = is_regulating[g]
    /\ lastNullMessageDate'[g] = lastNullMessageDate[g] /\ promised'[g] = promised[g]

LEMMA UnmovedAnnounced == \A g : Announced(g) /\ Unmoved(g) => Announced(g)'
BY DEF Announced, Unmoved, Idle

\* sendNullMessage promises the date, if it was not promised before.
LEMMA NullIsPromised ==
    ASSUME TypeOK, NEW f \in Federate, Announced(f), NEW date \in Nat, NEW lookahead \in Nat,
           SendNullIfRegulating(f, date, lookahead)
    PROVE  /\ is_regulating[f] => /\ date + lookahead <= promised'[f]
                                  /\ lastNullMessageDate'[f] <= promised'[f]
           /\ promised[f] <= promised'[f]
           /\ ~ is_regulating[f] => lastNullMessageDate'[f] = lastNullMessageDate[f]
           /\ \A g \in Federate \ {f} : /\ promised'[g] = promised[g]
                                        /\ lastNullMessageDate'[g] = lastNullMessageDate[g]
<1>1. promised[f] \in Nat /\ lastNullMessageDate[f] \in Nat /\ date + lookahead \in Nat
    BY DEF TypeOK
<1>2. CASE /\ is_regulating[f] /\ date + lookahead > lastNullMessageDate[f]
           /\ lastNullMessageDate' = [lastNullMessageDate EXCEPT ![f] = date + lookahead]
           /\ promised' = [promised EXCEPT ![f] = Later(@, date + lookahead)]
    <2>1. /\ promised'[f] = Later(promised[f], date + lookahead)
          /\ lastNullMessageDate'[f] = date + lookahead
          /\ \A g \in Federate \ {f} : /\ promised'[g] = promised[g]
                                       /\ lastNullMessageDate'[g] = lastNullMessageDate[g]
        BY <1>2 DEF TypeOK
    <2> QED
        BY <1>1, <1>2, <2>1 DEF Later
<1>3. CASE /\ is_regulating[f] => ~ (date + lookahead > lastNullMessageDate[f])
           /\ UNCHANGED promiseVars
    <2>1. is_regulating[f] => lastNullMessageDate[f] <= promised[f]
        BY DEF Announced
    <2> QED
        BY <1>1, <1>3, <2>1 DEF promiseVars
<1> QED
    BY <1>2, <1>3 DEF SendNullIfRegulating, SendNullMessage

\* Every step of f keeps it.
LEMMA AnnouncedStep ==
    ASSUME SettledRegulation, TypeOK, \A g \in Federate : Announced(g), [Next]_vars,
           NEW g \in Federate
    PROVE  Announced(g)'
<1>1. CASE UNCHANGED vars
    BY <1>1, UnmovedAnnounced DEF Unmoved, Started, vars, advanceVars, roleVars, promiseVars
<1>2. ASSUME NEW f \in Federate, Request(f) \/ Tick(f) \/ Rtig(f) \/ ProcessNetworkMessage(f)
      PROVE  Announced(g)'
    <2>1. /\ Times \subseteq Nat /\ Lookaheads \subseteq Nat /\ heure_courante[f] \in Nat
          /\ lookahead_courant[f] \in Nat /\ RequestLookahead(f) \in Nat
          /\ date_avancee[f] \in Nat /\ DateMin(f) \in Nat /\ promised[f] \in Nat
          /\ \A k \in Others(clocks[f], f) : clocks[f][k] \in Nat
        BY TimesAssumption, LookaheadsAssumption, DateMinType
            DEF RequestLookahead, TypeOK, ClockSet, Others
    <2>2. CASE \E lookahead \in Lookaheads : SetTimeRegulating(f, TRUE, lookahead)
        <3>1. CASE g = f
            <4>1. /\ ~ Started(f) /\ avancee_en_cours'[f] = avancee_en_cours[f] /\ Idle(f)
                  /\ lastNullMessageDate'[f] = lastNullMessageDate[f]
                BY <2>2 DEF SetTimeRegulating, MayEnable, SettledRegulation, Started
            <4>2. promised'[f] \in Nat
                <5>1. PICK date \in Nat : promised' = [promised EXCEPT ![f] = date]
                    <6>1. PICK lookahead \in Nat : SetTimeRegulating(f, TRUE, lookahead)
                        BY <2>1, <2>2
                    <6>2. heure_courante[f] + lookahead \in Nat
                        BY <2>1
                    <6> QED
                        BY <6>1, <6>2 DEF SetTimeRegulating
                <5> QED
                    BY <5>1 DEF TypeOK
            <4> QED
                BY <3>1, <4>1, <4>2 DEF Announced, Idle
        <3>2. CASE g # f
            BY <2>2, <3>2, UnmovedAnnounced DEF SetTimeRegulating, Unmoved, Started, TypeOK
        <3> QED
            BY <3>1, <3>2
    <2>3. CASE SetTimeRegulating(f, FALSE, 0)
        <3>1. CASE g = f
            BY <2>3, <3>1 DEF SetTimeRegulating, Announced, Idle, Started, TypeOK
        <3>2. CASE g # f
            BY <2>3, <3>2, UnmovedAnnounced DEF SetTimeRegulating, Unmoved, Started, TypeOK
        <3> QED
            BY <3>1, <3>2
    <2>4. CASE \/ \E etat \in BOOLEAN : SetTimeConstrained(f, etat)
               \/ \E date \in Times : SendDated(f, date) \/ DeleteObject(f, date)
               \/ SendReceiveOrder(f)
        BY <2>4, UnmovedAnnounced DEF SetTimeConstrained, SendDated, DeleteObject,
            SendReceiveOrder, SendEvent, Unmoved, Started, advanceVars, roleVars
    <2>5. CASE SynchronizationPointAchieved(f)
        <3>1. /\ ~ Started(f) /\ UNCHANGED <<advanceVars, lastNullMessageDate, promised, roleVars>>
              /\ Started(g) => Started(g)'
            BY <2>5 DEF SynchronizationPointAchieved, Started, TypeOK
        <3> QED
            BY <3>1, UnmovedAnnounced DEF Unmoved, advanceVars, roleVars
    <2>6. CASE \E date \in Times : TimeAdvanceRequest(f, date) \/ TimeAdvanceRequestAvailable(f, date)
        <3>1. PICK date \in Nat, lookahead \in Nat, kind \in {"TAR", "TARA"}, granted \in Granted :
                 /\ Started(f) /\ SendNullIfRegulating(f, date, lookahead)
                 /\ BeginAdvance(f, kind, date, granted, lookahead)
            BY <2>1, <2>6 DEF TimeAdvanceRequest, TimeAdvanceRequestAvailable, GrantedState, Granted
        <3>2. /\ UNCHANGED <<phase, is_regulating>>
              /\ date_avancee'[f] = date /\ lookahead_courant'[f] = lookahead
              /\ \A k \in Federate \ {f} : /\ avancee_en_cours'[k] = avancee_en_cours[k]
                                           /\ date_avancee'[k] = date_avancee[k]
                                           /\ lookahead_courant'[k] = lookahead_courant[k]
            BY <3>1 DEF BeginAdvance, TypeOK, roleVars
        <3>3. CASE g = f
            BY <3>1, <3>2, <3>3, NullIsPromised DEF Announced, Started
        <3>4. CASE g # f
            BY <3>1, <3>2, <3>4, NullIsPromised, UnmovedAnnounced DEF Unmoved, Started
        <3> QED
            BY <3>3, <3>4
    <2>7. CASE \E date \in Times : NextEventRequest(f, date) \/ NextEventRequestAvailable(f, date)
        <3>1. PICK kind \in {"NER", "NERA"} : \E date, granted, lookahead :
                 Started(f) /\ BeginAdvance(f, kind, date, granted, lookahead) /\ UNCHANGED promiseVars
            BY <2>7 DEF NextEventRequest, NextEventRequestAvailable
        <3>2. /\ UNCHANGED <<phase, is_regulating, promised, lastNullMessageDate>>
              /\ avancee_en_cours'[f] = kind
              /\ \A k \in Federate \ {f} : /\ avancee_en_cours'[k] = avancee_en_cours[k]
                                           /\ date_avancee'[k] = date_avancee[k]
                                           /\ lookahead_courant'[k] = lookahead_courant[k]
            BY <3>1 DEF BeginAdvance, TypeOK, roleVars, promiseVars
        <3>3. CASE g = f
            BY <3>1, <3>2, <3>3 DEF Announced, Started
        <3>4. CASE g # f
            BY <3>2, <3>4, UnmovedAnnounced DEF Unmoved, Started
        <3> QED
            BY <3>3, <3>4
    <2>8. CASE DeliverCommand(f) \/ DeliverFifo(f)
        <3>1. UNCHANGED <<advanceVars, roleVars, promiseVars>> /\ (Started(g) => Started(g)')
            BY <2>8 DEF DeliverCommand, DeliverFifo, Started, TypeOK
        <3> QED
            BY <3>1, UnmovedAnnounced DEF Unmoved, advanceVars, roleVars, promiseVars
    <2>9. CASE TimeAdvanceTso(f)
        BY <2>9, UnmovedAnnounced DEF TimeAdvanceTso, DeliverTso, TickFrame, Unmoved, Started,
            roleVars, promiseVars
    <2>10. CASE TimeAdvanceDone(f)
        <3>1. /\ UNCHANGED <<phase, is_regulating, promised, lastNullMessageDate, date_avancee>>
              /\ avancee_en_cours'[f] = "PAS_D_AVANCEE"
              /\ \A k \in Federate \ {f} : /\ avancee_en_cours'[k] = avancee_en_cours[k]
                                           /\ lookahead_courant'[k] = lookahead_courant[k]
            BY <2>10 DEF TimeAdvanceDone, TimeAdvanceGrant, TickFrame, TypeOK, roleVars, promiseVars
        <3>2. CASE g = f
            BY <3>1, <3>2 DEF Announced, Started, Idle
        <3>3. CASE g # f
            BY <3>1, <3>3, UnmovedAnnounced DEF Unmoved, Started
        <3> QED
            BY <3>2, <3>3
    <2>11. CASE NextEventReached(f) \/ NextEventShort(f) \/ NextEventFree(f)
        <3>1. PICK date \in Nat, lookahead \in Nat : SendNullIfRegulating(f, date, lookahead)
            BY <2>1, <2>11 DEF NextEventReached, NextEventShort, NextEventFree, SendNullIfRegulating
        <3>2. /\ UNCHANGED <<phase, is_regulating>>
              /\ avancee_en_cours[f] \in {"NER", "NERA"}
              /\ avancee_en_cours'[f] \in {"NER", "NERA", "PAS_D_AVANCEE"}
              /\ \A k \in Federate \ {f} : /\ avancee_en_cours'[k] = avancee_en_cours[k]
                                           /\ date_avancee'[k] = date_avancee[k]
                                           /\ lookahead_courant'[k] = lookahead_courant[k]
            BY <2>11 DEF NextEventReached, NextEventShort, NextEventFree, Advancing, DeliverTso,
                TimeAdvanceGrant, TickFrame, TypeOK, roleVars
        <3>3. CASE g = f
            BY <3>1, <3>2, <3>3, NullIsPromised DEF Announced, Started, Idle
        <3>4. CASE g # f
            BY <3>1, <3>2, <3>4, NullIsPromised, UnmovedAnnounced DEF Unmoved, Started
        <3> QED
            BY <3>3, <3>4
    <2>12. CASE Rtig(f) \/ ProcessNetworkMessage(f)
        BY <2>12, UnmovedAnnounced DEF Rtig, UpdateRegulator, AddRegulator, RemoveRegulator,
            SetConstrained, Broadcast, UnregisterSynchronization, Takes, ProcessNetworkMessage,
            ReceiveClock, ReceiveCommand, ReceiveEvent, Receives, Unmoved, Started, advanceVars,
            roleVars, promiseVars
    <2> QED
        BY <1>2, <2>2, <2>3, <2>4, <2>5, <2>6, <2>7, <2>8, <2>9, <2>10, <2>11, <2>12
            DEF Request, Tick, SetLookahead, SettledRegulation
<1> QED
    BY <1>1, <1>2 DEF Next

\* A regulator that asks to advance has promised the date and its lookahead: no
\* NULL message that the others wait for is held back by sendNullMessage.
THEOREM AdvancesAreAnnounced ==
    ASSUME SettledRegulation
    PROVE  Spec => []AdvanceIsAnnounced
<1>1. Init => \A g \in Federate : Announced(g)
    BY DEF Init, Announced, Idle, Started
<1>2. TypeOK /\ (\A g \in Federate : Announced(g)) /\ [Next]_vars
         => (\A g \in Federate : Announced(g))'
    BY AnnouncedStep
<1>3. (\A g \in Federate : Announced(g)) => AdvanceIsAnnounced
    BY DEF Announced, AdvanceIsAnnounced
<1> QED
    BY <1>1, <1>2, <1>3, TypeCorrect, PTL DEF Spec

-----------------------------------------------------------------------------
(* Sequences of messages. *)

\* What a message at the end of a sequence adds to its messages.
LEMMA ElemsAppend ==
    ASSUME NEW S, NEW s \in Seq(S), NEW m
    PROVE  Elems(Append(s, m)) = Elems(s) \cup {m}
<1>1. /\ DOMAIN Append(s, m) = 1 .. Len(s) + 1
      /\ DOMAIN s = 1 .. Len(s)
      /\ Append(s, m)[Len(s) + 1] = m
      /\ \A i \in 1 .. Len(s) : Append(s, m)[i] = s[i]
    BY AppendProperties
<1>2. Len(s) \in Nat
    OBVIOUS
<1> QED
    BY <1>1, <1>2 DEF Elems

\* A sequence holds its head and what its tail holds.
LEMMA ElemsTail ==
    ASSUME NEW S, NEW s \in Seq(S), s # <<>>
    PROVE  /\ Elems(s) = {Head(s)} \cup Elems(Tail(s))
           /\ Elems(s) \subseteq S
<1>1. /\ Len(s) \in Nat \ {0} /\ Tail(s) \in Seq(S)
      /\ Len(Tail(s)) = Len(s) - 1
      /\ Head(s) = s[1]
      /\ \A i \in 1 .. Len(Tail(s)) : Tail(s)[i] = s[i + 1]
    BY HeadTailProperties, EmptySeq
<1>2. DOMAIN s = 1 .. Len(s) /\ DOMAIN Tail(s) = 1 .. Len(s) - 1
    BY <1>1
<1>3. \A i \in 1 .. Len(s) : i = 1 \/ (i - 1 \in 1 .. Len(s) - 1 /\ s[i] = Tail(s)[i - 1])
    BY <1>1
<1>4. Elems(s) \subseteq {Head(s)} \cup Elems(Tail(s))
    <2>1. \A i \in DOMAIN s : s[i] = Head(s) \/ s[i] \in Elems(Tail(s))
        BY <1>1, <1>2, <1>3 DEF Elems
    <2> QED
        BY <2>1 DEF Elems
<1>5. Head(s) \in Elems(s)
    BY <1>1, <1>2 DEF Elems
<1>6. Elems(Tail(s)) \subseteq Elems(s)
    BY <1>1, <1>2 DEF Elems
<1>7. Elems(s) \subseteq S
    BY <1>2 DEF Elems
<1> QED
    BY <1>4, <1>5, <1>6, <1>7

\* What a sequence over S holds is in S.
LEMMA ElemsType ==
    ASSUME NEW S, NEW s \in Seq(S)
    PROVE  Elems(s) \subseteq S
<1>1. \A i \in DOMAIN s : s[i] \in S
    OBVIOUS
<1> QED
    BY <1>1 DEF Elems

\* The sequence s with m put behind its first k elements.
Inserted(s, k, m) == SubSeq(s, 1, k) \o <<m>> \o SubSeq(s, k + 1, Len(s))

\* Where the elements of s are in it.
HasInserted(t, s, k, m) ==
    /\ Len(t) = Len(s) + 1 /\ DOMAIN t = 1 .. Len(s) + 1
    /\ \A i \in 1 .. k : t[i] = s[i]
    /\ t[k + 1] = m
    /\ \A i \in k + 2 .. Len(s) + 1 : t[i] = s[i - 1]

\* Inserting moves what is behind one place up.
LEMMA InsertAt ==
    ASSUME NEW S, NEW s \in Seq(S), NEW m \in S, NEW k \in 0 .. Len(s)
    PROVE  HasInserted(Inserted(s, k, m), s, k, m)
<1>a. PICK t : t = Inserted(s, k, m)
    OBVIOUS
<1>0. Len(s) \in Nat /\ DOMAIN s = 1 .. Len(s)
    OBVIOUS
<1>1. PICK a : a = SubSeq(s, 1, k)
    OBVIOUS
<1>2. PICK b : b = SubSeq(s, k + 1, Len(s))
    OBVIOUS
<1>3. /\ a \in Seq(S) /\ Len(a) = k
      /\ \A i \in 1 .. k : a[i] = s[i]
    BY <1>0, <1>1, SubSeqProperties
<1>4. /\ b \in Seq(S) /\ Len(b) = Len(s) - k
      /\ \A i \in 1 .. Len(s) - k : b[i] = s[k + i]
    <2>1. \A i \in k + 1 .. Len(s) : s[i] \in S
        BY <1>0
    <2>2. /\ b \in Seq(S)
          /\ Len(b) = IF k + 1 <= Len(s) THEN Len(s) - (k + 1) + 1 ELSE 0
          /\ \A i \in 1 .. Len(s) - (k + 1) + 1 : b[i] = s[k + 1 + i - 1]
        BY <1>0, <1>2, <2>1, SubSeqProperties
    <2>3. \A i \in 1 .. Len(s) - k : b[i] = s[k + i]
        <3> SUFFICES ASSUME NEW i \in 1 .. Len(s) - k PROVE b[i] = s[k + i]
            OBVIOUS
        <3>1. i \in 1 .. Len(s) - (k + 1) + 1 /\ k + 1 + i - 1 = k + i
            BY <1>0
        <3> QED
            BY <2>2, <3>1
    <2>4. Len(b) = Len(s) - k
        <3>1. CASE k + 1 <= Len(s)
            <4>1. Len(b) = Len(s) - (k + 1) + 1
                BY <2>2, <3>1
            <4>2. Len(s) - (k + 1) + 1 = Len(s) - k
                BY <1>0
            <4> QED
                BY <4>1, <4>2
        <3>2. CASE ~ (k + 1 <= Len(s))
            <4>1. Len(b) = 0
                BY <2>2, <3>2
            <4>2. ASSUME NEW n \in Nat, k \in 0 .. n, ~ (k + 1 <= n)
                  PROVE  n - k = 0
                BY <4>2
            <4>3. Len(s) - k = 0
                BY <1>0, <3>2, <4>2
            <4> QED
                BY <4>1, <4>3
        <3> QED
            BY <3>1, <3>2
    <2> QED
        BY <2>2, <2>3, <2>4
<1>5. PICK c : c = a \o <<m>>
    OBVIOUS
<1>6. /\ c \in Seq(S) /\ Len(c) = k + 1
      /\ \A i \in 1 .. k + 1 : c[i] = IF i <= k THEN a[i] ELSE <<m>>[i - k]
    <2>1. <<m>> \in Seq(S) /\ Len(<<m>>) = 1
        OBVIOUS
    <2> QED
        BY <1>3, <1>5, <2>1, ConcatProperties
<1>7. c[k + 1] = m /\ \A i \in 1 .. k : c[i] = s[i]
    <2>1. k + 1 \in 1 .. k + 1 /\ ~ (k + 1 <= k) /\ (k + 1) - k = 1
        OBVIOUS
    <2>2. c[k + 1] = <<m>>[1]
        BY <1>6, <2>1
    <2>3. \A i \in 1 .. k : i \in 1 .. k + 1 /\ i <= k
        OBVIOUS
    <2> QED
        BY <1>3, <1>6, <2>2, <2>3
<1>8. /\ t \in Seq(S) /\ Len(t) = Len(s) + 1
      /\ \A i \in 1 .. Len(s) + 1 : t[i] = IF i <= k + 1 THEN c[i] ELSE b[i - (k + 1)]
    <2>1. t = c \o b
        BY <1>a, <1>1, <1>2, <1>5 DEF Inserted
    <2>2. k + 1 + (Len(s) - k) = Len(s) + 1
        BY <1>0
    <2>3. c \in Seq(S) /\ b \in Seq(S)
        BY <1>4, <1>6
    <2>4. /\ c \o b \in Seq(S) /\ Len(c \o b) = Len(c) + Len(b)
          /\ \A i \in 1 .. Len(c) + Len(b) :
                (c \o b)[i] = IF i <= Len(c) THEN c[i] ELSE b[i - Len(c)]
        BY <2>3, ConcatProperties
    <2> QED
        BY <1>4, <1>6, <2>1, <2>2, <2>4
<1>9. \A i \in k + 2 .. Len(s) + 1 : t[i] = s[i - 1]
    <2> SUFFICES ASSUME NEW i \in k + 2 .. Len(s) + 1 PROVE t[i] = s[i - 1]
        OBVIOUS
    <2>1. /\ i \in 1 .. Len(s) + 1 /\ ~ (i <= k + 1) /\ i - (k + 1) \in 1 .. Len(s) - k
          /\ k + (i - (k + 1)) = i - 1
        BY <1>0
    <2>2. t[i] = b[i - (k + 1)] /\ b[i - (k + 1)] = s[k + (i - (k + 1))]
        BY <1>4, <1>8, <2>1
    <2> QED
        BY <2>1, <2>2
<1>10. \A i \in 1 .. k + 1 : i \in 1 .. Len(s) + 1 /\ i <= k + 1
    BY <1>0
<1>11. t[k + 1] = m /\ \A i \in 1 .. k : t[i] = s[i]
    <2>1. t[k + 1] = m
        BY <1>7, <1>8, <1>10
    <2>2. \A i \in 1 .. k : i \in 1 .. k + 1
        OBVIOUS
    <2> QED
        BY <1>7, <1>8, <1>10, <2>1, <2>2
<1>12. DOMAIN t = 1 .. Len(s) + 1
    BY <1>8
<1>13. HasInserted(t, s, k, m)
    BY <1>8, <1>9, <1>11, <1>12 DEF HasInserted
<1> QED
    BY <1>a, <1>13

\* The messages in the streams and queues are messages.
LEMMA StreamTypes ==
    ASSUME TypeOK, NEW f \in Federate
    PROVE  /\ up[f] \in Seq(Message) /\ Elems(up[f]) \subseteq Message
           /\ down[f] \in Seq(Message) /\ Elems(down[f]) \subseteq Message
           /\ tsos[f] \in Seq(Message) /\ Elems(tsos[f]) \subseteq Message
           /\ commands[f] \in Seq(Message) /\ Elems(commands[f]) \subseteq Message
<1>1. /\ up[f] \in Seq(Message) /\ down[f] \in Seq(Message)
      /\ tsos[f] \in Seq(Message) /\ commands[f] \in Seq(Message)
    BY DEF TypeOK
<1> QED
    BY <1>1, ElemsType

\* The types of the fields of a message.
LEMMA MessageFields ==
    ASSUME NEW m \in Message
    PROVE  m.kind \in Kinds /\ m.fed \in Federate /\ m.date \in Nat
BY DEF Message

\* A message that may follow all others keeps a stream in order.
LEMMA InOrderAppend ==
    ASSUME NEW S, NEW s \in Seq(S), NEW m, InOrder(s),
           \A a \in Elems(s) : MayFollow(a, m)
    PROVE  InOrder(Append(s, m))
<1>1. /\ Len(Append(s, m)) = Len(s) + 1
      /\ DOMAIN s = 1 .. Len(s)
      /\ Append(s, m)[Len(s) + 1] = m
      /\ \A i \in 1 .. Len(s) : Append(s, m)[i] = s[i]
    BY AppendProperties
<1>2. Len(s) \in Nat
    OBVIOUS
<1>3. \A i \in 1 .. Len(s) : MayFollow(s[i], m)
    BY <1>1 DEF Elems
<1> QED
    BY <1>1, <1>2, <1>3 DEF InOrder

\* What is left of a stream is in order, and may follow the message taken.
LEMMA InOrderTail ==
    ASSUME NEW S, NEW s \in Seq(S), s # <<>>, InOrder(s)
    PROVE  /\ InOrder(Tail(s))
           /\ \A m \in Elems(Tail(s)) : MayFollow(Head(s), m)
<1>1. /\ Len(s) \in Nat \ {0} /\ Tail(s) \in Seq(S)
      /\ Len(Tail(s)) = Len(s) - 1
      /\ Head(s) = s[1]
      /\ \A i \in 1 .. Len(Tail(s)) : Tail(s)[i] = s[i + 1]
    BY HeadTailProperties, EmptySeq
<1>2. DOMAIN Tail(s) = 1 .. Len(s) - 1
    BY <1>1
<1>3. \A i \in 1 .. Len(s) - 1 : MayFollow(s[1], s[i + 1])
    BY <1>1 DEF InOrder
<1>4. \A i, j \in 1 .. Len(s) - 1 : i < j => MayFollow(s[i + 1], s[j + 1])
    BY <1>1 DEF InOrder
<1> QED
    BY <1>1, <1>2, <1>3, <1>4 DEF InOrder, Elems

-----------------------------------------------------------------------------
(* The paths, when a federate speaks: g puts the message m on its stream. *)

\* A federate that speaks keeps the paths: it takes back no promise, sends no event
\* earlier than its promise, and regulates only before the start.
LEMMA SpeakKeepsPath ==
    ASSUME TypeOK, PathInvariant,
           NEW g \in Federate, NEW m \in Message, m.fed = g,
           NEW p \in Nat, promised[g] <= p,
           NEW r \in BOOLEAN,
           NEW ph \in {"starting", "synchronizing", "started"},
           up' = [up EXCEPT ![g] = Append(@, m)],
           promised' = [promised EXCEPT ![g] = p],
           is_regulating' = [is_regulating EXCEPT ![g] = r],
           phase' = [phase EXCEPT ![g] = ph],
           UNCHANGED <<down, clocks, unsynchronized, commands>>,
           m.kind \in Promises => m.date <= p,
           m.kind = "REGULATOR_ON" => phase[g] = "starting",
           m.kind = "EVENT" => m.date \in Times /\ promised[g] <= m.date /\ is_regulating[g],
           m.kind = "REGULATOR_OFF" => ~ r /\ ph = "started",
           m.kind = "ACHIEVED" => ph # "starting",
           m.kind # "SYNCHRONIZED",
           r => is_regulating[g] \/ m.kind = "REGULATOR_ON",
           ph = phase[g] \/ (phase[g] = "starting" /\ ph = "synchronizing")
    PROVE  PathInvariant'
<1> USE DEF PathInvariant
<1>1. /\ Elems(up'[g]) = Elems(up[g]) \cup {m}
      /\ up'[g] = Append(up[g], m)
      /\ \A h \in Federate \ {g} : up'[h] = up[h]
    <2>1. up[g] \in Seq(Message) /\ up'[g] = Append(up[g], m)
        BY DEF TypeOK
    <2>2. Elems(Append(up[g], m)) = Elems(up[g]) \cup {m}
        BY <2>1, ElemsAppend
    <2> QED
        BY <2>1, <2>2 DEF TypeOK
<1>2. /\ promised'[g] = p /\ \A h \in Federate \ {g} : promised'[h] = promised[h]
      /\ \A h \in Federate : promised[h] \in Nat /\ promised'[h] \in Nat
    BY DEF TypeOK
<1>3. /\ is_regulating'[g] = r /\ \A h \in Federate \ {g} : is_regulating'[h] = is_regulating[h]
      /\ phase'[g] = ph /\ \A h \in Federate \ {g} : phase'[h] = phase[h]
    BY DEF TypeOK
<1>4. \A h \in Federate : Elems(up[h]) \subseteq Message /\ Elems(down[h]) \subseteq Message
    BY StreamTypes
<1>5. \A a \in Message : a.fed \in Federate /\ a.date \in Nat
    BY MessageFields
<1>6. \A a \in Message : Genuine(a) => MayFollow(a, m)
                          \/ (m.kind = "REGULATOR_ON" /\ a.kind \in {"ACHIEVED", "SYNCHRONIZED"})
    BY <1>2, <1>5 DEF Genuine, MayFollow
<1>7. m.kind = "REGULATOR_ON" =>
         /\ \A a \in Elems(up[g]) : a.kind \notin {"ACHIEVED", "SYNCHRONIZED"}
         /\ \A f \in Federate : \A a \in Elems(down[f]) : a.kind \notin {"ACHIEVED", "SYNCHRONIZED"}
    BY DEF MessagesHold, Genuine, StartupHolds
<1>8. \A a \in Message : Genuine(a) => Genuine(a)'
    BY <1>2, <1>3, <1>5 DEF Genuine
<1>9. Ordered'
    <2>1. /\ \A a \in Elems(up[g]) : MayFollow(a, m)
          /\ \A f \in Federate : \A a \in Elems(down[f]) : MayFollow(a, m)
        BY <1>4, <1>6, <1>7 DEF MessagesHold
    <2>2. InOrder(up'[g])
        BY <1>1, <2>1, InOrderAppend, StreamTypes DEF Ordered
    <2>3. \A h \in Federate : InOrder(up'[h])
        BY <1>1, <2>2 DEF Ordered
    <2> QED
        BY <1>1, <2>1, <2>3 DEF Ordered
<1>10. MessagesHold'
    <2>1. Genuine(m)'
        BY <1>2, <1>3 DEF Genuine
    <2>2. m.kind = "REGULATOR_ON" => g \in unsynchronized
        BY DEF StartupHolds
    <2> QED
        BY <1>1, <1>4, <1>8, <2>1, <2>2 DEF MessagesHold
<1>11. StartupHolds'
    BY <1>3 DEF StartupHolds, Synced
<1>12. ClocksHold'
    <2>1. \A f \in Federate : \A h \in DOMAIN clocks[f] :
             h \in Federate /\ clocks[f][h] \in Nat
        BY DEF TypeOK, ClockSet
    <2>2. \A f, h \in Federate : \A a \in Path(f, h)' : a \in Path(f, h) \/ (a = m /\ h = g)
        BY <1>1 DEF Path
    <2>3. \A f \in Federate : \A h \in DOMAIN clocks[f] : clocks[f][h] <= promised'[h]
        BY <1>2, <2>1 DEF ClocksHold
    <2>4. \A f \in Federate : \A h \in DOMAIN clocks[f] : \A a \in Path(f, h)' :
             a.kind = "EVENT" => clocks[f][h] <= a.date
        BY <1>2, <1>5, <2>1, <2>2 DEF ClocksHold
    <2> QED
        BY <2>3, <2>4 DEF ClocksHold
<1>13. Known'
    <2>1. \A f, h \in Federate : Path(f, h) \subseteq Path(f, h)'
        BY <1>1 DEF Path
    <2>2. \A f \in Federate : m \in Path(f, g)'
        BY <1>1 DEF Path
    <2>3. \A f, h \in Federate : \A a \in Path(f, h)' : a \in Path(f, h) \/ (a = m /\ h = g)
        BY <1>1 DEF Path
    <2> QED
        BY <1>3, <2>1, <2>2, <2>3 DEF Known
<1> QED
    BY <1>9, <1>10, <1>11, <1>12, <1>13

-----------------------------------------------------------------------------
(* The paths, when the RTIG relays the head of the stream of g. *)

\* Messages that say nothing of clocks, events or the start-up.
Inert(m) == m.kind \in {"RECEIVE_ORDER", "CONSTRAINED_ON", "CONSTRAINED_OFF",
                        "REGULATION_ENABLED", "CONSTRAINED_ENABLED"}

\* What the stream of f gains: the message h, a confirmation, or both.
Gains(f, h) ==
    \/ down'[f] = down[f]
    \/ down'[f] = Append(down[f], h)
    \/ \E e \in Message : Inert(e) /\ down'[f] = Append(down[f], e)
    \/ \E e \in Message : Inert(e) /\ down'[f] = Append(Append(down[f], h), e)

\* The RTIG keeps the order of what it relays, and the paths.
LEMMA RelayKeepsPath ==
    ASSUME TypeOK, PathInvariant, NEW g \in Federate, NEW h, h = Head(up[g]),
           up[g] # <<>>,
           up' = [up EXCEPT ![g] = Tail(@)],
           DOMAIN down' = Federate,
           \A f \in Federate : Gains(f, h),
           h.kind = "REGULATOR_ON" => \A f \in Federate : h \in Elems(down'[f]),
           h.kind \in {"NULL", "EVENT"} => down'[g] = down[g],
           h.kind \notin {"ACHIEVED", "SYNCHRONIZED"},
           UNCHANGED <<promised, is_regulating, phase, clocks, unsynchronized, commands>>
    PROVE  PathInvariant'
<1> USE DEF PathInvariant
<1>1. /\ Elems(up[g]) = {h} \cup Elems(up'[g])
      /\ InOrder(up'[g]) /\ \A m \in Elems(up'[g]) : MayFollow(h, m)
      /\ \A f \in Federate \ {g} : up'[f] = up[f]
    <2>1. up[g] \in Seq(Message) /\ up'[g] = Tail(up[g]) /\ InOrder(up[g])
        BY DEF TypeOK, Ordered
    <2> QED
        BY <2>1, ElemsTail, InOrderTail DEF TypeOK
<1>2. h \in Message /\ h.fed = g /\ Genuine(h) /\ (h.kind = "REGULATOR_ON" => g \in unsynchronized)
    BY <1>1, StreamTypes DEF MessagesHold
<1>3. \A f \in Federate : Elems(up'[f]) \subseteq Elems(up[f])
    BY <1>1
<1>4. \A a : \A e : Inert(e) => MayFollow(a, e) /\ MayFollow(e, a)
    BY DEF MayFollow, Inert, Promises
<1>5. \A f \in Federate : InOrder(down'[f]) /\ Elems(down[f]) \subseteq Elems(down'[f])
    <2> SUFFICES ASSUME NEW f \in Federate
                 PROVE  InOrder(down'[f]) /\ Elems(down[f]) \subseteq Elems(down'[f])
        OBVIOUS
    <2>1. down[f] \in Seq(Message) /\ InOrder(down[f])
        BY DEF TypeOK, Ordered
    <2>2. \A a \in Elems(down[f]) : MayFollow(a, h)
        BY <1>1 DEF Ordered
    <2>3. /\ InOrder(Append(down[f], h)) /\ Append(down[f], h) \in Seq(Message)
          /\ Elems(Append(down[f], h)) = Elems(down[f]) \cup {h}
        BY <1>2, <2>1, <2>2, InOrderAppend, ElemsAppend
    <2>4. \A e \in Message : Inert(e) =>
             /\ InOrder(Append(down[f], e))
             /\ InOrder(Append(Append(down[f], h), e))
        BY <1>4, <2>1, <2>3, InOrderAppend
    <2>5. ASSUME NEW e \in Message
          PROVE  /\ Elems(down[f]) \subseteq Elems(Append(down[f], e))
                 /\ Elems(down[f]) \subseteq Elems(Append(Append(down[f], h), e))
        <3>1. Elems(Append(down[f], e)) = Elems(down[f]) \cup {e}
            BY <2>1, ElemsAppend
        <3>2. Elems(Append(Append(down[f], h), e)) = Elems(Append(down[f], h)) \cup {e}
            BY <2>3, ElemsAppend
        <3> QED
            BY <2>3, <3>1, <3>2
    <2> QED
        BY <2>1, <2>3, <2>4, <2>5 DEF Gains
<1>6. \A f \in Federate : \A a \in Elems(down'[f]) :
         \/ a \in Elems(down[f])
         \/ a = h /\ (h.kind \in {"NULL", "EVENT"} => f # g)
         \/ a \in Message /\ Inert(a)
    <2> SUFFICES ASSUME NEW f \in Federate, NEW a \in Elems(down'[f])
                 PROVE  \/ a \in Elems(down[f])
                        \/ a = h /\ (h.kind \in {"NULL", "EVENT"} => f # g)
                        \/ a \in Message /\ Inert(a)
        OBVIOUS
    <2>1. down[f] \in Seq(Message) /\ Append(down[f], h) \in Seq(Message)
        BY <1>2 DEF TypeOK
    <2>2. Elems(Append(down[f], h)) = Elems(down[f]) \cup {h}
        BY <2>1, ElemsAppend
    <2>3. ASSUME NEW e \in Message
          PROVE  /\ Elems(Append(down[f], e)) = Elems(down[f]) \cup {e}
                 /\ Elems(Append(Append(down[f], h), e)) = Elems(down[f]) \cup {h, e}
        <3>1. Elems(Append(down[f], e)) = Elems(down[f]) \cup {e}
            BY <2>1, ElemsAppend
        <3>2. Elems(Append(Append(down[f], h), e)) = Elems(Append(down[f], h)) \cup {e}
            BY <2>1, ElemsAppend
        <3> QED
            BY <2>2, <3>1, <3>2
    <2>4. CASE f = g /\ h.kind \in {"NULL", "EVENT"}
        BY <2>4
    <2>5. CASE ~ (f = g /\ h.kind \in {"NULL", "EVENT"})
        <3>1. CASE down'[f] = down[f]
            BY <3>1
        <3>2. CASE down'[f] = Append(down[f], h)
            BY <2>2, <2>5, <3>2
        <3>3. CASE \E e \in Message : Inert(e) /\ down'[f] = Append(down[f], e)
            BY <2>3, <3>3
        <3>4. CASE \E e \in Message : Inert(e) /\ down'[f] = Append(Append(down[f], h), e)
            BY <2>3, <2>5, <3>4
        <3> QED
            BY <3>1, <3>2, <3>3, <3>4 DEF Gains
    <2> QED
        BY <2>4, <2>5
<1>7. Ordered'
    <2>1. \A f \in Federate : InOrder(up'[f])
        BY <1>1 DEF Ordered
    <2>2. ASSUME NEW f \in Federate, NEW k \in Federate, NEW a \in Elems(down'[f]),
                 NEW b \in Elems(up'[k])
          PROVE  MayFollow(a, b)
        <3>1. CASE a \in Elems(down[f])
            BY <1>3, <3>1 DEF Ordered
        <3>2. CASE a = h /\ k = g
            BY <1>1, <3>2
        <3>3. CASE a = h /\ k # g
            <4>1. b.fed = k
                BY <1>3 DEF MessagesHold
            <4> QED
                BY <1>2, <3>3, <4>1 DEF MayFollow
        <3>4. CASE Inert(a)
            BY <1>4, <3>4
        <3> QED
            BY <1>6, <3>1, <3>2, <3>3, <3>4
    <2> QED
        BY <1>5, <2>1, <2>2 DEF Ordered
<1>8. MessagesHold'
    <2>1. \A a : Genuine(a)' <=> Genuine(a)
        BY DEF Genuine
    <2>2. \A a : Inert(a) => Genuine(a) /\ a.kind \notin {"NULL", "EVENT", "ACHIEVED"}
        BY DEF Genuine, Inert, Promises
    <2>3. \A f \in Federate : \A m \in Elems(up'[f]) :
             Genuine(m)' /\ m.fed = f /\ (m.kind = "REGULATOR_ON" => f \in unsynchronized')
        BY <1>3, <2>1 DEF MessagesHold
    <2>4. \A f \in Federate : \A m \in Elems(down'[f]) :
             Genuine(m)' /\ (m.kind \in {"NULL", "EVENT"} => m.fed # f) /\ m.kind # "ACHIEVED"
        BY <1>2, <1>6, <2>1, <2>2 DEF MessagesHold
    <2> QED
        BY <2>3, <2>4 DEF MessagesHold
<1>9. StartupHolds'
    <2>1. \A a : Inert(a) => a.kind # "REGULATOR_ON"
        BY DEF Inert
    <2>2. \A f \in Federate : Synced(f)' <=> Synced(f)
        BY DEF Synced
    <2> QED
        BY <1>2, <1>6, <2>1, <2>2 DEF StartupHolds
<1>10. \A f, k \in Federate : \A a \in Path(f, k)' : a \in Path(f, k) \/ Inert(a)
    BY <1>1, <1>2, <1>3, <1>6 DEF Path
<1>11. ClocksHold'
    <2>1. \A a : Inert(a) => a.kind # "EVENT"
        BY DEF Inert
    <2>2. \A f \in Federate : DOMAIN clocks[f] \subseteq Federate
        BY DEF TypeOK, ClockSet
    <2> QED
        BY <1>10, <2>1, <2>2 DEF ClocksHold
<1>12. Known'
    <2>1. \A a : Inert(a) => a.kind # "EVENT"
        BY DEF Inert
    <2>2. \A f, k \in Federate : \A a \in Path(f, k) : a.kind = "REGULATOR_ON" => a \in Path(f, k)'
        BY <1>1, <1>2, <1>5 DEF Path
    <2> QED
        BY <1>10, <2>1, <2>2 DEF Known
<1> QED
    BY <1>7, <1>8, <1>9, <1>11, <1>12

(* The paths, when g achieves the start-up label, maybe the last to do so. *)

\* The RTIG announces the synchronization when every REGULATOR_ON is behind it.
LEMMA SynchronizeKeepsPath ==
    ASSUME TypeOK, PathInvariant, NEW g \in Federate, UnregisterSynchronization(g)
    PROVE  PathInvariant'
<1> USE DEF PathInvariant
<1> DEFINE h == Head(up[g])
           s == Msg("SYNCHRONIZED", g, 0)
<1>1. /\ up[g] # <<>> /\ h.kind = "ACHIEVED"
      /\ up' = [up EXCEPT ![g] = Tail(@)]
      /\ unsynchronized' = unsynchronized \ {g}
      /\ UNCHANGED <<promised, is_regulating, phase, clocks, commands>>
    BY DEF UnregisterSynchronization, Takes, roleVars, queueVars
<1>2. \/ UNCHANGED down
      \/ unsynchronized = {g} /\ down' = [f \in Federate |-> Append(down[f], s)]
    BY DEF UnregisterSynchronization, RespondToAll
<1>3. s \in Message /\ s.kind = "SYNCHRONIZED"
    BY MsgType DEF Kinds, Msg
<1> HIDE DEF s
<1>4. /\ Elems(up[g]) = {h} \cup Elems(up'[g])
      /\ InOrder(up'[g]) /\ \A m \in Elems(up'[g]) : MayFollow(h, m)
      /\ \A f \in Federate \ {g} : up'[f] = up[f]
    <2>1. up[g] \in Seq(Message) /\ up'[g] = Tail(up[g]) /\ InOrder(up[g])
        BY <1>1 DEF TypeOK, Ordered
    <2> QED
        BY <1>1, <2>1, ElemsTail, InOrderTail DEF TypeOK
<1>5. Genuine(h) /\ h.fed = g
    BY <1>4 DEF MessagesHold
<1>6. \A f \in Federate : Elems(up'[f]) \subseteq Elems(up[f])
    BY <1>4
<1>7. \A f \in Federate : \A m \in Elems(up'[f]) : m.kind = "REGULATOR_ON" => f \in unsynchronized'
    BY <1>1, <1>4 DEF MessagesHold, MayFollow
<1>8. \A f \in Federate : /\ InOrder(down'[f])
                          /\ \A a \in Elems(down'[f]) :
                                a \in Elems(down[f]) \/ (a = s /\ unsynchronized' = {})
    <2> SUFFICES ASSUME NEW f \in Federate
                 PROVE  /\ InOrder(down'[f])
                        /\ \A a \in Elems(down'[f]) :
                              a \in Elems(down[f]) \/ (a = s /\ unsynchronized' = {})
        OBVIOUS
    <2>1. down[f] \in Seq(Message) /\ InOrder(down[f])
        BY DEF TypeOK, Ordered
    <2>2. \A a \in Elems(down[f]) : MayFollow(a, s)
        BY <1>3 DEF MayFollow
    <2>3. InOrder(Append(down[f], s)) /\ Elems(Append(down[f], s)) = Elems(down[f]) \cup {s}
        BY <2>1, <2>2, InOrderAppend, ElemsAppend
    <2>4. CASE UNCHANGED down
        BY <2>1, <2>4
    <2>5. CASE unsynchronized = {g} /\ down' = [k \in Federate |-> Append(down[k], s)]
        BY <1>1, <2>3, <2>5
    <2> QED
        BY <1>2, <2>4, <2>5
<1>9. Ordered'
    <2>1. \A f \in Federate : InOrder(up'[f])
        BY <1>4 DEF Ordered
    <2>2. ASSUME NEW f \in Federate, NEW k \in Federate, NEW a \in Elems(down'[f]),
                 NEW b \in Elems(up'[k])
          PROVE  MayFollow(a, b)
        <3>1. CASE a \in Elems(down[f])
            BY <1>6, <3>1 DEF Ordered
        <3>2. CASE a = s /\ unsynchronized' = {}
            BY <1>3, <1>7, <3>2 DEF MayFollow, Promises
        <3> QED
            BY <1>8, <3>1, <3>2
    <2> QED
        BY <1>8, <2>1, <2>2 DEF Ordered
<1>10. MessagesHold'
    <2>1. \A a : Genuine(a) => Genuine(a)'
        BY <1>1 DEF Genuine
    <2>2. unsynchronized' = {} => Genuine(s)'
        BY <1>3 DEF Genuine, Promises
    <2>3. \A f \in Federate : \A m \in Elems(up'[f]) :
             Genuine(m)' /\ m.fed = f /\ (m.kind = "REGULATOR_ON" => f \in unsynchronized')
        BY <1>6, <1>7, <2>1 DEF MessagesHold
    <2>4. \A f \in Federate : \A m \in Elems(down'[f]) :
             Genuine(m)' /\ (m.kind \in {"NULL", "EVENT"} => m.fed # f) /\ m.kind # "ACHIEVED"
        BY <1>3, <1>8, <2>1, <2>2 DEF MessagesHold
    <2> QED
        BY <2>3, <2>4 DEF MessagesHold
<1>11. StartupHolds'
    <2>1. phase[g] # "starting"
        BY <1>1, <1>5 DEF Genuine
    <2>2. \A f \in Federate : Synced(f)' <=> Synced(f)
        BY <1>1 DEF Synced
    <2> QED
        BY <1>1, <1>3, <1>8, <2>1, <2>2 DEF StartupHolds
<1>12. \A f, k \in Federate : \A a \in Path(f, k)' : a \in Path(f, k) \/ a = s
    BY <1>6, <1>8 DEF Path
<1>13. ClocksHold'
    <2>1. \A f \in Federate : DOMAIN clocks[f] \subseteq Federate
        BY DEF TypeOK, ClockSet
    <2> QED
        BY <1>1, <1>3, <1>12, <2>1 DEF ClocksHold
<1>14. Known'
    <2>1. \A f \in Federate : Elems(down[f]) \subseteq Elems(down'[f])
        <3>1. \A f \in Federate : Elems(Append(down[f], s)) = Elems(down[f]) \cup {s}
            BY StreamTypes, ElemsAppend
        <3> QED
            BY <1>2, <3>1
    <2>2. \A f, k \in Federate : \A a \in Path(f, k) : a.kind = "REGULATOR_ON" => a \in Path(f, k)'
        BY <1>1, <1>4, <2>1 DEF Path
    <2> QED
        BY <1>1, <1>3, <1>12, <2>2 DEF Known
<1> QED
    BY <1>9, <1>10, <1>11, <1>13, <1>14

-----------------------------------------------------------------------------
(* The paths, when the RTIA of f processes the head of its stream. *)

\* An RTIA that applies the head of its stream to its clocks keeps the paths.
LEMMA ReceiveKeepsPath ==
    ASSUME TypeOK, PathInvariant, NEW f \in Federate, ProcessNetworkMessage(f)
    PROVE  PathInvariant'
<1> USE DEF PathInvariant
<1>0. PICK h : h = Head(down[f])
    OBVIOUS
<1>1. /\ down[f] # <<>> /\ down' = [down EXCEPT ![f] = Tail(@)]
      /\ UNCHANGED <<up, promised, is_regulating, phase, unsynchronized>>
    BY DEF ProcessNetworkMessage, ReceiveClock, ReceiveCommand, ReceiveEvent, Receives,
        roleVars, promiseVars, rtigVars
<1>2. /\ Elems(down[f]) = {h} \cup Elems(down'[f])
      /\ InOrder(down'[f]) /\ \A m \in Elems(down'[f]) : MayFollow(h, m)
      /\ \A k \in Federate \ {f} : down'[k] = down[k]
      /\ h \in Message
    <2>1. down[f] \in Seq(Message) /\ down'[f] = Tail(down[f]) /\ InOrder(down[f])
        BY <1>1 DEF TypeOK, Ordered
    <2> QED
        BY <1>0, <1>1, <2>1, ElemsTail, InOrderTail DEF TypeOK
<1>3. Genuine(h) /\ h.fed \in Federate /\ h.date \in Nat
    BY <1>2, MessageFields DEF MessagesHold
<1>4. \A k \in Federate : Elems(down'[k]) \subseteq Elems(down[k])
    BY <1>2
<1>5. \A a : Genuine(a)' <=> Genuine(a)
    BY <1>1 DEF Genuine
<1>6. Ordered'
    BY <1>1, <1>2, <1>4 DEF Ordered
<1>7. MessagesHold'
    BY <1>1, <1>4, <1>5 DEF MessagesHold
<1>8. StartupHolds'
    <2>1. CASE UNCHANGED commands
        BY <1>1, <1>4, <2>1 DEF StartupHolds, Synced
    <2>2. CASE commands' = [commands EXCEPT ![f] = Append(@, h)]
        <3>1. Elems(commands'[f]) = Elems(commands[f]) \cup {h}
            BY <2>2, ElemsAppend DEF TypeOK
        <3>2. \A k \in Federate \ {f} : commands'[k] = commands[k]
            BY <2>2 DEF TypeOK
        <3>3. \A k \in Federate : Synced(k)' =>
                 Synced(k) \/ (k = f /\ h.kind = "SYNCHRONIZED")
            BY <1>1, <3>1, <3>2 DEF Synced
        <3>4. h.kind = "SYNCHRONIZED" =>
                 unsynchronized = {} /\ \A m \in Elems(down'[f]) : m.kind # "REGULATOR_ON"
            BY <1>2, <1>3 DEF Genuine, MayFollow
        <3> QED
            BY <1>1, <1>4, <3>3, <3>4 DEF StartupHolds
    <2> QED
        BY <1>0, <2>1, <2>2 DEF ProcessNetworkMessage, ReceiveClock, ReceiveCommand, ReceiveEvent,
            queueVars
<1>9. \A k, g \in Federate : Path(k, g)' \subseteq Path(k, g)
    BY <1>1, <1>4 DEF Path
<1>10. \A k, g \in Federate : \A a \in Path(k, g) : a \in Path(k, g)' \/ (a = h /\ k = f /\ g = h.fed)
    BY <1>1, <1>2 DEF Path
<1>11. \A m \in Path(f, h.fed)' : MayFollow(h, m) /\ m.fed = h.fed
    BY <1>1, <1>2, <1>3 DEF Path, Ordered
<1>12. DOMAIN clocks' = Federate /\ \A k \in Federate \ {f} : clocks'[k] = clocks[k]
    BY DEF ProcessNetworkMessage, ReceiveClock, ReceiveCommand, ReceiveEvent, TypeOK
<1>13. \/ h.kind = "NULL" /\ clocks'[f] = Update(clocks[f], h.fed, h.date)
       \/ h.kind = "REGULATOR_ON" /\ clocks'[f] = Insert(clocks[f], h.fed, h.date)
       \/ h.kind = "REGULATOR_OFF" /\ clocks'[f] = Remove(clocks[f], h.fed)
       \/ h.kind \notin {"NULL", "REGULATOR_ON", "REGULATOR_OFF"} /\ clocks'[f] = clocks[f]
    BY <1>0 DEF ProcessNetworkMessage, ReceiveClock, ReceiveCommand, ReceiveEvent, Receives, TypeOK
<1>14. /\ DOMAIN clocks[f] \subseteq Federate
       /\ \A g \in DOMAIN clocks[f] : clocks[f][g] \in Nat
    BY DEF TypeOK, ClockSet
<1>15. ClocksHold'
    <2>1. ASSUME NEW k \in Federate \ {f}, NEW g \in DOMAIN clocks'[k]
          PROVE  /\ clocks'[k][g] <= promised'[g]
                 /\ \A m \in Path(k, g)' : m.kind = "EVENT" => clocks'[k][g] <= m.date
        <3>1. g \in Federate /\ g \in DOMAIN clocks[k]
            BY <1>12, <2>1 DEF TypeOK, ClockSet
        <3> QED
            BY <1>1, <1>9, <1>12, <2>1, <3>1 DEF ClocksHold
    <2>2. ASSUME NEW g \in DOMAIN clocks'[f]
          PROVE  /\ clocks'[f][g] <= promised'[g]
                 /\ \A m \in Path(f, g)' : m.kind = "EVENT" => clocks'[f][g] <= m.date
        <3>1. CASE g \in DOMAIN clocks[f] /\ clocks'[f][g] = clocks[f][g]
            BY <1>1, <1>9, <1>14, <3>1 DEF ClocksHold
        <3>2. CASE g = h.fed /\ clocks'[f][g] = h.date /\ h.kind \in Promises
            BY <1>1, <1>3, <1>11, <3>2 DEF MayFollow, Genuine
        <3> QED
            BY <1>13, <2>2, <3>1, <3>2 DEF Update, Insert, Remove, Promises
    <2> QED
        BY <1>12, <2>1, <2>2 DEF ClocksHold
<1>16. Known'
    <2> SUFFICES ASSUME NEW k \in Federate, NEW g \in Federate,
                        is_regulating[g] \/ \E m \in Path(k, g)' : m.kind = "EVENT"
                 PROVE  \/ g \in DOMAIN clocks'[k]
                        \/ \E m \in Path(k, g)' : m.kind = "REGULATOR_ON"
        BY <1>1 DEF Known
    <2>1. g \in DOMAIN clocks[k] \/ \E m \in Path(k, g) : m.kind = "REGULATOR_ON"
        BY <1>9 DEF Known
    <2>2. CASE k # f
        BY <1>10, <1>12, <2>1, <2>2
    <2>3. CASE k = f /\ h.kind = "REGULATOR_ON"
        BY <1>10, <1>13, <2>1, <2>3 DEF Insert
    <2>4. CASE k = f /\ h.kind = "REGULATOR_OFF"
        <3>1. g # h.fed
            BY <1>3, <1>11, <2>4 DEF Genuine, MayFollow
        <3> QED
            BY <1>10, <1>13, <2>1, <2>4, <3>1 DEF Remove
    <2>5. CASE k = f /\ h.kind \notin {"REGULATOR_ON", "REGULATOR_OFF"}
        BY <1>10, <1>13, <2>1, <2>5 DEF Update
    <2> QED
        BY <2>2, <2>3, <2>4, <2>5
<1> QED
    BY <1>6, <1>7, <1>8, <1>15, <1>16

(* The paths, when f gives a command to its federate, and when nothing on them moves. *)

\* A federate starts only once its RTIA has met every regulator.
LEMMA CommandKeepsPath ==
    ASSUME TypeOK, PathInvariant, NEW f \in Federate, DeliverCommand(f)
    PROVE  PathInvariant'
<1> USE DEF PathInvariant
<1> DEFINE h == Head(commands[f])
<1>1. UNCHANGED <<up, down, promised, is_regulating, unsynchronized, clocks>>
    BY DEF DeliverCommand, promiseVars, roleVars, rtigVars
<1>2. Elems(commands[f]) = {h} \cup Elems(commands'[f])
    BY ElemsTail DEF DeliverCommand, TypeOK
<1>3. \A k \in Federate \ {f} : commands'[k] = commands[k] /\ phase'[k] = phase[k]
    BY DEF DeliverCommand, TypeOK
<1>4. phase'[f] = phase[f] \/ (phase'[f] = "started" /\ h.kind = "SYNCHRONIZED")
    BY DEF DeliverCommand, TypeOK
<1>5. \A k \in Federate : Synced(k)' => Synced(k)
    BY <1>2, <1>3, <1>4 DEF Synced
<1>6. StartupHolds'
    BY <1>1, <1>3, <1>4, <1>5 DEF StartupHolds
<1>7. \A m \in Message : Genuine(m) => Genuine(m)'
    BY <1>1, <1>3, <1>4, MessageFields DEF Genuine
<1>8. MessagesHold'
    BY <1>1, <1>7, StreamTypes DEF MessagesHold
<1> QED
    BY <1>1, <1>6, <1>8 DEF Ordered, ClocksHold, Known, Path

\* Steps that leave the streams, roles and clocks alone keep the paths.
LEMMA SilenceKeepsPath ==
    ASSUME PathInvariant,
           UNCHANGED <<up, down, promised, is_regulating, phase, unsynchronized, clocks, commands>>
    PROVE  PathInvariant'
BY DEF PathInvariant, Ordered, MessagesHold, StartupHolds, ClocksHold, Known, Path, Genuine, Synced
=============================================================================
