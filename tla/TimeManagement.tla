--------------------------- MODULE TimeManagement ---------------------------
(***************************************************************************)
(* Time management of one CERTI federation: the RTIA of every federate       *)
(* (src/RTIA/TimeManagement.cc, its Queues and the dispatch of network       *)
(* messages), the RTIG that relays between them (src/RTIG/Federation.cc and  *)
(* MessageProcessor.cc), and the two TCP streams that join each RTIA to the  *)
(* RTIG.  The protocol is the conservative NULL message algorithm: a         *)
(* regulating federate promises, in a NULL message, that no later event of   *)
(* its own is earlier than a date; a constrained federate is granted a date  *)
(* when every clock it knows, the last promise received from each regulator, *)
(* has passed it.                                                            *)
(*                                                                           *)
(* An RTIA is sequential: it handles one request of its federate or one      *)
(* network message at a time.  The RTIG is sequential too: it takes the head *)
(* of some federate's stream, changes the federation and writes its          *)
(* responses.  Each action below is one such step.                           *)
(*                                                                           *)
(* Federates follow a discipline that their RTIA does not enforce (section   *)
(* "What the federates do").  Liberties is the set of departures from it     *)
(* that an instance allows; the safety theorems are about Liberties = {}.    *)
(***************************************************************************)
EXTENDS LBTS, Sequences

CONSTANTS
    Federate,       \* the federates, all joined
    Regulators,     \* those that enable time regulation at start-up
    Constraineds,   \* those that enable time constraint at start-up
    Asynchronous,   \* those that enabled asynchronous delivery
    Times,          \* the dates federates ask for and put on their events
    Lookaheads,     \* the lookaheads federates ask for
    Eps,            \* epsilon2, what stands for a zero lookahead in an advance
    Services,       \* the services the federates of an instance call
    Liberties,      \* the departures from discipline an instance allows
    MaxSpent        \* bound: events, and changes of role, of one federate

\* Dates further apart than epsilon2 are what the zero lookahead trick needs.
ASSUME TimesAssumption ==
    /\ Times \subseteq Nat /\ 0 \in Times
    /\ Eps \in Nat \ {0}
    /\ \A s, t \in Times : s < t => s + Eps <= t

\* setLookahead refuses epsilon2; setTimeRegulating does not check for it.
ASSUME LookaheadsAssumption == Lookaheads \subseteq Nat \ {Eps}

ASSUME RolesAssumption ==
    /\ Regulators \subseteq Federate
    /\ Constraineds \subseteq Federate
    /\ Asynchronous \subseteq Federate
    /\ MaxSpent \in Nat

VARIABLES
    \* the RTIA of each federate: TimeManagement
    avancee_en_cours, date_avancee, type_granted_state, heure_courante,
    lookahead_courant, lastNullMessageDate, is_regulating, is_constrained,
    clocks,         \* the LBTS it inherits from
    \* the RTIA of each federate: Queues
    commands, fifos, tsos,
    \* the RTIG
    my_regulators,  \* the clocks of the regulating federates
    unsynchronized, \* the federates that have not achieved the start-up label
    \* the TCP streams: from each RTIA to the RTIG and back
    up, down,
    \* the federates
    phase,          \* where each is in the start-up protocol
    spent,          \* how much of MaxSpent each has used
    \* kept for the properties only
    promised,       \* the greatest date each regulator has promised
    horizon         \* the greatest date each federate was granted or delivered

advanceVars == <<avancee_en_cours, date_avancee, type_granted_state,
                 heure_courante, lookahead_courant>>
roleVars    == <<is_regulating, is_constrained>>
queueVars   == <<commands, fifos, tsos>>
rtigVars    == <<my_regulators, unsynchronized>>
promiseVars == <<up, lastNullMessageDate, promised>>
vars == <<advanceVars, roleVars, clocks, queueVars, rtigVars, promiseVars,
          down, phase, spent, horizon>>

-----------------------------------------------------------------------------
(* Messages. *)

Kinds == {"NULL", "REGULATOR_ON", "REGULATOR_OFF", "CONSTRAINED_ON",
          "CONSTRAINED_OFF", "EVENT", "RECEIVE_ORDER", "ACHIEVED",
          "REGULATION_ENABLED", "CONSTRAINED_ENABLED", "SYNCHRONIZED"}

\* id tells apart the events of one federate; it is 0 in other messages.
Message == [kind : Kinds, fed : Federate, date : Nat, id : Nat]

Msg(kind, g, date) == [kind |-> kind, fed |-> g, date |-> date, id |-> 0]

Later(s, t) == IF s < t THEN t ELSE s

Idle(f) == avancee_en_cours[f] = "PAS_D_AVANCEE"

Init ==
    /\ avancee_en_cours = [f \in Federate |-> "PAS_D_AVANCEE"]
    /\ date_avancee = [f \in Federate |-> 0]
    /\ type_granted_state = [f \in Federate |-> "UNINITIALIZED"]
    /\ heure_courante = [f \in Federate |-> 0]
    /\ lookahead_courant = [f \in Federate |-> 0]
    /\ lastNullMessageDate = [f \in Federate |-> 0]
    /\ is_regulating = [f \in Federate |-> FALSE]
    /\ is_constrained = [f \in Federate |-> FALSE]
    /\ clocks = [f \in Federate |-> NoClock]
    /\ commands = [f \in Federate |-> <<>>]
    /\ fifos = [f \in Federate |-> <<>>]
    /\ tsos = [f \in Federate |-> <<>>]
    /\ my_regulators = NoClock
    /\ unsynchronized = Federate
    /\ up = [f \in Federate |-> <<>>]
    /\ down = [f \in Federate |-> <<>>]
    /\ phase = [f \in Federate |-> "starting"]
    /\ spent = [f \in Federate |-> 0]
    /\ promised = [f \in Federate |-> 0]
    /\ horizon = [f \in Federate |-> 0]

-----------------------------------------------------------------------------
(***************************************************************************)
(* What the federates do.  A federate enables the roles it will play, then   *)
(* achieves the start-up synchronization point, and advances or sends events *)
(* only when the federation is synchronized, as the federates of the test    *)
(* suite do (src/test/Billard/main.cc).  The RTIA checks none of this.       *)
(***************************************************************************)

Started(f) == phase[f] = "started"

CanSpend(f) == spent[f] < MaxSpent
Spend(f, cost) == spent' = [spent EXCEPT ![f] = @ + cost]

\* Roles are enabled at start-up, and disabled after it.
MayEnable(f, liberty)  == phase[f] = "starting" \/ (liberty \in Liberties /\ CanSpend(f))
MayDisable(f, liberty) == Started(f) \/ liberty \in Liberties

\* A regulating federate's lookahead only grows, and not while it is the zero lookahead in use.
MaySetLookahead(f, lookahead) ==
    \/ /\ is_regulating[f]
       /\ lookahead >= lookahead_courant[f]
       /\ type_granted_state[f] # "AFTER_TAR_OR_NER_WITH_ZERO_LK"
    \/ "lookahead_change" \in Liberties

\* After a zero lookahead grant, the "available" services go strictly forward.
MayRequestAvailable(f, date) ==
    \/ type_granted_state[f] # "AFTER_TAR_OR_NER_WITH_ZERO_LK"
    \/ date > heure_courante[f]
    \/ "zero_lookahead_switch" \in Liberties

\* Dated events come from regulating federates that have advanced once.
MaySendDated(f) ==
    /\ is_regulating[f] \/ "unregulated_sender" \in Liberties
    /\ \/ type_granted_state[f] # "UNINITIALIZED"
       \/ "event_before_advance" \in Liberties
    /\ CanSpend(f)

-----------------------------------------------------------------------------
(* The services of TimeManagement, called by the federate f. *)

\* Mutant of SendNullMessage: the lookahead is forgotten.
SendNullMessageBare(f, date, lookahead) ==
    IF date > lastNullMessageDate[f]
    THEN /\ up' = [up EXCEPT ![f] = Append(@, Msg("NULL", f, date))]
         /\ lastNullMessageDate' = [lastNullMessageDate EXCEPT ![f] = date]
         /\ promised' = [promised EXCEPT ![f] = Later(@, date)]
    ELSE UNCHANGED promiseVars

\* sendNullMessage: NULL(date + lookahead), unless it says nothing new.
SendNullMessage(f, date, lookahead) ==
    LET promise == date + lookahead IN
    IF promise > lastNullMessageDate[f]
    THEN /\ up' = [up EXCEPT ![f] = Append(@, Msg("NULL", f, promise))]
         /\ lastNullMessageDate' = [lastNullMessageDate EXCEPT ![f] = promise]
         /\ promised' = [promised EXCEPT ![f] = Later(@, promise)]
    ELSE UNCHANGED promiseVars

SendNullIfRegulating(f, date, lookahead) ==
    IF is_regulating[f] THEN SendNullMessage(f, date, lookahead)
                        ELSE UNCHANGED promiseVars

\* setTimeRegulating. The date asked for is ignored; the flag is set at once.
SetTimeRegulating(f, etat, lookahead) ==
    /\ is_regulating[f] # etat
    /\ Idle(f)
    /\ IF etat THEN f \in Regulators /\ MayEnable(f, "late_regulation")
               ELSE "unregulate" \in Services /\ MayDisable(f, "late_regulation")
    /\ Spend(f, IF etat /\ phase[f] # "starting" THEN 1 ELSE 0)
    /\ is_regulating' = [is_regulating EXCEPT ![f] = etat]
    /\ lookahead_courant' = [lookahead_courant EXCEPT ![f] = lookahead]
    /\ LET date == heure_courante[f] + lookahead IN
       /\ up' = [up EXCEPT ![f] = Append(@,
                    Msg(IF etat THEN "REGULATOR_ON" ELSE "REGULATOR_OFF", f, date))]
       /\ promised' = [promised EXCEPT ![f] = IF etat THEN date ELSE @]
    /\ UNCHANGED <<avancee_en_cours, date_avancee, type_granted_state,
                   heure_courante, lastNullMessageDate, is_constrained, clocks,
                   queueVars, rtigVars, down, phase, horizon>>

SetTimeConstrained(f, etat) ==
    /\ is_constrained[f] # etat
    /\ Idle(f)
    /\ IF etat THEN f \in Constraineds /\ MayEnable(f, "late_constrained")
               ELSE /\ "unconstrain" \in Services /\ CanSpend(f)
                    /\ MayDisable(f, "late_constrained")
    /\ Spend(f, IF etat /\ phase[f] = "starting" THEN 0 ELSE 1)
    /\ is_constrained' = [is_constrained EXCEPT ![f] = etat]
    /\ up' = [up EXCEPT ![f] = Append(@,
                  Msg(IF etat THEN "CONSTRAINED_ON" ELSE "CONSTRAINED_OFF", f, 0))]
    /\ UNCHANGED <<advanceVars, lastNullMessageDate, promised, is_regulating,
                   clocks, queueVars, rtigVars, down, phase, horizon>>

\* setLookahead. The new value holds at once, whatever was promised before.
SetLookahead(f, lookahead) ==
    /\ "lookahead" \in Services
    /\ MaySetLookahead(f, lookahead)
    /\ lookahead_courant' = [lookahead_courant EXCEPT ![f] = lookahead]
    /\ SendNullIfRegulating(f, heure_courante[f], lookahead)
    /\ UNCHANGED <<avancee_en_cours, date_avancee, type_granted_state,
                   heure_courante, roleVars, clocks, queueVars, rtigVars, down,
                   phase, spent, horizon>>

\* Mutant of RequestAccepted: a date already passed is accepted.
RequestAcceptedAnyDate(f, date) == Idle(f)

\* The two refusals that the four requests share.
RequestAccepted(f, date) == Idle(f) /\ heure_courante[f] <= date

\* The lookahead of a request to advance: epsilon2 stands for zero.
RequestLookahead(f) ==
    IF lookahead_courant[f] = 0 THEN Eps ELSE lookahead_courant[f]

GrantedState(f) ==
    IF lookahead_courant[f] = 0 THEN "AFTER_TAR_OR_NER_WITH_ZERO_LK"
                                ELSE "AFTER_TAR_OR_NER"

BeginAdvance(f, kind, date, granted, lookahead) ==
    /\ avancee_en_cours' = [avancee_en_cours EXCEPT ![f] = kind]
    /\ date_avancee' = [date_avancee EXCEPT ![f] = date]
    /\ type_granted_state' = [type_granted_state EXCEPT ![f] = granted]
    /\ lookahead_courant' = [lookahead_courant EXCEPT ![f] = lookahead]
    /\ UNCHANGED <<heure_courante, roleVars, clocks, queueVars, rtigVars, down,
                   phase, spent, horizon>>

TimeAdvanceRequest(f, date) ==
    /\ "TAR" \in Services /\ Started(f)
    /\ RequestAccepted(f, date)
    /\ SendNullIfRegulating(f, date, RequestLookahead(f))
    /\ BeginAdvance(f, "TAR", date, GrantedState(f), RequestLookahead(f))

TimeAdvanceRequestAvailable(f, date) ==
    /\ "TARA" \in Services /\ Started(f)
    /\ MayRequestAvailable(f, date)
    /\ RequestAccepted(f, date)
    /\ SendNullIfRegulating(f, date, lookahead_courant[f])
    /\ BeginAdvance(f, "TARA", date, "AFTER_TARA_OR_NERA", lookahead_courant[f])

\* No promise at the request: the date to be granted is not known yet.
NextEventRequest(f, date) ==
    /\ "NER" \in Services /\ Started(f)
    /\ RequestAccepted(f, date)
    /\ BeginAdvance(f, "NER", date, GrantedState(f), RequestLookahead(f))
    /\ UNCHANGED promiseVars

(***************************************************************************)
(* nextEventRequestAvailable tests the exception the wrong way round: an     *)
(* acceptable request returns with nothing done, a refused one is carried    *)
(* out over the advance in progress, or towards a date already passed.       *)
(***************************************************************************)
NextEventRequestAvailable(f, date) ==
    /\ "NERA" \in Services /\ Started(f)
    /\ ~ RequestAccepted(f, date)
    /\ BeginAdvance(f, "NERA", date, "AFTER_TARA_OR_NERA", lookahead_courant[f])
    /\ UNCHANGED promiseVars

\* Mutant of EventBase: the pending advance is not looked at.
EventBaseStale(f) == heure_courante[f]

\* The date that an event must exceed or reach: that of the pending advance.
EventBase(f) == IF Idle(f) THEN heure_courante[f] ELSE date_avancee[f]

\* testValidTime, read with a given value of type_granted_state.
ValidTimeIn(f, granted, date) ==
    IF granted = "AFTER_TAR_OR_NER_WITH_ZERO_LK"
    THEN date > EventBase(f)
    ELSE date >= EventBase(f) + lookahead_courant[f]

\* Mutant of TestValidTime: no check, as in deleteObject.
TestValidTimeSkipped(f, date) == TRUE

\* Before the first request the field is uninitialized and may read as either.
TestValidTime(f, date) ==
    IF type_granted_state[f] = "UNINITIALIZED"
    THEN \E granted \in {"AFTER_TAR_OR_NER", "AFTER_TAR_OR_NER_WITH_ZERO_LK"} :
             ValidTimeIn(f, granted, date)
    ELSE ValidTimeIn(f, type_granted_state[f], date)

SendEvent(f, kind, date) ==
    /\ up' = [up EXCEPT ![f] = Append(@,
                  [kind |-> kind, fed |-> f, date |-> date, id |-> spent[f] + 1])]
    /\ spent' = [spent EXCEPT ![f] = @ + 1]
    /\ UNCHANGED <<advanceVars, lastNullMessageDate, promised, roleVars, clocks,
                   queueVars, rtigVars, down, phase, horizon>>

\* updateAttributeValues and sendInteraction with a date.
SendDated(f, date) ==
    /\ "send" \in Services /\ Started(f) /\ MaySendDated(f)
    /\ TestValidTime(f, date)
    /\ SendEvent(f, "EVENT", date)

\* What the federates do: one dates its deletions as it must date its events.
MayDelete(f, date) == TestValidTime(f, date) \/ "dated_delete" \in Liberties

\* deleteObject with a date: the RTIA itself does not call testValidTime.
DeleteObject(f, date) ==
    /\ "delete" \in Services /\ Started(f) /\ MaySendDated(f)
    /\ MayDelete(f, date)
    /\ SendEvent(f, "EVENT", date)

\* The services without a date: their messages are delivered in receive order.
SendReceiveOrder(f) ==
    /\ "receive_order" \in Services /\ Started(f) /\ CanSpend(f)
    /\ SendEvent(f, "RECEIVE_ORDER", 0)

\* synchronizationPointAchieved on the start-up label, the roles enabled.
SynchronizationPointAchieved(f) ==
    /\ phase[f] = "starting"
    /\ is_regulating[f] = (f \in Regulators)
    /\ is_constrained[f] = (f \in Constraineds)
    /\ phase' = [phase EXCEPT ![f] = "synchronizing"]
    /\ up' = [up EXCEPT ![f] = Append(@, Msg("ACHIEVED", f, 0))]
    /\ UNCHANGED <<advanceVars, lastNullMessageDate, promised, roleVars, clocks,
                   queueVars, rtigVars, down, spent, horizon>>

-----------------------------------------------------------------------------
(* tick: one iteration of TimeManagement::tick in the RTIA of f. *)

\* 1st try, a command.
DeliverCommand(f) ==
    /\ commands[f] # <<>>
    /\ commands' = [commands EXCEPT ![f] = Tail(@)]
    /\ phase' = [phase EXCEPT ![f] =
                    IF Head(commands[f]).kind = "SYNCHRONIZED" THEN "started" ELSE @]
    /\ UNCHANGED <<advanceVars, roleVars, clocks, fifos, tsos, rtigVars,
                   promiseVars, down, spent, horizon>>

\* 2nd try, a receive order message, unless f is constrained and not advancing.
DeliverFifo(f) ==
    /\ commands[f] = <<>> /\ fifos[f] # <<>>
    /\ f \in Asynchronous \/ ~ Idle(f) \/ ~ is_constrained[f]
    /\ fifos' = [fifos EXCEPT ![f] = Tail(@)]
    /\ UNCHANGED <<advanceVars, roleVars, clocks, commands, tsos, rtigVars,
                   promiseVars, down, phase, spent, horizon>>

\* Nothing else to give: advance is called (fifos are open while advancing).
Advancing(f, kinds) ==
    /\ commands[f] = <<>> /\ fifos[f] = <<>>
    /\ avancee_en_cours[f] \in kinds

\* giveTsoMessage would give a message dated at most date.
HasTso(f, date) == tsos[f] # <<>> /\ Head(tsos[f]).date <= date

DeliverTso(f) ==
    /\ tsos' = [tsos EXCEPT ![f] = Tail(@)]
    /\ horizon' = [horizon EXCEPT ![f] = Later(@, Head(tsos[f]).date)]
    /\ UNCHANGED <<avancee_en_cours, heure_courante, lookahead_courant>>

\* Mutant of TimeAdvanceGrant: the epsilon of the request outlives the grant.
TimeAdvanceGrantKeepsEps(f, date) ==
    /\ heure_courante' = [heure_courante EXCEPT ![f] = date]
    /\ avancee_en_cours' = [avancee_en_cours EXCEPT ![f] = "PAS_D_AVANCEE"]
    /\ horizon' = [horizon EXCEPT ![f] = Later(@, date)]
    /\ UNCHANGED <<tsos, lookahead_courant>>

\* timeAdvanceGrant, and the advance is over.
TimeAdvanceGrant(f, date) ==
    /\ heure_courante' = [heure_courante EXCEPT ![f] = date]
    /\ lookahead_courant' = [lookahead_courant EXCEPT ![f] = IF @ = Eps THEN 0 ELSE @]
    /\ avancee_en_cours' = [avancee_en_cours EXCEPT ![f] = "PAS_D_AVANCEE"]
    /\ horizon' = [horizon EXCEPT ![f] = Later(@, date)]
    /\ UNCHANGED tsos

\* Mutant of LbtsAllows: never strict.
LbtsAllowsEqual(f, date) == AtMost(date, clocks[f], f)

\* The LBTS lets f reach date: strictly, except for the "available" services.
LbtsAllows(f, date) ==
    \/ Below(date, clocks[f], f)
    \/ avancee_en_cours[f] \in {"TARA", "NERA"} /\ AtMost(date, clocks[f], f)

\* What a tick that calls advance leaves alone.
TickFrame ==
    UNCHANGED <<type_granted_state, roleVars, clocks, commands, fifos, rtigVars,
                down, phase, spent>>

\* timeAdvance, a TSO message dated at most min(LBTS, date_avancee).
TimeAdvanceTso(f) ==
    /\ Advancing(f, {"TAR", "TARA"}) /\ is_constrained[f]
    /\ HasTso(f, date_avancee[f])
    /\ AtMost(Head(tsos[f]).date, clocks[f], f)
    /\ DeliverTso(f)
    /\ UNCHANGED <<date_avancee, promiseVars>>
    /\ TickFrame

\* Mutant of TimeAdvanceDone: the grant does not wait for the TSO messages.
TimeAdvanceDoneEarly(f) ==
    /\ Advancing(f, {"TAR", "TARA"})
    /\ is_constrained[f] => LbtsAllows(f, date_avancee[f])
    /\ TimeAdvanceGrant(f, date_avancee[f])
    /\ UNCHANGED <<date_avancee, promiseVars>>
    /\ TickFrame

\* timeAdvance, no message to give and the LBTS passed.
TimeAdvanceDone(f) ==
    /\ Advancing(f, {"TAR", "TARA"})
    /\ is_constrained[f] =>
          /\ ~ (HasTso(f, date_avancee[f]) /\ AtMost(Head(tsos[f]).date, clocks[f], f))
          /\ LbtsAllows(f, date_avancee[f])
    /\ TimeAdvanceGrant(f, date_avancee[f])
    /\ UNCHANGED <<date_avancee, promiseVars>>
    /\ TickFrame

\* Mutant of DateMin: the date of nextTsoDate is used when there is no message.
DateMinUnchecked(f) ==
    LET dateTSO == IF tsos[f] = <<>> THEN 0 - 1 ELSE Head(tsos[f]).date
    IN  IF dateTSO < date_avancee[f] THEN dateTSO ELSE date_avancee[f]

\* nextEventAdvance, date_min.
DateMin(f) ==
    IF tsos[f] # <<>> /\ Head(tsos[f]).date < date_avancee[f]
    THEN Head(tsos[f]).date ELSE date_avancee[f]

\* nextEventAdvance, constrained and date_min reached: the advance now ends at
\* date_min; its messages are given one by one, then the grant.
NextEventReached(f) ==
    /\ Advancing(f, {"NER", "NERA"}) /\ is_constrained[f]
    /\ LbtsAllows(f, DateMin(f))
    /\ date_avancee' = [date_avancee EXCEPT ![f] = DateMin(f)]
    /\ SendNullIfRegulating(f, DateMin(f), lookahead_courant[f])
    /\ IF HasTso(f, DateMin(f)) THEN DeliverTso(f)
                                ELSE TimeAdvanceGrant(f, DateMin(f))
    /\ TickFrame

\* Mutant of NextEventShort: no NULL message while short of date_min.
NextEventShortSilent(f) == FALSE /\ UNCHANGED vars

\* nextEventAdvance, constrained and short of date_min: promise what the LBTS
\* lets f reach.
NextEventShort(f) ==
    /\ Advancing(f, {"NER", "NERA"}) /\ is_constrained[f]
    /\ ~ LbtsAllows(f, DateMin(f))
    /\ is_regulating[f]
    /\ \E g \in Others(clocks[f], f) :
          /\ IsLBTS(clocks[f][g], clocks[f], f)
          /\ SendNullMessage(f, clocks[f][g], lookahead_courant[f])
    /\ UNCHANGED <<avancee_en_cours, date_avancee, heure_courante,
                   lookahead_courant, tsos, horizon>>
    /\ TickFrame

\* nextEventAdvance, not constrained.
NextEventFree(f) ==
    /\ Advancing(f, {"NER", "NERA"}) /\ ~ is_constrained[f]
    /\ SendNullIfRegulating(f, date_avancee[f], lookahead_courant[f])
    /\ TimeAdvanceGrant(f, date_avancee[f])
    /\ UNCHANGED date_avancee
    /\ TickFrame

Tick(f) ==
    \/ DeliverCommand(f)
    \/ DeliverFifo(f)
    \/ TimeAdvanceTso(f)
    \/ TimeAdvanceDone(f)
    \/ NextEventReached(f)
    \/ NextEventShort(f)
    \/ NextEventFree(f)

-----------------------------------------------------------------------------
(* The RTIG: it takes the head of the stream of federate g. *)

Takes(g, kind) ==
    /\ up[g] # <<>>
    /\ Head(up[g]).kind = kind
    /\ up' = [up EXCEPT ![g] = Tail(@)]
    /\ UNCHANGED <<advanceVars, lastNullMessageDate, promised, roleVars, clocks,
                   queueVars, phase, spent, horizon>>

\* Mutant: the message is sent twice to each.
RespondToOthersTwice(g, m) ==
    down' = [f \in Federate |-> IF f = g THEN down[f] ELSE Append(Append(down[f], m), m)]

\* respondToAll, and respondToAll with an exception.
RespondToAll(m) == down' = [f \in Federate |-> Append(down[f], m)]
RespondToOthers(g, m) ==
    down' = [f \in Federate |-> IF f = g THEN down[f] ELSE Append(down[f], m)]

\* updateRegulator.
UpdateRegulator(g) ==
    /\ Takes(g, "NULL")
    /\ Has(my_regulators, g)
    /\ my_regulators' = Update(my_regulators, g, Head(up[g]).date)
    /\ RespondToOthers(g, Head(up[g]))
    /\ UNCHANGED unsynchronized

\* Mutant of AddRegulator: the other federates are not told.
AddRegulatorAlone(g) ==
    /\ Takes(g, "REGULATOR_ON")
    /\ CanInsert(my_regulators, g)
    /\ my_regulators' = Insert(my_regulators, g, Head(up[g]).date)
    /\ down' = [down EXCEPT ![g] = Append(@, Msg("REGULATION_ENABLED", g, Head(up[g]).date))]
    /\ UNCHANGED unsynchronized

\* addRegulator: the clock to everyone, the confirmation to g, in that order.
AddRegulator(g) ==
    /\ Takes(g, "REGULATOR_ON")
    /\ CanInsert(my_regulators, g)
    /\ my_regulators' = Insert(my_regulators, g, Head(up[g]).date)
    /\ down' = [f \in Federate |->
                  IF f = g
                  THEN down[f] \o <<Head(up[g]),
                                    Msg("REGULATION_ENABLED", g, Head(up[g]).date)>>
                  ELSE Append(down[f], Head(up[g]))]
    /\ UNCHANGED unsynchronized

\* Mutant of RemoveRegulator: its responses are dropped, as in Federation::kill.
RemoveRegulatorSilently(g) ==
    /\ Takes(g, "REGULATOR_OFF")
    /\ Has(my_regulators, g)
    /\ my_regulators' = Remove(my_regulators, g)
    /\ UNCHANGED <<down, unsynchronized>>

\* removeRegulator: everyone is told, g too.
RemoveRegulator(g) ==
    /\ Takes(g, "REGULATOR_OFF")
    /\ Has(my_regulators, g)
    /\ my_regulators' = Remove(my_regulators, g)
    /\ RespondToAll(Head(up[g]))
    /\ UNCHANGED unsynchronized

\* setConstrained: a confirmation when it is switched on.
SetConstrained(g) ==
    /\ \/ /\ Takes(g, "CONSTRAINED_ON")
          /\ down' = [down EXCEPT ![g] = Append(@, Msg("CONSTRAINED_ENABLED", g, 0))]
       \/ /\ Takes(g, "CONSTRAINED_OFF")
          /\ UNCHANGED down
    /\ UNCHANGED rtigVars

\* The broadcast of an update, an interaction or a deletion: every other
\* federate is taken to have subscribed.
Broadcast(g) ==
    /\ Takes(g, "EVENT") \/ Takes(g, "RECEIVE_ORDER")
    /\ RespondToOthers(g, Head(up[g]))
    /\ UNCHANGED rtigVars

\* unregisterSynchronization: the last federate to achieve the label.
UnregisterSynchronization(g) ==
    /\ Takes(g, "ACHIEVED")
    /\ unsynchronized' = unsynchronized \ {g}
    /\ IF unsynchronized = {g} THEN RespondToAll(Msg("SYNCHRONIZED", g, 0))
                               ELSE UNCHANGED down
    /\ UNCHANGED my_regulators

Rtig(g) ==
    \/ UpdateRegulator(g)
    \/ AddRegulator(g)
    \/ RemoveRegulator(g)
    \/ SetConstrained(g)
    \/ Broadcast(g)
    \/ UnregisterSynchronization(g)

-----------------------------------------------------------------------------
(* The RTIA of f: processNetworkMessage on the head of the stream to f. *)

Receives(f, kinds) ==
    /\ down[f] # <<>>
    /\ Head(down[f]).kind \in kinds
    /\ down' = [down EXCEPT ![f] = Tail(@)]
    /\ UNCHANGED <<advanceVars, roleVars, rtigVars, promiseVars, phase, spent,
                   horizon>>

ReceiveClock(f) ==
    LET m == Head(down[f])
    IN  /\ \/ /\ Receives(f, {"NULL"})
              /\ Has(clocks[f], m.fed)
              /\ clocks' = [clocks EXCEPT ![f] = Update(@, m.fed, m.date)]
           \/ /\ Receives(f, {"REGULATOR_ON"})
              /\ CanInsert(clocks[f], m.fed)
              /\ clocks' = [clocks EXCEPT ![f] = Insert(@, m.fed, m.date)]
           \/ /\ Receives(f, {"REGULATOR_OFF"})
              /\ Has(clocks[f], m.fed)
              /\ clocks' = [clocks EXCEPT ![f] = Remove(@, m.fed)]
        /\ UNCHANGED queueVars

\* insertLastCommand.
ReceiveCommand(f) ==
    /\ Receives(f, {"REGULATION_ENABLED", "CONSTRAINED_ENABLED", "SYNCHRONIZED"})
    /\ commands' = [commands EXCEPT ![f] = Append(@, Head(down[f]))]
    /\ UNCHANGED <<clocks, fifos, tsos>>

\* insertTsoMessage: behind the messages of the same date.
InsertTso(f, m) ==
    \E k \in 0 .. Len(tsos[f]) :
        /\ \A i \in 1 .. k : tsos[f][i].date <= m.date
        /\ k < Len(tsos[f]) => tsos[f][k + 1].date > m.date
        /\ tsos' = [tsos EXCEPT ![f] = SubSeq(@, 1, k) \o <<m>> \o SubSeq(@, k + 1, Len(@))]

\* Mutant of ReceiveEvent: the constraint of the receiver is not looked at.
ReceiveEventUnordered(f) ==
    /\ Receives(f, {"EVENT", "RECEIVE_ORDER"})
    /\ fifos' = [fifos EXCEPT ![f] = Append(@, Head(down[f]))]
    /\ UNCHANGED <<tsos, clocks, commands>>

\* Updates, interactions and deletions: in TSO order when dated and f constrained.
ReceiveEvent(f) ==
    /\ \/ /\ Receives(f, {"EVENT"})
          /\ is_constrained[f]
          /\ InsertTso(f, Head(down[f]))
          /\ UNCHANGED fifos
       \/ /\ Receives(f, {"EVENT", "RECEIVE_ORDER"})
          /\ Head(down[f]).kind = "EVENT" => ~ is_constrained[f]
          /\ fifos' = [fifos EXCEPT ![f] = Append(@, Head(down[f]))]
          /\ UNCHANGED tsos
    /\ UNCHANGED <<clocks, commands>>

ProcessNetworkMessage(f) == ReceiveClock(f) \/ ReceiveCommand(f) \/ ReceiveEvent(f)

-----------------------------------------------------------------------------
Request(f) ==
    \/ \E lookahead \in Lookaheads : SetTimeRegulating(f, TRUE, lookahead)
    \/ SetTimeRegulating(f, FALSE, 0)
    \/ \E etat \in BOOLEAN : SetTimeConstrained(f, etat)
    \/ \E lookahead \in Lookaheads : SetLookahead(f, lookahead)
    \/ \E date \in Times : TimeAdvanceRequest(f, date)
    \/ \E date \in Times : TimeAdvanceRequestAvailable(f, date)
    \/ \E date \in Times : NextEventRequest(f, date)
    \/ \E date \in Times : NextEventRequestAvailable(f, date)
    \/ \E date \in Times : SendDated(f, date)
    \/ \E date \in Times : DeleteObject(f, date)
    \/ SendReceiveOrder(f)
    \/ SynchronizationPointAchieved(f)

Next == \E f \in Federate :
    Request(f) \/ Tick(f) \/ Rtig(f) \/ ProcessNetworkMessage(f)

Spec == Init /\ [][Next]_vars

-----------------------------------------------------------------------------
(* Properties. *)

Granted == {"UNINITIALIZED", "AFTER_TAR_OR_NER", "AFTER_TAR_OR_NER_WITH_ZERO_LK",
            "AFTER_TARA_OR_NERA"}

ClockSet(c) == DOMAIN c \subseteq Federate /\ c \in [DOMAIN c -> Nat]

\* Every variable has the type the classes TimeManagement, Queues, LBTS and
\* Federation give it.
TypeOK ==
    /\ avancee_en_cours \in [Federate -> {"PAS_D_AVANCEE", "TAR", "TARA", "NER", "NERA"}]
    /\ date_avancee \in [Federate -> Nat]
    /\ type_granted_state \in [Federate -> Granted]
    /\ heure_courante \in [Federate -> Nat]
    /\ lookahead_courant \in [Federate -> Nat]
    /\ lastNullMessageDate \in [Federate -> Nat]
    /\ is_regulating \in [Federate -> BOOLEAN]
    /\ is_constrained \in [Federate -> BOOLEAN]
    /\ DOMAIN clocks = Federate /\ \A f \in Federate : ClockSet(clocks[f])
    /\ commands \in [Federate -> Seq(Message)]
    /\ fifos \in [Federate -> Seq(Message)]
    /\ tsos \in [Federate -> Seq(Message)]
    /\ ClockSet(my_regulators)
    /\ unsynchronized \subseteq Federate
    /\ up \in [Federate -> Seq(Message)]
    /\ down \in [Federate -> Seq(Message)]
    /\ phase \in [Federate -> {"starting", "synchronizing", "started"}]
    /\ spent \in [Federate -> Nat]
    /\ promised \in [Federate -> Nat]
    /\ horizon \in [Federate -> Nat]

Events(s) == {m \in {s[i] : i \in DOMAIN s} : m.kind = "EVENT"}

\* The dated events on the streams towards f.
InFlight(f) ==
    Events(down[f]) \cup UNION {Events(up[g]) : g \in Federate \ {f}}

\* The dated events sent by another federate and not given to f yet.
Pending(f) == InFlight(f) \cup Events(tsos[f])

\* A constrained federate never meets an event earlier than a date it was
\* granted, or than an event it was given: wherever such an event is, on either
\* stream or in the TSO queue, its date is not in the past of the federate.
\* (timeAdvance and nextEventAdvance against every regulator's NULL messages.)
NoMessageInThePast ==
    \A f \in Federate : is_constrained[f] =>
        \A m \in Pending(f) : horizon[f] <= m.date

\* A grant that ends a timeAdvanceRequest or a nextEventRequest is final: no
\* event of the granted date itself is still to come (the strict comparison
\* with the LBTS).
GrantIsFinal ==
    \A f \in Federate :
        (/\ is_constrained[f] /\ Idle(f)
         /\ type_granted_state[f] \in {"AFTER_TAR_OR_NER", "AFTER_TAR_OR_NER_WITH_ZERO_LK"})
        => \A m \in Pending(f) : heure_courante[f] < m.date

\* A clock is a lower bound: no event of g on its way to the RTIA of f is earlier
\* than the clock that f has for g (LBTS::update, fed by the NULL messages that
\* share the stream with the events).
ClocksAreLowerBounds ==
    \A f \in Federate : \A g \in Others(clocks[f], f) :
        \A m \in InFlight(f) : m.fed = g => clocks[f][g] <= m.date

\* No clock operation throws: what the head of a stream asks of a clock set,
\* the set can do (the RTIinternalErrors of LBTS::insert, update and remove).
NoInternalError ==
    LET Possible(s, c) ==
            s # <<>> =>
               /\ Head(s).kind \in {"NULL", "REGULATOR_OFF"} => Has(c, Head(s).fed)
               /\ Head(s).kind = "REGULATOR_ON" => CanInsert(c, Head(s).fed)
    IN  \A f \in Federate : Possible(up[f], my_regulators) /\ Possible(down[f], clocks[f])

\* A regulator that asks to advance has told the federation so: it has promised
\* the date it asked for plus its lookahead (the NULL message of
\* timeAdvanceRequest, which sendNullMessage may hold back).
AdvanceIsAnnounced ==
    \A g \in Federate :
        is_regulating[g] /\ avancee_en_cours[g] \in {"TAR", "TARA"}
            => date_avancee[g] + lookahead_courant[g] <= promised[g]

\* No federate sends an event earlier than what it has promised in a NULL
\* message or when it enabled regulation (testValidTime against sendNullMessage).
KeepsPromise ==
    [][\A g \in Federate : \A m \in Events(up'[g]) \ Events(up[g]) :
            promised[g] <= m.date]_vars

\* A grant is never to a date before one already granted or delivered.
TimeGoesForward ==
    [][\A f \in Federate :
         (avancee_en_cours'[f] = "PAS_D_AVANCEE" /\ ~ Idle(f))
            => horizon[f] <= heure_courante'[f]]_vars
=============================================================================
