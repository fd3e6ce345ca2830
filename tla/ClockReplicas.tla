---------------------------- MODULE ClockReplicas ----------------------------
(***************************************************************************)
(* The clock sets are replicas, whatever the federates do: the clock that    *)
(* the RTIG has for a regulator, brought forward by what the stream of the   *)
(* regulator still holds, is what the regulator says of itself; the clock    *)
(* that an RTIA has for it, brought forward by the stream to that RTIA, is   *)
(* the clock of the RTIG.  On the way each message finds what LBTS::insert,  *)
(* update and remove ask for.                                               *)
(***************************************************************************)
EXTENDS TimeManagement

\* What a clock set knows of g: nothing, or one date.
Clock(c, g) == IF Has(c, g) THEN {c[g]} ELSE {}

\* What it knows after the message m.
ClockAfter(m, g, clock) ==
    CASE m.fed = g /\ m.kind = "REGULATOR_ON"  -> {m.date}
      [] m.fed = g /\ m.kind = "REGULATOR_OFF" -> {}
      [] m.fed = g /\ m.kind = "NULL"          -> {Later(date, m.date) : date \in clock}
      [] OTHER                                 -> clock

\* The operation that m asks for does not throw.
Fits(m, g, clock) ==
    m.fed = g => /\ m.kind \in {"NULL", "REGULATOR_OFF"} => clock # {}
                 /\ m.kind = "REGULATOR_ON" => clock = {}

\* The clock of g after each of the messages of s.
Replay(s, g, clock) ==
    LET after[i \in 0 .. Len(s)] ==
            IF i = 0 THEN clock ELSE ClockAfter(s[i], g, after[i - 1])
    IN  after

Replayed(s, g, clock) == Replay(s, g, clock)[Len(s)]

\* What g has last said of itself.
OwnClock(g) == IF is_regulating[g] THEN {promised[g]} ELSE {}

\* Nothing a federate says of its clock is lost or overtaken: what its stream
\* still holds brings the RTIG to its regulation and last promise, and what the
\* stream to another RTIA holds brings that RTIA to the clock of the RTIG
\* (addRegulator, updateRegulator, removeRegulator and their broadcasts).
ClocksReplicate ==
    \A g \in Federate :
        /\ Replayed(up[g], g, Clock(my_regulators, g)) = OwnClock(g)
        /\ \A f \in Federate \ {g} :
              Replayed(down[f], g, Clock(clocks[f], g)) = Clock(my_regulators, g)

\* No message waiting on a stream will make a clock operation throw, whatever is
\* handled first (the RTIinternalErrors of LBTS::insert, update and remove).
EveryMessageFits ==
    LET AllFit(s, g, clock) ==
            \A i \in 1 .. Len(s) : Fits(s[i], g, Replay(s, g, clock)[i - 1])
    IN  \A f, g \in Federate :
            /\ AllFit(up[f], g, Clock(my_regulators, g))
            /\ AllFit(down[f], g, Clock(clocks[f], g))
=============================================================================
