-------------------------------- MODULE LBTS --------------------------------
(***************************************************************************)
(* The class LBTS (src/libCERTI/LBTS.cc): the clocks of the regulating      *)
(* federates, as one RTIA or the RTIG knows them, and the lower bound on    *)
(* the time stamps still to come that they give.                            *)
(*                                                                          *)
(* A clock set is a function from the federates it knows to dates.  The     *)
(* code caches the minimum over every clock but its own (+infinity when     *)
(* there is none) and recomputes it at each change; here the comparisons    *)
(* made with that minimum are predicates on the clock set, so +infinity     *)
(* needs no value of its own.  insert and remove throw RTIinternalError     *)
(* when the federate is present, respectively absent: their preconditions   *)
(* are CanInsert and Has.                                                   *)
(***************************************************************************)
EXTENDS Naturals

\* LBTS::LBTS: no clock at all.
NoClock == [g \in {} |-> 0]

\* LBTS::exists.
Has(clocks, g) == g \in DOMAIN clocks

\* The test of LBTS::insert, which throws when the federate has a clock.
CanInsert(clocks, g) == ~ Has(clocks, g)

\* LBTS::insert. The date is stored as it comes.
Insert(clocks, g, date) ==
    [h \in DOMAIN clocks \cup {g} |-> IF h = g THEN date ELSE clocks[h]]

\* LBTS::update for a numbered federate: a clock never goes back.
Update(clocks, g, date) ==
    [h \in DOMAIN clocks |-> IF h = g /\ clocks[h] <= date THEN date ELSE clocks[h]]

\* LBTS::remove.
Remove(clocks, g) == [h \in DOMAIN clocks \ {g} |-> clocks[h]]

\* Mutant of Others: MyFederateNumber is not left out.
OthersAndMe(clocks, me) == DOMAIN clocks

\* The clocks LBTS::compute takes the minimum of: all but one's own.
Others(clocks, me) == DOMAIN clocks \ {me}

\* date < _LBTS
Below(date, clocks, me) == \A g \in Others(clocks, me) : date < clocks[g]

\* date <= _LBTS
AtMost(date, clocks, me) == \A g \in Others(clocks, me) : date <= clocks[g]

\* _LBTS is finite and is date.
IsLBTS(date, clocks, me) ==
    /\ AtMost(date, clocks, me)
    /\ \E g \in Others(clocks, me) : clocks[g] = date
=============================================================================
