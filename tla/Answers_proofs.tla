--------------------------- MODULE Answers_proofs ---------------------------
(***************************************************************************)
(* The answers the RTIG waits for: none is answered with an exception        *)
(* (NoStrayAnswer), each can come (AwaitedCanAnswer), and there is one for   *)
(* every point in progress (PendingIsOwed), with the invariants they follow  *)
(* from and under the assumptions on the constants that FederationInvariant  *)
(* names.                                                                    *)
(***************************************************************************)
EXTENDS Federation_proofs

(***************************************************************************)
(* No stray answer: what the one federate that asks for saves and             *)
(* restorations is told (StrayInvariant).                                    *)
(***************************************************************************)

LEMMA EndRelations ==
    /\ \A m, r \in Request :
          <<m, r>> \in OneRequest <=> (m.kind = "REQUEST" => r.kind # "REQUEST")
    /\ \A n, r \in Notice :
          <<n, r>> \in OneEnd <=> (EndOfSaveOrRestore(n) => ~ EndOfSaveOrRestore(r))
BY DEF OneRequest, OneEnd

LEMMA Streams ==
    ASSUME TypeOK, NEW f \in Federate
    PROVE  /\ up[f] \in Seq(Request) /\ down[f] \in Seq(Notice)
           /\ commands[f] \in Seq({m \in Notice : m.kind \in {"START", "END"}})
           /\ \A m \in ToSet(up[f]) : m \in Request
           /\ \A n \in InTransit(f) : n \in Notice
<1>1. /\ up[f] \in Seq(Request) /\ down[f] \in Seq(Notice)
      /\ commands[f] \in Seq({m \in Notice : m.kind \in {"START", "END"}})
  BY DEF TypeOK
<1> QED
  BY <1>1, HeldInSet DEF InTransit

\* What f asks for stays right when it asks for nothing new, is told of no end, and
\* what is in progress was asked for or in progress.
LEMMA RequesterStays ==
    ASSUME NEW f, RequesterHolds(f),
           Asking(f)' => Asking(f) /\ InProgress' = {},
           InProgress' # {} => Asking(f) \/ InProgress # {},
           Ending(down[f])' => Ending(down[f]), Ending(commands[f])' => Ending(commands[f]),
           waiting'[f] = waiting[f],
           Respects(up[f], OneRequest) => Respects(up[f], OneRequest)',
           Respects(down[f], OneEnd) => Respects(down[f], OneEnd)',
           Respects(commands[f], OneEnd) => Respects(commands[f], OneEnd)'
    PROVE  RequesterHolds(f)'
BY DEF RequesterHolds

LEMMA RequesterUntouched ==
    ASSUME NEW f, RequesterHolds(f), InProgress' = InProgress, up'[f] = up[f],
           down'[f] = down[f], commands'[f] = commands[f], waiting'[f] = waiting[f]
    PROVE  RequesterHolds(f)'
BY DEF RequesterHolds, Asking, Ending, Respects, EndOfSaveOrRestore, OneRequest, OneEnd

\* A step of f or of its RTIA.
LEMMA StrayRtia ==
    ASSUME StrayInvariant, NEW f \in Federate, UNCHANGED rtigVars,
           \A g \in Federate \ {f} : /\ up'[g] = up[g] /\ down'[g] = down[g]
                                     /\ commands'[g] = commands[g] /\ waiting'[g] = waiting[g],
           ToSet(down'[f]) \subseteq ToSet(down[f]),
           unlinked = {} => RequesterHolds(f)'
    PROVE  StrayInvariant'
<1>1. unlinked' = unlinked /\ InProgress' = InProgress
  BY DEF rtigVars, InProgress
<1> SUFFICES ASSUME unlinked = {}
             PROVE  /\ \A g \in Federate : Exception \notin ToSet(down'[g])
                    /\ \A p, q \in InProgress' : p = q
                    /\ \A g \in Federate : RequesterHolds(g)'
  BY <1>1 DEF StrayInvariant, Exception
<1>2. /\ \A g \in Federate : Exception \notin ToSet(down[g]) /\ RequesterHolds(g)
      /\ \A p, q \in InProgress : p = q
  BY DEF StrayInvariant
<1>3. ASSUME NEW g \in Federate \ {f}
      PROVE  Exception \notin ToSet(down'[g]) /\ RequesterHolds(g)'
  BY <1>1, <1>2, <1>3, RequesterUntouched
<1> QED
  BY <1>1, <1>2, <1>3

\* f sends anything but a request.
LEMMA SayStray ==
    ASSUME TypeOK, StrayInvariant, NEW f \in Federate, NEW m \in Request, m.kind # "REQUEST",
           SendMessage(f, m), UNCHANGED <<rtigVars, commands, down, waiting>>
    PROVE  StrayInvariant'
<1>1. /\ up'[f] = Append(up[f], m) /\ \A g \in Federate \ {f} : up'[g] = up[g]
      /\ ToSet(up'[f]) = ToSet(up[f]) \cup {m}
  BY Says
<1>2. Respects(up[f], OneRequest) => Respects(up'[f], OneRequest)
  <2>1. up[f] \in Seq(Request) /\ \A x \in ToSet(up[f]) : x \in Request
    BY Streams
  <2>2. \A x \in ToSet(up[f]) : <<x, m>> \in OneRequest
    BY <2>1, EndRelations
  <2> QED
    BY <1>1, <2>1, <2>2, Appended
<1>3. ASSUME unlinked = {} PROVE RequesterHolds(f)'
  <2>1. RequesterHolds(f) /\ InProgress' = InProgress
    BY <1>3 DEF StrayInvariant, rtigVars, InProgress
  <2>2. Asking(f)' => Asking(f) /\ InProgress' = {}
    BY <1>1, <2>1 DEF Asking, RequesterHolds
  <2>3. Respects(up[f], OneRequest) => Respects(up[f], OneRequest)'
    BY <1>2 DEF Respects, OneRequest
  <2>4. /\ Ending(commands[f])' => Ending(commands[f])
        /\ Respects(down[f], OneEnd) => Respects(down[f], OneEnd)'
        /\ Respects(commands[f], OneEnd) => Respects(commands[f], OneEnd)'
    BY DEF Ending, Respects, OneEnd, EndOfSaveOrRestore
  <2>5. Ending(down[f])' => Ending(down[f])
    BY DEF Ending, EndOfSaveOrRestore
  <2> QED
    BY <2>1, <2>2, <2>3, <2>4, <2>5, RequesterStays
<1> QED
  BY <1>1, <1>3, StrayRtia

\* Joining, resigning, registering and answering.
LEMMA CallStray ==
    ASSUME FederationInvariant, StrayInvariant, NEW f \in Federate,
           \/ JoinFederationExecution(f) \/ ResignFederationExecution(f)
           \/ \E label \in Label, S \in FederateSets \cup {Federate} :
                RegisterSynchronization(f, label, S)
           \/ \E p \in duties[f] : UnregisterSynchronization(f, p)
           \/ \E p \in duties[f], ok \in BOOLEAN :
                FederateSaveStatus(f, p, ok) \/ FederateRestoreStatus(f, p, ok)
    PROVE  StrayInvariant'
<1>1. TypeOK
  BY Parts
<1>2. CASE JoinFederationExecution(f)
  <2> DEFINE m == Ask("JOIN", Save, Federate, FALSE)
  <2>1. m \in Request /\ m.kind = "JOIN"
    BY PlainRequests
  <2>2. SendMessage(f, m) /\ UNCHANGED <<rtigVars, commands, down, waiting>>
    BY <1>2 DEF JoinFederationExecution
  <2> HIDE DEF m
  <2> QED
    BY <1>1, <2>1, <2>2, SayStray
<1>3. CASE ResignFederationExecution(f)
  <2> DEFINE m == Ask("RESIGN", Save, Federate, FALSE)
  <2>1. m \in Request /\ m.kind = "RESIGN"
    BY PlainRequests
  <2>2. SendMessage(f, m) /\ UNCHANGED <<rtigVars, commands, down, waiting>>
    BY <1>3 DEF ResignFederationExecution
  <2> HIDE DEF m
  <2> QED
    BY <1>1, <2>1, <2>2, SayStray
<1>4. ASSUME NEW label \in Label, NEW S \in FederateSets \cup {Federate},
             RegisterSynchronization(f, label, S)
      PROVE  StrayInvariant'
  <2> DEFINE m == Ask("REGISTER", label, S, FALSE)
  <2>1. m \in Request /\ m.kind = "REGISTER"
    BY Requests
  <2>2. SendMessage(f, m) /\ UNCHANGED <<rtigVars, commands, down, waiting>>
    BY <1>4 DEF RegisterSynchronization
  <2> HIDE DEF m
  <2> QED
    BY <1>1, <2>1, <2>2, SayStray
<1>5. ASSUME NEW x \in Label \cup SavesAndRestores, NEW ok \in BOOLEAN,
             SendMessage(f, [kind |-> "ANSWER", of |-> x, ok |-> ok]),
             UNCHANGED <<rtigVars, commands, down, waiting>>
      PROVE  StrayInvariant'
  <2> DEFINE m == [kind |-> "ANSWER", of |-> x, ok |-> ok]
  <2>1. m \in Request /\ m.kind = "ANSWER" /\ SendMessage(f, m)
    BY <1>5, Requests
  <2> HIDE DEF m
  <2> QED
    BY <1>1, <1>5, <2>1, SayStray
<1>6. ASSUME NEW p \in duties[f], UnregisterSynchronization(f, p)
      PROVE  StrayInvariant'
  <2>1. /\ p.of \in Label
        /\ SendMessage(f, [kind |-> "ANSWER", of |-> p.of, ok |-> TRUE])
        /\ UNCHANGED <<rtigVars, commands, down, waiting>>
    BY <1>6 DEF UnregisterSynchronization
  <2> DEFINE yes == TRUE
  <2>2. yes \in BOOLEAN /\ SendMessage(f, [kind |-> "ANSWER", of |-> p.of, ok |-> yes])
    BY <2>1
  <2> HIDE DEF yes
  <2> QED
    BY <1>5, <2>1, <2>2
<1>7. ASSUME NEW p \in duties[f], NEW ok \in BOOLEAN,
             FederateSaveStatus(f, p, ok) \/ FederateRestoreStatus(f, p, ok)
      PROVE  StrayInvariant'
  <2>1. CASE FederateSaveStatus(f, p, ok)
    <3>1. /\ SendMessage(f, [kind |-> "ANSWER", of |-> Save, ok |-> ok])
          /\ UNCHANGED <<rtigVars, commands, down, waiting>>
      BY <2>1 DEF FederateSaveStatus
    <3> QED
      BY <1>5, <3>1 DEF SavesAndRestores
  <2>2. CASE FederateRestoreStatus(f, p, ok)
    <3>1. /\ SendMessage(f, [kind |-> "ANSWER", of |-> Restore, ok |-> ok])
          /\ UNCHANGED <<rtigVars, commands, down, waiting>>
      BY <2>2 DEF FederateRestoreStatus
    <3> QED
      BY <1>5, <3>1 DEF SavesAndRestores
  <2> QED
    BY <1>7, <2>1, <2>2
<1> QED
  BY <1>2, <1>3, <1>4, <1>6, <1>7

\* A federate asks for a save or a restoration when it waits for none.
LEMMA RequestStray ==
    ASSUME FederationInvariant, StrayInvariant, NEW f \in Federate, NEW x \in {Save, Restore},
           NEW dated \in BOOLEAN, RequestFederationSaveOrRestore(f, x, dated)
    PROVE  StrayInvariant'
<1> DEFINE m == Ask("REQUEST", x, Federate, dated)
<1>1. TypeOK
  BY Parts
<1>2. m \in Request /\ m.kind = "REQUEST" /\ SendMessage(f, m)
  <2>1. /\ x \in SavesAndRestores /\ x \in Label \cup SavesAndRestores
        /\ "REQUEST" \in {"JOIN", "RESIGN", "REGISTER", "REQUEST"}
        /\ Federate \in FederateSets \cup {Federate}
    BY DEF SavesAndRestores
  <2>2. m \in Request /\ m.kind = "REQUEST" /\ m.of = x
    BY <2>1, Requests
  <2>3. SendMessage(f, m)
    BY DEF RequestFederationSaveOrRestore
  <2> QED
    BY <2>2, <2>3
<1> HIDE DEF m
<1>3. /\ ~ waiting[f] /\ f \in Savers \cup Restorers
      /\ waiting' = [waiting EXCEPT ![f] = TRUE]
      /\ UNCHANGED <<rtigVars, commands, down>>
  <2>1. f \in Savers \cup Restorers
    BY DEF RequestFederationSaveOrRestore
  <2>2. ~ waiting[f] /\ waiting' = [waiting EXCEPT ![f] = TRUE]
    BY DEF RequestFederationSaveOrRestore
  <2>3. UNCHANGED <<rtigVars, commands, down>>
    BY DEF RequestFederationSaveOrRestore
  <2> QED
    BY <2>1, <2>2, <2>3
<1>4. /\ up'[f] = Append(up[f], m) /\ \A g \in Federate \ {f} : up'[g] = up[g]
      /\ ToSet(up'[f]) = ToSet(up[f]) \cup {m}
  BY <1>1, <1>2, Says
<1>5. waiting'[f] /\ \A g \in Federate \ {f} : waiting'[g] = waiting[g]
  BY <1>1, <1>3 DEF TypeOK
<1>6. ASSUME unlinked = {} PROVE RequesterHolds(f)'
  <2>1. RequesterHolds(f) /\ InProgress' = InProgress
    BY <1>3, <1>6 DEF StrayInvariant, rtigVars, InProgress
  <2>2. /\ ~ Asking(f) /\ InProgress = {} /\ ~ Ending(down[f]) /\ ~ Ending(commands[f])
        /\ Respects(up[f], OneRequest) /\ Respects(down[f], OneEnd)
        /\ Respects(commands[f], OneEnd)
    BY <1>3, <2>1 DEF RequesterHolds
  <2>3. ~ Ending(down[f])' /\ ~ Ending(commands[f])'
    BY <1>3, <2>2 DEF Ending, EndOfSaveOrRestore
  <2>4. Respects(down[f], OneEnd)' /\ Respects(commands[f], OneEnd)'
    BY <1>3, <2>2 DEF Respects, OneEnd, EndOfSaveOrRestore
  <2>5. Respects(up[f], OneRequest)'
    <3>1. up[f] \in Seq(Request) /\ \A r \in ToSet(up[f]) : r \in Request
      BY <1>1, Streams
    <3>2. \A r \in ToSet(up[f]) : <<r, m>> \in OneRequest
      BY <1>2, <2>2, <3>1, EndRelations DEF Asking
    <3>3. Respects(Append(up[f], m), OneRequest)
      BY <1>2, <2>2, <3>1, <3>2, Appended
    <3> QED
      BY <1>4, <3>3 DEF Respects, OneRequest
  <2> QED
    BY <1>3, <1>5, <2>1, <2>2, <2>3, <2>4, <2>5 DEF RequesterHolds
<1> QED
  BY <1>3, <1>4, <1>5, <1>6, StrayRtia

\* The loss of a federate and the answer a federate waits for.
LEMMA DieOrWaitStray ==
    ASSUME FederationInvariant, StrayInvariant, NEW f \in Federate,
           Die(f) \/ WaitMessage(f)
    PROVE  StrayInvariant'
<1>1. TypeOK /\ up[f] \in Seq(Request) /\ down[f] \in Seq(Notice)
  BY Parts, Streams
<1>2. UNCHANGED <<rtigVars, commands, waiting>>
  BY DEF Die, WaitMessage, federateVars
<1>3. /\ ToSet(up'[f]) \subseteq ToSet(up[f]) /\ ToSet(down'[f]) \subseteq ToSet(down[f])
      /\ Respects(up[f], OneRequest) => Respects(up'[f], OneRequest)
      /\ Respects(down[f], OneEnd) => Respects(down'[f], OneEnd)
      /\ \A g \in Federate \ {f} : up'[g] = up[g] /\ down'[g] = down[g]
  <2>1. CASE Die(f)
    <3>1. PICK k \in 0 .. Len(up[f]) : up' = [up EXCEPT ![f] = SubSeq(up[f], 1, k)]
      BY <2>1 DEF Die
    <3>2. down' = down
      BY <2>1 DEF Die
    <3>3. /\ up'[f] = SubSeq(up[f], 1, k)
          /\ \A g \in Federate \ {f} : up'[g] = up[g]
      BY <1>1, <3>1 DEF TypeOK
    <3> QED
      BY <1>1, <3>2, <3>3, Cut
  <2>2. CASE WaitMessage(f)
    <3>1. PICK i \in 1 .. Len(down[f]) : down' = [down EXCEPT ![f] = RemoveAt(down[f], i)]
      BY <2>2 DEF WaitMessage
    <3>2. up' = up
      BY <2>2 DEF WaitMessage
    <3>3. /\ down'[f] = RemoveAt(down[f], i)
          /\ \A g \in Federate \ {f} : down'[g] = down[g]
      BY <1>1, <3>1 DEF TypeOK
    <3>4. /\ ToSet(RemoveAt(down[f], i)) \subseteq ToSet(down[f])
          /\ Respects(down[f], OneEnd) => Respects(RemoveAt(down[f], i), OneEnd)
      BY <1>1, TakenOut
    <3> QED
      BY <3>2, <3>3, <3>4
  <2> QED
    BY <2>1, <2>2
<1>4. ASSUME unlinked = {} PROVE RequesterHolds(f)'
  <2>1. RequesterHolds(f) /\ InProgress' = InProgress
    BY <1>2, <1>4 DEF StrayInvariant, rtigVars, InProgress
  <2>2. Asking(f)' => Asking(f) /\ InProgress' = {}
    BY <1>3, <2>1 DEF Asking, RequesterHolds
  <2>3. Ending(down[f])' => Ending(down[f])
    BY <1>3 DEF Ending, EndOfSaveOrRestore
  <2>4. Ending(commands[f])' => Ending(commands[f])
    BY <1>2 DEF Ending, EndOfSaveOrRestore
  <2>5. /\ Respects(up[f], OneRequest) => Respects(up[f], OneRequest)'
        /\ Respects(down[f], OneEnd) => Respects(down[f], OneEnd)'
        /\ Respects(commands[f], OneEnd) => Respects(commands[f], OneEnd)'
    BY <1>2, <1>3 DEF Respects, OneEnd, OneRequest, EndOfSaveOrRestore
  <2>6. waiting'[f] = waiting[f]
    BY <1>2
  <2> QED
    BY <2>1, <2>2, <2>3, <2>4, <2>5, <2>6, RequesterStays
<1> QED
  BY <1>2, <1>3, <1>4, StrayRtia

\* A notice goes from the stream to the queue of the RTIA.
LEMMA ProcessStray ==
    ASSUME FederationInvariant, StrayInvariant, NEW f \in Federate, ProcessNetworkMessage(f)
    PROVE  StrayInvariant'
<1> DEFINE n == Head(down[f])
           S == {m \in Notice : m.kind \in {"START", "END"}}
<1>1. /\ TypeOK /\ down[f] \in Seq(Notice) /\ commands[f] \in Seq(S)
      /\ \A m \in InTransit(f) : m \in Notice
      /\ LinkHolds(f)
  BY Parts, Streams DEF FederationInvariant
<1>2. /\ rtia[f] = "member" /\ down[f] # <<>> /\ down' = [down EXCEPT ![f] = Tail(down[f])]
      /\ UNCHANGED <<rtigVars, waiting>>
  BY DEF ProcessNetworkMessage, federateVars
<1>3. /\ ToSet(down[f]) = {n} \cup ToSet(down'[f]) /\ n \in Notice
      /\ \A g \in Federate \ {f} : down'[g] = down[g]
      /\ Respects(down[f], OneEnd) =>
            Respects(down'[f], OneEnd) /\ \A m \in ToSet(down'[f]) : <<n, m>> \in OneEnd
  <2>1. /\ down'[f] = Tail(down[f])
        /\ \A g \in Federate \ {f} : down'[g] = down[g]
    BY <1>1, <1>2 DEF TypeOK
  <2>2. /\ ToSet(down[f]) = {n} \cup ToSet(Tail(down[f])) /\ n \in Notice
        /\ Respects(down[f], OneEnd) =>
             /\ Respects(Tail(down[f]), OneEnd)
             /\ \A m \in ToSet(Tail(down[f])) : <<n, m>> \in OneEnd
    BY <1>1, <1>2, Taken
  <2> QED
    BY <2>1, <2>2
<1>4. CASE unlinked # {}
  BY <1>2, <1>4 DEF StrayInvariant, rtigVars
<1>5. CASE unlinked = {}
  <2>1. RequesterHolds(f) /\ InProgress' = InProgress /\ Exception \notin ToSet(down[f])
    BY <1>2, <1>5 DEF StrayInvariant, rtigVars, InProgress
  <2>2. n.kind # "EXCEPTION" /\ n.kind \in {"START", "END"} /\ n \in S
    <3>1. n.kind # "EXCEPTION"
      BY <1>3, <2>1, Notices
    <3>2. n.kind \notin Replies
      BY <1>1, <1>2, <1>3 DEF LinkHolds, DownHolds, Replies
    <3> QED
      BY <1>3, <3>1, <3>2, Notices
  <2>3. /\ commands' = [commands EXCEPT ![f] = InsertCommand(commands[f], n)]
        /\ up' = up
    BY <2>2 DEF ProcessNetworkMessage
  <2> HIDE DEF n, S
  <2>4. /\ commands'[f] = InsertCommand(commands[f], n)
        /\ \A g \in Federate \ {f} : commands'[g] = commands[g]
    BY <1>1, <2>3 DEF TypeOK
  <2>5. /\ ToSet(commands'[f]) = ToSet(commands[f]) \cup {n}
        /\ Respects(commands[f], OneEnd)
             /\ (\A m \in ToSet(commands[f]) : <<m, n>> \in OneEnd /\ <<n, m>> \in OneEnd)
             => Respects(commands'[f], OneEnd)
    <3> DEFINE q == commands[f]
    <3>1. q \in Seq(S) /\ n \in S
      BY <1>1, <2>2
    <3> HIDE DEF q
    <3>2. /\ ToSet(Append(q, n)) = ToSet(q) \cup {n}
          /\ Respects(q, OneEnd) /\ (\A m \in ToSet(q) : <<m, n>> \in OneEnd)
               => Respects(Append(q, n), OneEnd)
      BY <3>1, Appended
    <3>3. /\ ToSet(<<n>> \o q) = ToSet(q) \cup {n}
          /\ Respects(q, OneEnd) /\ (\A m \in ToSet(q) : <<n, m>> \in OneEnd)
               => Respects(<<n>> \o q, OneEnd)
      BY <3>1, PutFirst
    <3>4. commands'[f] = Append(q, n) \/ commands'[f] = <<n>> \o q
      BY <2>4 DEF InsertCommand, q
    <3> QED
      BY <3>2, <3>3, <3>4 DEF q
  <2>6. Asking(f)' <=> Asking(f)
    BY <2>3 DEF Asking
  <2>7. /\ Ending(down[f]) <=> EndOfSaveOrRestore(n) \/ Ending(down'[f])
        /\ Ending(commands'[f]) <=> EndOfSaveOrRestore(n) \/ Ending(commands[f])
    BY <1>3, <2>5 DEF Ending
  <2>8. ASSUME f \in Savers \cup Restorers PROVE RequesterHolds(f)'
    <3>1. /\ Asking(f) \/ InProgress # {} => ~ Ending(down[f]) /\ ~ Ending(commands[f])
          /\ Asking(f) \/ InProgress # {} \/ Ending(down[f]) \/ Ending(commands[f])
                => waiting[f]
          /\ ~ (Ending(down[f]) /\ Ending(commands[f]))
          /\ Respects(up[f], OneRequest)
          /\ Respects(down[f], OneEnd) /\ Respects(commands[f], OneEnd)
      BY <2>1, <2>8 DEF RequesterHolds
    <3>2. Respects(commands'[f], OneEnd)
      <4>1. ASSUME NEW m \in ToSet(commands[f])
            PROVE  <<m, n>> \in OneEnd /\ <<n, m>> \in OneEnd
        <5>1. m \in Notice
          BY <1>1 DEF InTransit
        <5>2. EndOfSaveOrRestore(n) => ~ EndOfSaveOrRestore(m)
          BY <2>7, <3>1 DEF Ending
        <5> QED
          BY <1>3, <5>1, <5>2, EndRelations
      <4> QED
        BY <2>5, <3>1, <4>1
    <3>3. EndOfSaveOrRestore(n) => ~ Ending(down'[f])
      <4>1. \A m \in ToSet(down'[f]) : m \in Notice
        BY <1>1, <1>3 DEF InTransit
      <4> QED
        BY <1>3, <3>1, <4>1, EndRelations DEF Ending
    <3>4. /\ Respects(up[f], OneRequest)' /\ Respects(down[f], OneEnd)'
          /\ Respects(commands[f], OneEnd)'
      BY <1>3, <2>3, <3>1, <3>2 DEF Respects, OneRequest, OneEnd, EndOfSaveOrRestore
    <3>5. (Ending(down[f])' <=> Ending(down'[f])) /\ (Ending(commands[f])' <=> Ending(commands'[f]))
      BY DEF Ending, EndOfSaveOrRestore
    <3>6. waiting'[f] = waiting[f] /\ (Asking(f) => InProgress = {})
      BY <1>2, <2>1 DEF RequesterHolds
    <3>7. /\ Asking(f) \/ InProgress # {} => ~ Ending(down'[f]) /\ ~ Ending(commands'[f])
          /\ Asking(f) \/ InProgress # {} \/ Ending(down'[f]) \/ Ending(commands'[f])
                => waiting[f]
          /\ ~ (Ending(down'[f]) /\ Ending(commands'[f]))
      BY <2>7, <3>1, <3>3
    <3>8. /\ Asking(f)' => f \in Savers \cup Restorers /\ InProgress' = {}
          /\ Asking(f)' \/ InProgress' # {} => ~ Ending(down[f])' /\ ~ Ending(commands[f])'
          /\ Asking(f)' \/ InProgress' # {} \/ Ending(down[f])' \/ Ending(commands[f])'
                => waiting'[f]
          /\ ~ (Ending(down[f])' /\ Ending(commands[f])')
      BY <2>1, <2>6, <2>8, <3>5, <3>6, <3>7
    <3> QED
      BY <3>4, <3>8 DEF RequesterHolds
  <2>9. ASSUME f \notin Savers \cup Restorers PROVE RequesterHolds(f)'
    BY <2>1, <2>6, <2>9 DEF RequesterHolds
  <2>10. ToSet(down'[f]) \subseteq ToSet(down[f])
    BY <1>3
  <2>11. RequesterHolds(f)'
    BY <2>8, <2>9
  <2> QED
    BY <1>2, <1>3, <2>3, <2>4, <2>10, <2>11, StrayRtia
<1> QED
  BY <1>4, <1>5

\* A notice is given to the federate; the end of what it waited for is the last.
LEMMA TickStray ==
    ASSUME FederationInvariant, StrayInvariant, NEW f \in Federate, Tick(f)
    PROVE  StrayInvariant'
<1> DEFINE n == Head(commands[f])
           S == {m \in Notice : m.kind \in {"START", "END"}}
<1>1. /\ TypeOK /\ commands[f] \in Seq(S) /\ waiting[f] \in BOOLEAN
      /\ \A m \in InTransit(f) : m \in Notice
  BY Parts, Streams DEF TypeOK
<1>2. /\ commands[f] # <<>> /\ commands' = [commands EXCEPT ![f] = Tail(commands[f])]
      /\ waiting' = [waiting EXCEPT ![f] =
            waiting[f] /\ (n.kind = "START" \/ n.point.of \in Label)]
      /\ UNCHANGED <<rtigVars, up, down>>
  BY DEF Tick
<1>3. /\ ToSet(commands[f]) = {n} \cup ToSet(commands'[f]) /\ n \in S
      /\ \A g \in Federate \ {f} : commands'[g] = commands[g]
      /\ Respects(commands[f], OneEnd) =>
            Respects(commands'[f], OneEnd) /\ \A m \in ToSet(commands'[f]) : <<n, m>> \in OneEnd
  <2>1. /\ commands'[f] = Tail(commands[f])
        /\ \A g \in Federate \ {f} : commands'[g] = commands[g]
    BY <1>1, <1>2 DEF TypeOK
  <2>2. /\ ToSet(commands[f]) = {n} \cup ToSet(Tail(commands[f])) /\ n \in S
        /\ Respects(commands[f], OneEnd) =>
             /\ Respects(Tail(commands[f]), OneEnd)
             /\ \A m \in ToSet(Tail(commands[f])) : <<n, m>> \in OneEnd
    BY <1>1, <1>2, Taken
  <2> QED
    BY <2>1, <2>2
<1>4. /\ \A g \in Federate \ {f} : waiting'[g] = waiting[g]
      /\ ~ EndOfSaveOrRestore(n) => waiting'[f] = waiting[f]
  <2>1. n.kind \in {"START", "END"} /\ (n.kind = "END" => n.point.of \in Label \cup SavesAndRestores)
    <3>1. n \in Notice /\ n.kind \in {"START", "END"}
      BY <1>3
    <3> QED
      BY <3>1, Notices, Points
  <2>2. ~ EndOfSaveOrRestore(n) => n.kind = "START" \/ n.point.of \in Label
    BY <2>1 DEF EndOfSaveOrRestore
  <2> HIDE DEF n
  <2>3. waiting'[f] = (waiting[f] /\ (n.kind = "START" \/ n.point.of \in Label))
    BY <1>1, <1>2 DEF TypeOK
  <2>4. \A g \in Federate \ {f} : waiting'[g] = waiting[g]
    BY <1>1, <1>2 DEF TypeOK
  <2> QED
    BY <1>1, <2>2, <2>3, <2>4
<1> HIDE DEF n, S
<1>5. ASSUME unlinked = {} PROVE RequesterHolds(f)'
  <2>1. RequesterHolds(f) /\ InProgress' = InProgress
    BY <1>2, <1>5 DEF StrayInvariant, rtigVars, InProgress
  <2>2. Ending(commands[f]) <=> EndOfSaveOrRestore(n) \/ Ending(commands'[f])
    BY <1>3 DEF Ending
  <2>3. /\ Asking(f)' <=> Asking(f)
        /\ Ending(down[f])' <=> Ending(down[f])
        /\ Ending(commands[f])' <=> Ending(commands'[f])
    BY <1>2 DEF Asking, Ending, EndOfSaveOrRestore
  <2>4. CASE f \notin Savers \cup Restorers
    BY <2>1, <2>3, <2>4 DEF RequesterHolds
  <2>5. CASE f \in Savers \cup Restorers
    <3>1. /\ Asking(f) \/ InProgress # {} => ~ Ending(down[f]) /\ ~ Ending(commands[f])
          /\ Asking(f) \/ InProgress # {} \/ Ending(down[f]) \/ Ending(commands[f])
                => waiting[f]
          /\ ~ (Ending(down[f]) /\ Ending(commands[f]))
          /\ Respects(up[f], OneRequest)
          /\ Respects(down[f], OneEnd) /\ Respects(commands[f], OneEnd)
          /\ Asking(f) => InProgress = {}
      BY <2>1, <2>5 DEF RequesterHolds
    <3>2. EndOfSaveOrRestore(n) => ~ Ending(commands'[f])
      <4>1. n \in Notice /\ \A m \in ToSet(commands'[f]) : m \in Notice
        BY <1>1, <1>3 DEF InTransit
      <4> QED
        BY <1>3, <3>1, <4>1, EndRelations DEF Ending
    <3>3. /\ Respects(up[f], OneRequest)' /\ Respects(down[f], OneEnd)'
          /\ Respects(commands[f], OneEnd)'
      BY <1>2, <1>3, <3>1 DEF Respects, OneRequest, OneEnd, EndOfSaveOrRestore
    <3>4. /\ Asking(f) \/ InProgress # {} => ~ Ending(down[f]) /\ ~ Ending(commands'[f])
          /\ Asking(f) \/ InProgress # {} \/ Ending(down[f]) \/ Ending(commands'[f])
                => waiting'[f]
          /\ ~ (Ending(down[f]) /\ Ending(commands'[f]))
      BY <1>4, <2>2, <3>1, <3>2
    <3>5. /\ Asking(f)' => f \in Savers \cup Restorers /\ InProgress' = {}
          /\ Asking(f)' \/ InProgress' # {} => ~ Ending(down[f])' /\ ~ Ending(commands[f])'
          /\ Asking(f)' \/ InProgress' # {} \/ Ending(down[f])' \/ Ending(commands[f])'
                => waiting'[f]
          /\ ~ (Ending(down[f])' /\ Ending(commands[f])')
      BY <2>1, <2>3, <2>5, <3>1, <3>4
    <3> QED
      BY <3>3, <3>5 DEF RequesterHolds
  <2> QED
    BY <2>4, <2>5
<1> QED
  BY <1>2, <1>3, <1>4, <1>5, StrayRtia

\* g hears at most n.
MayHear(g, n) ==
    /\ ToSet(down[g]) \subseteq ToSet(down'[g])
    /\ ToSet(down'[g]) \subseteq ToSet(down[g]) \cup {n}
    /\ \A R : Respects(down[g], R) /\ (\A m \in ToSet(down[g]) : <<m, n>> \in R)
                => Respects(down'[g], R)

LEMMA Hearing ==
    ASSUME TypeOK, NEW g \in Federate, NEW n \in Notice,
           down'[g] \in {down[g], Append(down[g], n)}
    PROVE  MayHear(g, n)
<1>1. down[g] \in Seq(Notice)
  BY Streams
<1>2. /\ ToSet(Append(down[g], n)) = ToSet(down[g]) \cup {n}
      /\ \A R : Respects(down[g], R) /\ (\A m \in ToSet(down[g]) : <<m, n>> \in R)
                  => Respects(Append(down[g], n), R)
  BY <1>1, Appended
<1> QED
  BY <1>2 DEF MayHear

\* What the RTIG tells f only, and what it tells every member.
LEMMA OneHears ==
    ASSUME TypeOK, NEW f \in Federate, NEW n \in Notice, Reply(f, n)
    PROVE  \A g \in Federate : MayHear(g, n)
<1>1. down'[f] = Send(f, down[f], n) /\ \A g \in Federate \ {f} : down'[g] = down[g]
  BY Replied
<1> QED
  BY <1>1, Sent, Hearing

LEMMA MembersHear ==
    ASSUME TypeOK, NEW n \in Notice,
           down' = [g \in Federate |-> IF g \in members THEN Send(g, down[g], n) ELSE down[g]]
    PROVE  \A g \in Federate :
              /\ MayHear(g, n)
              /\ g \in members /\ rtia[g] \notin {"gone", "lost"} => n \in ToSet(down'[g])
<1> TAKE g \in Federate
<1>1. down'[g] = IF g \in members THEN Send(g, down[g], n) ELSE down[g]
  OBVIOUS
<1>2. MayHear(g, n)
  BY <1>1, Sent, Hearing
<1>3. g \in members /\ rtia[g] \notin {"gone", "lost"} => n \in ToSet(down'[g])
  <2>1. down[g] \in Seq(Notice)
    BY Streams
  <2>2. ToSet(Append(down[g], n)) = ToSet(down[g]) \cup {n}
    BY <2>1, Appended
  <2> QED
    BY <1>1, <2>2 DEF Send
<1> QED
  BY <1>2, <1>3

\* What a federate that joins hears.
LEMMA JoinerHears ==
    ASSUME TypeOK, IsFiniteSet(pending), NEW f \in Federate,
           NEW points, points = {p \in pending : p.of \in Label},
           down' = [down EXCEPT ![f] =
                     Send(f, IF rtia[f] = "lost" THEN down[f]
                               ELSE down[f] \o SetToSeq({Start(p) : p \in points}),
                          [kind |-> "JOINED"])]
    PROVE  /\ \A g \in Federate \ {f} : down'[g] = down[g]
           /\ \A n \in ToSet(down'[f]) :
                 n \in ToSet(down[f]) \/ (n \in Notice /\ n.kind \in {"START", "JOINED"})
           /\ \A R : /\ Respects(down[f], R)
                     /\ \A n, m \in Notice : m.kind \in {"START", "JOINED"} => <<n, m>> \in R
                     => Respects(down'[f], R)
           /\ rtia[f] \notin {"gone", "lost"} =>
                 \A p \in points : Start(p) \in ToSet(down'[f])
<1> DEFINE S == {Start(p) : p \in points}
           announces == SetToSeq(S)
           joined == [kind |-> "JOINED"]
           before == IF rtia[f] = "lost" THEN down[f] ELSE down[f] \o announces
<1>1. down[f] \in Seq(Notice) /\ \A m \in ToSet(down[f]) : m \in Notice
  BY Streams DEF InTransit
<1>2. /\ announces \in Seq(S) /\ ToSet(announces) = S
      /\ \A R : (\A x, y \in S : x # y => <<x, y>> \in R) => Respects(announces, R)
  <2>1. IsFiniteSet(points)
    BY FS_Subset
  <2>2. IsFiniteSet(S)
    <3>1. [p \in points |-> Start(p)] \in Surjection(points, S)
      BY DEF Surjection
    <3> QED
      BY <2>1, <3>1, FS_Surjection
  <2> QED
    BY <2>2, Listed
<1>3. \A n \in S : n \in Notice /\ n.kind = "START"
  <2>1. \A p \in points : Start(p) \in Notice /\ Start(p).kind = "START"
    BY Notices DEF TypeOK
  <2> QED
    BY <2>1
<1>4. joined \in Notice /\ joined.kind = "JOINED"
  BY Notices DEF Replies
<1>5. /\ down'[f] = Send(f, before, joined)
      /\ \A g \in Federate \ {f} : down'[g] = down[g]
  BY DEF TypeOK
<1>6. \A p \in points : Start(p) \in S
  OBVIOUS
<1> HIDE DEF S, announces, joined
<1>7. announces \in Seq(Notice)
  BY <1>2, <1>3, SeqMonotonic
<1>8. /\ down[f] \o announces \in Seq(Notice)
      /\ ToSet(down[f] \o announces) = ToSet(down[f]) \cup S
      /\ \A R : /\ Respects(down[f], R) /\ Respects(announces, R)
                /\ \A x \in ToSet(down[f]), y \in ToSet(announces) : <<x, y>> \in R
                => Respects(down[f] \o announces, R)
  BY <1>1, <1>2, <1>7, Joined
<1>9. /\ before \in Seq(Notice) /\ \A n \in ToSet(before) : n \in ToSet(down[f]) \/ n \in S
      /\ rtia[f] # "lost" => S \subseteq ToSet(before)
  BY <1>1, <1>8
<1>10. /\ ToSet(Append(before, joined)) = ToSet(before) \cup {joined}
       /\ \A R : Respects(before, R) /\ (\A x \in ToSet(before) : <<x, joined>> \in R)
                  => Respects(Append(before, joined), R)
  BY <1>4, <1>9, Appended
<1>11. ASSUME NEW R, Respects(down[f], R),
              \A n, m \in Notice : m.kind \in {"START", "JOINED"} => <<n, m>> \in R
       PROVE  Respects(down'[f], R)
  <2>1. Respects(announces, R) /\ \A x \in ToSet(down[f]), y \in ToSet(announces) : <<x, y>> \in R
    BY <1>1, <1>2, <1>3, <1>11
  <2>2. Respects(before, R)
    BY <1>8, <1>11, <2>1
  <2>3. \A x \in ToSet(before) : <<x, joined>> \in R
    BY <1>1, <1>3, <1>4, <1>9, <1>11
  <2> HIDE DEF before
  <2>4. Respects(Append(before, joined), R)
    BY <1>10, <2>2, <2>3
  <2> QED
    BY <1>5, <2>2, <2>4, Sent
<1> HIDE DEF before
<1>12. down'[f] = before \/ down'[f] = Append(before, joined)
  BY <1>5, Sent
<1>13. \A n \in ToSet(down'[f]) :
          n \in ToSet(down[f]) \/ (n \in Notice /\ n.kind \in {"START", "JOINED"})
  BY <1>3, <1>4, <1>9, <1>10, <1>12
<1>14. rtia[f] \notin {"gone", "lost"} => \A p \in points : Start(p) \in ToSet(down'[f])
  BY <1>6, <1>9, <1>10, <1>12
<1> QED
  BY <1>5, <1>11, <1>13, <1>14

\* What reaches g is neither an exception nor the end of a save or a restoration.
Quiet(g) ==
    /\ \A n \in ToSet(down'[g]) :
          n \in ToSet(down[g]) \/ (n # Exception /\ ~ EndOfSaveOrRestore(n))
    /\ Respects(down[g], OneEnd) => Respects(down'[g], OneEnd)

LEMMA QuietNotice ==
    ASSUME TypeOK, NEW g \in Federate, NEW n \in Notice, n # Exception,
           ~ EndOfSaveOrRestore(n), down'[g] \in {down[g], Append(down[g], n)}
    PROVE  Quiet(g)
<1>1. \A m \in ToSet(down[g]) : m \in Notice
  BY Streams DEF InTransit
<1>2. \A m \in ToSet(down[g]) : <<m, n>> \in OneEnd
  BY <1>1, EndRelations
<1> QED
  BY <1>2, Hearing DEF Quiet, MayHear

\* A request is taken from the stream of f.
LEMMA ServedStray ==
    ASSUME FederationInvariant, NEW f \in Federate, NEW kind, Serving(f, kind)
    PROVE  /\ TypeOK /\ Head(up[f]).kind = kind /\ Head(up[f]) \in ToSet(up[f])
           /\ UpHolds(f, Head(up[f])) /\ UNCHANGED <<commands, waiting>>
           /\ \A g \in Federate \ {f} : up'[g] = up[g]
           /\ \A g \in Federate :
                 /\ ToSet(up'[g]) \subseteq ToSet(up[g])
                 /\ Respects(up[g], OneRequest) => Respects(up'[g], OneRequest)
           /\ Respects(up[f], OneRequest) =>
                 \A m \in ToSet(up'[f]) : <<Head(up[f]), m>> \in OneRequest
<1>1. /\ TypeOK /\ up[f] # <<>> /\ Head(up[f]).kind = kind /\ UpHolds(f, Head(up[f]))
      /\ up'[f] = Tail(up[f]) /\ \A g \in Federate \ {f} : up'[g] = up[g]
      /\ ToSet(up[f]) = {Head(up[f])} \cup ToSet(up'[f])
      /\ commands' = commands /\ waiting' = waiting
  BY Served
<1>2. up[f] \in Seq(Request)
  BY <1>1, Streams
<1>3. Respects(up[f], OneRequest) =>
        /\ Respects(Tail(up[f]), OneRequest)
        /\ \A m \in ToSet(Tail(up[f])) : <<Head(up[f]), m>> \in OneRequest
  BY <1>1, <1>2, Taken
<1> QED
  BY <1>1, <1>3

\* A step of the RTIG that starts and ends no save and no restoration.
LEMMA QuietStray ==
    ASSUME StrayInvariant, unlinked' = {} => unlinked = {}, InProgress' = InProgress,
           UNCHANGED <<commands, waiting>>,
           \A g \in Federate :
              /\ ToSet(up'[g]) \subseteq ToSet(up[g])
              /\ Respects(up[g], OneRequest) => Respects(up'[g], OneRequest),
           unlinked' = {} => \A g \in Federate : Quiet(g)
    PROVE  StrayInvariant'
<1> SUFFICES ASSUME unlinked' = {}
             PROVE  /\ \A g \in Federate : Exception \notin ToSet(down'[g])
                    /\ \A p, q \in InProgress' : p = q
                    /\ \A g \in Federate : RequesterHolds(g)'
  BY DEF StrayInvariant, Exception
<1>1. /\ \A g \in Federate : Exception \notin ToSet(down[g]) /\ RequesterHolds(g)
      /\ \A p, q \in InProgress : p = q
  BY DEF StrayInvariant
<1>2. ASSUME NEW g \in Federate
      PROVE  Exception \notin ToSet(down'[g]) /\ RequesterHolds(g)'
  <2>1. Quiet(g) /\ RequesterHolds(g) /\ Exception \notin ToSet(down[g])
    BY <1>1
  <2>2. Exception \notin ToSet(down'[g])
    BY <2>1 DEF Quiet
  <2>3. Asking(g)' => Asking(g) /\ InProgress' = {}
    BY <2>1 DEF Asking, RequesterHolds
  <2>4. Ending(down[g])' => Ending(down[g])
    <3>1. Ending(down[g])' <=> \E n \in ToSet(down'[g]) : EndOfSaveOrRestore(n)
      BY DEF Ending, EndOfSaveOrRestore
    <3> QED
      BY <3>1, <2>1 DEF Quiet, Ending
  <2>5. Ending(commands[g])' => Ending(commands[g])
    BY DEF Ending, EndOfSaveOrRestore
  <2>6. /\ Respects(up[g], OneRequest)' <=> Respects(up'[g], OneRequest)
        /\ Respects(down[g], OneEnd)' <=> Respects(down'[g], OneEnd)
        /\ Respects(commands[g], OneEnd)' <=> Respects(commands[g], OneEnd)
    BY DEF Respects, OneEnd, OneRequest, EndOfSaveOrRestore
  <2>7. Respects(down[g], OneEnd) => Respects(down'[g], OneEnd)
    BY <2>1 DEF Quiet
  <2> QED
    BY <2>1, <2>2, <2>3, <2>4, <2>5, <2>6, <2>7, RequesterStays
<1> QED
  BY <1>1, <1>2

\* The labels that are pending are announced to a federate that joins.
LEMMA QuietJoin ==
    ASSUME TypeOK, IsFiniteSet(pending), NEW f \in Federate,
           NEW points, points = {p \in pending : p.of \in Label},
           down' = [down EXCEPT ![f] =
                     Send(f, IF rtia[f] = "lost" THEN down[f]
                               ELSE down[f] \o SetToSeq({Start(p) : p \in points}),
                          [kind |-> "JOINED"])]
    PROVE  \A g \in Federate : Quiet(g)
<1>1. /\ \A g \in Federate \ {f} : down'[g] = down[g]
      /\ \A n \in ToSet(down'[f]) :
            n \in ToSet(down[f]) \/ (n \in Notice /\ n.kind \in {"START", "JOINED"})
      /\ \A R : /\ Respects(down[f], R)
                /\ \A n, m \in Notice : m.kind \in {"START", "JOINED"} => <<n, m>> \in R
                => Respects(down'[f], R)
  BY JoinerHears
<1>2. \A n, m \in Notice : m.kind \in {"START", "JOINED"} => <<n, m>> \in OneEnd
  BY EndRelations DEF EndOfSaveOrRestore
<1>3. \A n \in ToSet(down'[f]) : n \in ToSet(down[f]) \/ (n # Exception /\ ~ EndOfSaveOrRestore(n))
  BY <1>1 DEF EndOfSaveOrRestore, Exception
<1>4. Respects(down[f], OneEnd) => Respects(down'[f], OneEnd)
  BY <1>1, <1>2
<1> QED
  BY <1>1, <1>3, <1>4 DEF Quiet

LEMMA AddStray ==
    ASSUME FederationInvariant, StrayInvariant, NEW f \in Federate, AddFederate(f)
    PROVE  StrayInvariant'
<1> DEFINE points == {p \in pending : p.of \in Label}
<1>1. /\ TypeOK /\ Head(up[f]).kind = "JOIN" /\ UpHolds(f, Head(up[f]))
      /\ UNCHANGED <<commands, waiting>>
      /\ \A g \in Federate :
            /\ ToSet(up'[g]) \subseteq ToSet(up[g])
            /\ Respects(up[g], OneRequest) => Respects(up'[g], OneRequest)
  BY ServedStray DEF AddFederate
<1>2. f \notin members
  BY <1>1 DEF UpHolds
<1>3. /\ pending' = pending
      /\ IF f \in referenced \/ unlinked # {}
           THEN unlinked' = unlinked \cup {f}
           ELSE /\ down' = [down EXCEPT ![f] =
                     Send(f, IF rtia[f] = "lost" THEN down[f]
                               ELSE down[f] \o SetToSeq({Start(p) : p \in points}),
                          [kind |-> "JOINED"])]
                /\ UNCHANGED unlinked
  BY <1>2 DEF AddFederate
<1>4. InProgress' = InProgress
  BY <1>3 DEF InProgress
<1>5. unlinked' = {} => unlinked = {} /\ \A g \in Federate : Quiet(g)
  <2> SUFFICES ASSUME unlinked' = {}
               PROVE  unlinked = {} /\ \A g \in Federate : Quiet(g)
    OBVIOUS
  <2>1. ~ (f \in referenced \/ unlinked # {})
    BY <1>3
  <2>2. IsFiniteSet(pending)
    BY Parts DEF EndsHold
  <2>3. points = {p \in pending : p.of \in Label}
    OBVIOUS
  <2> HIDE DEF points
  <2> QED
    BY <1>1, <1>3, <2>1, <2>2, <2>3, QuietJoin
<1> QED
  BY <1>1, <1>4, <1>5, QuietStray

LEMMA RemoveStray ==
    ASSUME FederationInvariant, StrayInvariant, NEW f \in Federate, RemoveFederate(f)
    PROVE  StrayInvariant'
<1> DEFINE resigned == [kind |-> "RESIGNED"]
<1>1. /\ TypeOK /\ Head(up[f]).kind = "RESIGN" /\ UpHolds(f, Head(up[f]))
      /\ UNCHANGED <<commands, waiting>>
      /\ \A g \in Federate :
            /\ ToSet(up'[g]) \subseteq ToSet(up[g])
            /\ Respects(up[g], OneRequest) => Respects(up'[g], OneRequest)
  BY ServedStray DEF RemoveFederate
<1>2. f \in members
  BY <1>1 DEF UpHolds, Linked
<1>3. Reply(f, resigned) /\ UNCHANGED <<unlinked, pending>>
  BY <1>2 DEF RemoveFederate
<1>4. resigned \in Notice /\ resigned # Exception /\ ~ EndOfSaveOrRestore(resigned)
  BY Notices DEF Replies, Exception, EndOfSaveOrRestore
<1> HIDE DEF resigned
<1>5. /\ down'[f] \in {down[f], Append(down[f], resigned)}
      /\ \A g \in Federate \ {f} : down'[g] = down[g]
  BY <1>1, <1>3, <1>4, Replied, Sent
<1>6. \A g \in Federate : Quiet(g)
  BY <1>1, <1>4, <1>5, QuietNotice
<1>7. InProgress' = InProgress
  BY <1>3 DEF InProgress
<1> QED
  BY <1>1, <1>3, <1>6, <1>7, QuietStray

LEMMA KillStray ==
    ASSUME FederationInvariant, StrayInvariant, NEW f \in Federate, KillFederate(f)
    PROVE  StrayInvariant'
<1>1. UNCHANGED <<unlinked, pending, commands, up, down, federateVars>>
  BY DEF KillFederate
<1>2. waiting' = waiting /\ InProgress' = InProgress
  BY <1>1 DEF federateVars, InProgress
<1>3. \A g \in Federate : Quiet(g)
  BY <1>1 DEF Quiet
<1> QED
  BY <1>1, <1>2, <1>3, QuietStray

\* No link is missing: a notice for all is sent to some, and to no other.
LEMMA ToldToAll ==
    ASSUME TypeOK, unlinked = {}, NEW f \in Federate, NEW m \in Notice, RespondToAll(f, m)
    PROVE  \A g \in Federate : down'[g] \in {down[g], Append(down[g], m)}
<1>1. RespondToSome(members, m) /\ members \in SUBSET Federate
  BY DEF RespondToAll, TypeOK
<1> QED
  BY <1>1, RespondedToSome

LEMMA RegisterStray ==
    ASSUME FederationInvariant, StrayInvariant, NEW f \in Federate, RegisterPoint(f)
    PROVE  StrayInvariant'
<1> DEFINE label == Head(up[f]).of
           S == Head(up[f]).to
           p == NewPoint(label)
<1>1. /\ TypeOK /\ Head(up[f]).kind = "REGISTER" /\ UpHolds(f, Head(up[f]))
      /\ UNCHANGED <<commands, waiting>>
      /\ \A g \in Federate :
            /\ ToSet(up'[g]) \subseteq ToSet(up[g])
            /\ Respects(up[g], OneRequest) => Respects(up'[g], OneRequest)
  BY ServedStray DEF RegisterPoint
<1>2. /\ unlinked' = unlinked
      /\ \/ UNCHANGED <<pending, down>>
         \/ IF S = Federate THEN RegisterForAll(f, label) ELSE RegisterForSet(f, label, S)
  BY DEF RegisterPoint
<1>3. label \in Label /\ label \notin SavesAndRestores
  <2>1. label \in Label
    BY <1>1 DEF UpHolds
  <2> QED
    BY <2>1, ConstantsAssumption DEF SavesAndRestores
<1>4. p \in Point /\ p.of = label
  BY <1>1, <1>3, NewPoints DEF TypeOK
<1>5. /\ Start(p) \in Notice /\ Start(p) # Exception /\ ~ EndOfSaveOrRestore(Start(p))
      /\ Start(p) = Start(NewPoint(label))
  BY <1>4, Notices DEF EndOfSaveOrRestore, Exception
<1> HIDE DEF label, S
<1>6. InProgress' = InProgress
  <2>1. pending' = pending \/ pending' = pending \cup {p}
    BY <1>2 DEF RegisterForAll, RegisterForSet
  <2> HIDE DEF p
  <2> QED
    BY <1>3, <1>4, <2>1 DEF InProgress
<1> HIDE DEF p
<1>7. ASSUME unlinked = {}
      PROVE  \A g \in Federate : down'[g] \in {down[g], Append(down[g], Start(p))}
  <2>1. CASE down' = down
    BY <2>1
  <2>2. CASE S = Federate /\ RegisterForAll(f, label)
    <3>1. RespondToAll(f, Start(p))
      BY <1>5, <2>2 DEF RegisterForAll
    <3> QED
      BY <1>1, <1>5, <1>7, <3>1, ToldToAll
  <2>3. CASE S # Federate /\ RegisterForSet(f, label, S)
    <3>1. \/ down' = down
          \/ S \subseteq members /\ RespondToSome(S, Start(p))
      BY <1>5, <2>3 DEF RegisterForSet
    <3>2. members \subseteq Federate
      BY <1>1 DEF TypeOK
    <3>3. CASE S \subseteq members /\ RespondToSome(S, Start(p))
      <4>1. S \in SUBSET Federate
        BY <3>2, <3>3
      <4> QED
        BY <1>1, <1>5, <3>3, <4>1, RespondedToSome
    <3> QED
      BY <2>1, <3>1, <3>3
  <2> QED
    BY <1>2, <2>1, <2>2, <2>3
<1>8. unlinked = {} => \A g \in Federate : Quiet(g)
  BY <1>1, <1>5, <1>7, QuietNotice
<1> QED
  BY <1>1, <1>2, <1>6, <1>8, QuietStray

\* An answer for a label: f owes it, and the end of a label is told.
LEMMA LabelStray ==
    ASSUME FederationInvariant, StrayInvariant, NEW f \in Federate, LabelAchieved(f)
    PROVE  StrayInvariant'
<1> DEFINE label == Head(up[f]).of
<1>1. /\ TypeOK /\ Head(up[f]).kind = "ANSWER" /\ UpHolds(f, Head(up[f]))
      /\ Head(up[f]) \in ToSet(up[f]) /\ UNCHANGED <<commands, waiting>>
      /\ \A g \in Federate :
            /\ ToSet(up'[g]) \subseteq ToSet(up[g])
            /\ Respects(up[g], OneRequest) => Respects(up'[g], OneRequest)
  BY ServedStray DEF LabelAchieved
<1>2. label \in Label /\ label \notin SavesAndRestores
  BY ConstantsAssumption DEF LabelAchieved, SavesAndRestores
<1>3. Linked(f) /\ f \in members /\ AsksHold(f)
  <2>1. Linked(f)
    BY <1>1 DEF UpHolds
  <2> QED
    BY <2>1, Parts DEF FederateHolds, Linked
<1>4. PICK q \in owed[f] : q.of = label
  <2>1. Answering(f, label)
    BY <1>1 DEF Answering
  <2> QED
    BY <2>1, <1>2, <1>3 DEF AsksHold
<1>5. q \in pending /\ q \in Point /\ PendingPoint(label) = q
  <2>1. q \in pending /\ q \in Point
    BY <1>1, <1>4, Typed
  <2> QED
    BY <2>1, <1>1, <1>4, ThePendingPoint
<1>6. f \in Owing(owed, label)
  BY <1>4 DEF Owing
<1>7. /\ unlinked' = unlinked
      /\ \/ UNCHANGED <<pending, down>>
         \/ pending' = Answered(pending, label) /\ RespondToAll(f, End(q, TRUE))
  BY <1>3, <1>5, <1>6 DEF LabelAchieved
<1> DEFINE n == End(q, TRUE)
<1>8. n \in Notice /\ n # Exception /\ ~ EndOfSaveOrRestore(n)
  <2>1. n \in Notice /\ n.kind = "END" /\ n.point = q
    BY <1>5, Notices
  <2> HIDE DEF n
  <2> QED
    BY <1>2, <1>4, <2>1 DEF EndOfSaveOrRestore, Exception
<1> HIDE DEF label, n
<1>9. InProgress' = InProgress
  BY <1>2, <1>7 DEF InProgress, Answered
<1>10. unlinked = {} => \A g \in Federate : down'[g] \in {down[g], Append(down[g], n)}
  <2>1. RespondToAll(f, n) /\ unlinked = {} =>
          \A g \in Federate : down'[g] \in {down[g], Append(down[g], n)}
    BY <1>1, <1>8, ToldToAll
  <2> QED
    BY <1>7, <2>1 DEF n
<1>11. unlinked = {} => \A g \in Federate : Quiet(g)
  BY <1>1, <1>8, <1>10, QuietNotice
<1> QED
  BY <1>1, <1>7, <1>9, <1>11, QuietStray

\* An answer for the save or the restoration in progress, which may be its end.
LEMMA PointOver ==
    ASSUME FederationInvariant, StrayInvariant, NEW f \in Federate, Serving(f, "ANSWER"),
           NEW x \in SavesAndRestores, x = Head(up[f]).of, unlinked' = unlinked,
           NEW ok \in BOOLEAN,
           \/ UNCHANGED <<pending, down>>
           \/ unlinked # {}
           \/ pending' = Answered(pending, x) /\ RespondToAll(f, End(PendingPoint(x), ok))
    PROVE  StrayInvariant'
<1>1. /\ TypeOK /\ Head(up[f]).kind = "ANSWER" /\ UpHolds(f, Head(up[f]))
      /\ Head(up[f]) \in ToSet(up[f]) /\ UNCHANGED <<commands, waiting>>
      /\ \A g \in Federate :
            /\ ToSet(up'[g]) \subseteq ToSet(up[g])
            /\ Respects(up[g], OneRequest) => Respects(up'[g], OneRequest)
  BY ServedStray
<1>2. CASE UNCHANGED <<pending, down>>
  <2>1. InProgress' = InProgress
    BY <1>2 DEF InProgress
  <2>2. \A g \in Federate : Quiet(g)
    BY <1>2 DEF Quiet
  <2> QED
    BY <1>1, <2>1, <2>2, QuietStray
<1>3. CASE unlinked # {}
  BY <1>3 DEF StrayInvariant
<1>4. CASE /\ unlinked = {} /\ pending' = Answered(pending, x)
           /\ RespondToAll(f, End(PendingPoint(x), ok))
  <2>1. Linked(f) /\ AsksHold(f)
    <3>1. Linked(f)
      BY <1>1 DEF UpHolds
    <3> QED
      BY <3>1, Parts DEF FederateHolds
  <2>2. PICK q \in owed[f] : q.of = x
    <3>1. Answering(f, x) /\ x \in Label \cup SavesAndRestores
      BY <1>1 DEF Answering
    <3> QED
      BY <3>1, <2>1 DEF AsksHold
  <2>3. q \in pending /\ q \in Point /\ PendingPoint(x) = q
    <3>1. q \in pending /\ q \in Point
      BY <1>1, <2>2, Typed
    <3> QED
      BY <3>1, <1>1, <2>2, ThePendingPoint
  <2>4. /\ \A g \in Federate : Exception \notin ToSet(down[g]) /\ RequesterHolds(g)
        /\ \A r, s \in InProgress : r = s
    BY <1>4 DEF StrayInvariant
  <2>5. q \in InProgress
    BY <2>2, <2>3 DEF InProgress
  <2>6. InProgress' = {}
    <3>1. \A r \in InProgress : r.of = x
      BY <2>2, <2>4, <2>5
    <3> QED
      BY <3>1, <1>4 DEF InProgress, Answered
  <2> DEFINE n == End(q, ok)
  <2>7. n \in Notice /\ n # Exception
    <3>1. n \in Notice /\ n.kind = "END"
      BY <2>3, Notices
    <3> HIDE DEF n
    <3> QED
      BY <3>1 DEF Exception
  <2> HIDE DEF n
  <2>8. \A g \in Federate : down'[g] \in {down[g], Append(down[g], n)}
    <3>1. RespondToAll(f, n)
      BY <1>4, <2>3 DEF n
    <3> QED
      BY <3>1, <1>1, <1>4, <2>7, ToldToAll
  <2>9. ASSUME NEW g \in Federate
        PROVE  Exception \notin ToSet(down'[g]) /\ RequesterHolds(g)'
    <3>1. down[g] \in Seq(Notice) /\ \A m \in ToSet(down[g]) : m \in Notice
      BY <1>1, Streams DEF InTransit
    <3>2. /\ ToSet(Append(down[g], n)) = ToSet(down[g]) \cup {n}
          /\ Respects(Append(down[g], n), OneEnd) <=>
                Respects(down[g], OneEnd) /\ \A m \in ToSet(down[g]) : <<m, n>> \in OneEnd
      BY <2>7, <3>1, Appended
    <3>3. Exception \notin ToSet(down'[g])
      BY <2>4, <2>7, <2>8, <3>2
    <3>4. ~ Asking(g) /\ ~ Asking(g)'
      <4>1. ~ Asking(g)
        BY <2>4, <2>5 DEF RequesterHolds
      <4> QED
        BY <4>1, <1>1 DEF Asking
    <3>5. CASE g \notin Savers \cup Restorers
      BY <3>3, <3>4, <3>5 DEF RequesterHolds
    <3>6. CASE g \in Savers \cup Restorers
      <4>1. /\ ~ Ending(down[g]) /\ ~ Ending(commands[g]) /\ waiting[g]
            /\ Respects(up[g], OneRequest) /\ Respects(down[g], OneEnd)
            /\ Respects(commands[g], OneEnd)
        BY <2>4, <2>5, <3>6 DEF RequesterHolds
      <4>2. \A m \in ToSet(down[g]) : <<m, n>> \in OneEnd
        BY <2>7, <3>1, <4>1, EndRelations DEF Ending
      <4>3. Respects(down'[g], OneEnd)
        BY <2>8, <3>2, <4>1, <4>2
      <4>4. /\ Respects(up[g], OneRequest)' /\ Respects(down[g], OneEnd)'
            /\ Respects(commands[g], OneEnd)'
        BY <1>1, <4>1, <4>3 DEF Respects, OneRequest, OneEnd, EndOfSaveOrRestore
      <4>5. ~ Ending(commands[g])' /\ waiting'[g]
        BY <1>1, <4>1 DEF Ending, EndOfSaveOrRestore
      <4> QED
        BY <2>6, <3>3, <3>4, <3>6, <4>4, <4>5 DEF RequesterHolds
    <3> QED
      BY <3>5, <3>6
  <2> QED
    BY <2>6, <2>9 DEF StrayInvariant, Exception
<1> QED
  BY <1>2, <1>3, <1>4

LEMMA StatusStray ==
    ASSUME FederationInvariant, StrayInvariant, NEW f \in Federate,
           SaveStatus(f) \/ RestoreStatus(f)
    PROVE  StrayInvariant'
<1>1. /\ Serving(f, "ANSWER") /\ Head(up[f]).of \in SavesAndRestores
      /\ unlinked' = unlinked
  BY DEF SaveStatus, RestoreStatus, SavesAndRestores
<1>2. f \in members
  <2>1. UpHolds(f, Head(up[f])) /\ Head(up[f]).kind = "ANSWER"
    BY <1>1, ServedStray
  <2> QED
    BY <2>1 DEF UpHolds, Linked
<1>3. my_save_status \in BOOLEAN /\ my_restore_status \in BOOLEAN /\ Head(up[f]).ok \in BOOLEAN
  <2>1. Head(up[f]) \in Request /\ Head(up[f]).kind = "ANSWER" /\ TypeOK
    BY <1>1, Served
  <2> QED
    BY <2>1, Requests DEF TypeOK
<1>4. CASE SaveStatus(f)
  <2>1. \/ UNCHANGED <<pending, down>>
        \/ unlinked # {}
        \/ \E written \in BOOLEAN :
             /\ pending' = Answered(pending, Save)
             /\ RespondToAll(f, End(PendingPoint(Save),
                                    (my_save_status /\ Head(up[f]).ok) /\ written))
    BY <1>2, <1>4 DEF SaveStatus
  <2>2. Save \in SavesAndRestores /\ Head(up[f]).of = Save
    BY <1>4 DEF SaveStatus, SavesAndRestores
  <2>3. \E ok \in BOOLEAN :
          \/ UNCHANGED <<pending, down>>
          \/ unlinked # {}
          \/ /\ pending' = Answered(pending, Save)
             /\ RespondToAll(f, End(PendingPoint(Save), ok))
    <3>1. CASE UNCHANGED <<pending, down>> \/ unlinked # {}
      BY <3>1
    <3>2. ASSUME NEW written \in BOOLEAN, pending' = Answered(pending, Save),
                 RespondToAll(f, End(PendingPoint(Save),
                                     (my_save_status /\ Head(up[f]).ok) /\ written))
          PROVE  \E ok \in BOOLEAN :
                   /\ pending' = Answered(pending, Save)
                   /\ RespondToAll(f, End(PendingPoint(Save), ok))
      <4> DEFINE ok == (my_save_status /\ Head(up[f]).ok) /\ written
      <4>1. ok \in BOOLEAN
        OBVIOUS
      <4>2. RespondToAll(f, End(PendingPoint(Save), ok))
        BY <3>2
      <4> HIDE DEF ok
      <4> QED
        BY <3>2, <4>1, <4>2
    <3> QED
      BY <2>1, <3>1, <3>2
  <2> QED
    BY <1>1, <2>2, <2>3, PointOver
<1>5. CASE RestoreStatus(f)
  <2> DEFINE ok == my_restore_status /\ Head(up[f]).ok
  <2>1. /\ Restore \in SavesAndRestores /\ Head(up[f]).of = Restore /\ ok \in BOOLEAN
    BY <1>5 DEF RestoreStatus, SavesAndRestores
  <2>2. \/ UNCHANGED <<pending, down>>
        \/ unlinked # {}
        \/ /\ pending' = Answered(pending, Restore)
           /\ RespondToAll(f, End(PendingPoint(Restore), ok))
    BY <1>2, <1>5 DEF RestoreStatus
  <2> HIDE DEF ok
  <2> QED
    BY <1>1, <2>1, <2>2, PointOver
<1> QED
  BY <1>4, <1>5

\* The save or the restoration that f asks for starts, for want of any other.
LEMMA PointStartsStray ==
    ASSUME OneRequester, FederationInvariant, StrayInvariant, NEW f \in Federate,
           SaveOrRestore(f)
    PROVE  StrayInvariant'
<1> DEFINE x == Head(up[f]).of
           p == NewPoint(x)
<1>0. Serving(f, "REQUEST") /\ unlinked' = unlinked
  BY DEF SaveOrRestore
<1>1. /\ TypeOK /\ Head(up[f]).kind = "REQUEST" /\ Head(up[f]) \in ToSet(up[f])
      /\ UpHolds(f, Head(up[f])) /\ UNCHANGED <<commands, waiting>>
      /\ \A g \in Federate \ {f} : up'[g] = up[g]
      /\ \A g \in Federate :
            /\ ToSet(up'[g]) \subseteq ToSet(up[g])
            /\ Respects(up[g], OneRequest) => Respects(up'[g], OneRequest)
      /\ Respects(up[f], OneRequest) =>
            \A m \in ToSet(up'[f]) : <<Head(up[f]), m>> \in OneRequest
  BY <1>0, ServedStray
<1>2. f \in members /\ x \in SavesAndRestores
  BY <1>1 DEF UpHolds, Linked
<1> SUFFICES ASSUME unlinked = {}
             PROVE  /\ \A g \in Federate : Exception \notin ToSet(down'[g])
                    /\ \A q, r \in InProgress' : q = r
                    /\ \A g \in Federate : RequesterHolds(g)'
  BY <1>0 DEF StrayInvariant, Exception
<1>3. \A g \in Federate : Exception \notin ToSet(down[g]) /\ RequesterHolds(g)
  BY DEF StrayInvariant
<1>4. Asking(f) /\ f \in Savers \cup Restorers /\ InProgress = {}
  <2>1. Asking(f)
    BY <1>1 DEF Asking
  <2> QED
    BY <2>1, <1>3 DEF RequesterHolds
<1>5. ~ IsPending(x)
  BY <1>2, <1>4 DEF IsPending, InProgress
<1>6. pending' = pending \cup {p} /\ RespondToAll(f, Start(p))
  BY <1>2, <1>5 DEF SaveOrRestore
<1>7. p \in Point /\ p.of = x
  BY <1>1, <1>2, NewPoints DEF TypeOK
<1>8. Start(p) \in Notice /\ Start(p) # Exception /\ ~ EndOfSaveOrRestore(Start(p))
  <2>1. Start(p) \in Notice /\ Start(p).kind = "START"
    BY <1>7, Notices
  <2> HIDE DEF p
  <2> QED
    BY <2>1 DEF EndOfSaveOrRestore, Exception
<1> HIDE DEF x, p
<1>9. InProgress' = {p}
  BY <1>2, <1>4, <1>6, <1>7 DEF InProgress
<1>10. \A g \in Federate : Quiet(g)
  BY <1>1, <1>6, <1>8, ToldToAll, QuietNotice
<1>11. ASSUME NEW g \in Federate
       PROVE  Exception \notin ToSet(down'[g]) /\ RequesterHolds(g)'
  <2>1. Exception \notin ToSet(down'[g])
    BY <1>3, <1>10 DEF Quiet
  <2>2. CASE g # f
    <3>1. g \notin Savers \cup Restorers
      BY <1>4, <2>2 DEF OneRequester
    <3>2. ~ Asking(g)
      BY <3>1, <1>3 DEF RequesterHolds
    <3>3. ~ Asking(g)'
      BY <3>2, <1>1 DEF Asking
    <3> QED
      BY <2>1, <3>1, <3>3 DEF RequesterHolds
  <2>3. CASE g = f
    <3>1. /\ ~ Ending(down[f]) /\ ~ Ending(commands[f]) /\ waiting[f]
          /\ Respects(up[f], OneRequest) /\ Respects(down[f], OneEnd)
          /\ Respects(commands[f], OneEnd)
      BY <1>3, <1>4 DEF RequesterHolds
    <3>2. ~ Asking(f)'
      <4>1. \A m \in ToSet(up[f]) : m \in Request
        BY <1>1, Streams
      <4>2. \A m \in ToSet(up'[f]) : m.kind # "REQUEST"
        BY <4>1, <1>1, <3>1, EndRelations
      <4> QED
        BY <4>2 DEF Asking
    <3>3. ~ Ending(down[f])'
      <4>1. Ending(down[f])' <=> \E n \in ToSet(down'[f]) : EndOfSaveOrRestore(n)
        BY DEF Ending, EndOfSaveOrRestore
      <4> QED
        BY <4>1, <3>1, <1>10 DEF Quiet, Ending
    <3>4. ~ Ending(commands[f])' /\ waiting'[f]
      BY <1>1, <3>1 DEF Ending, EndOfSaveOrRestore
    <3>5. /\ Respects(up[f], OneRequest)' /\ Respects(down[f], OneEnd)'
          /\ Respects(commands[f], OneEnd)'
      <4>1. Respects(up'[f], OneRequest) /\ Respects(down'[f], OneEnd)
        BY <1>1, <1>10, <3>1 DEF Quiet
      <4> QED
        BY <4>1, <1>1, <3>1 DEF Respects, OneRequest, OneEnd, EndOfSaveOrRestore
    <3> QED
      BY <2>1, <2>3, <3>2, <3>3, <3>4, <3>5 DEF RequesterHolds
  <2> QED
    BY <2>2, <2>3
<1> QED
  BY <1>9, <1>11

LEMMA StrayInitially ==
    ASSUME Init
    PROVE  StrayInvariant
<1>1. \A g \in Federate : up[g] = <<>> /\ down[g] = <<>> /\ commands[g] = <<>>
  BY DEF Init
<1>2. ToSet(<<>>) = {} /\ \A R : Respects(<<>>, R)
  BY EmptyStream
<1>3. InProgress = {}
  BY DEF Init, InProgress
<1>4. \A g \in Federate : Exception \notin ToSet(down[g]) /\ RequesterHolds(g)
  BY <1>1, <1>2, <1>3 DEF RequesterHolds, Asking, Ending
<1> QED
  BY <1>3, <1>4 DEF StrayInvariant

LEMMA StrayStep ==
    ASSUME OneRequester, FederationInvariant, StrayInvariant, [Next]_vars
    PROVE  StrayInvariant'
<1>1. CASE UNCHANGED vars
  <2>1. UNCHANGED <<unlinked, pending, commands, waiting, up, down>>
    BY <1>1 DEF vars, rtigVars, federateVars
  <2>2. InProgress' = InProgress /\ \A g \in Federate : Quiet(g)
    BY <2>1 DEF InProgress, Quiet
  <2> QED
    BY <2>1, <2>2, QuietStray
<1>2. ASSUME NEW f \in Federate, RtiaStep(f)
      PROVE  StrayInvariant'
  <2>1. CASE \/ JoinFederationExecution(f) \/ ResignFederationExecution(f)
             \/ \E label \in Label, S \in FederateSets \cup {Federate} :
                  RegisterSynchronization(f, label, S)
             \/ \E p \in duties[f] : UnregisterSynchronization(f, p)
             \/ \E p \in duties[f], ok \in BOOLEAN :
                  FederateSaveStatus(f, p, ok) \/ FederateRestoreStatus(f, p, ok)
    BY <2>1, CallStray
  <2>2. CASE \E x \in {Save, Restore}, dated \in BOOLEAN :
               RequestFederationSaveOrRestore(f, x, dated)
    BY <2>2, RequestStray
  <2>3. CASE ProcessNetworkMessage(f)
    BY <2>3, ProcessStray
  <2>4. CASE WaitMessage(f) \/ Die(f)
    BY <2>4, DieOrWaitStray
  <2>5. CASE Tick(f)
    BY <2>5, TickStray
  <2> QED
    BY <1>2, <2>1, <2>2, <2>3, <2>4, <2>5 DEF RtiaStep
<1>3. ASSUME NEW f \in Federate, RtigStep(f)
      PROVE  StrayInvariant'
  BY <1>3, AddStray, RemoveStray, KillStray, RegisterStray, LabelStray, StatusStray,
     PointStartsStray DEF RtigStep
<1> QED
  BY <1>1, <1>2, <1>3 DEF Next

\* What the federate that asks for saves and restorations has asked for is on its
\* stream, in progress or about to be told as over, and only one of these, when no
\* other asks for any (requestFederationSave, requestFederationRestore,
\* federateSaveStatus, federateRestoreStatus).
THEOREM RequestsAreSettled ==
    ASSUME OneRequester
    PROVE  Spec => []StrayInvariant
<1>1. Init => StrayInvariant
  BY StrayInitially
<1>2. FederationInvariant /\ StrayInvariant /\ [Next]_vars => StrayInvariant'
  BY StrayStep
<1> QED
  BY <1>1, <1>2, PointsAreKept, PTL DEF Spec

\* The RTIG answers no request with an exception, which would end the RTIA that
\* gets it (MessageProcessor.cc, processNetworkMessage), when one federate asks for
\* the saves and the restorations and each has joined once.
THEOREM NoRtiaIsEnded ==
    ASSUME OneRequester
    PROVE  Spec => []NoStrayAnswer
<1>1. StrayInvariant => NoStrayAnswer
  BY DEF StrayInvariant, NoStrayAnswer
<1> QED
  BY <1>1, RequestsAreSettled, PTL

(***************************************************************************)
(* Each link refers to its federate (OnceInvariant).                         *)
(***************************************************************************)

\* What g and its RTIA hold is what it was.
Idle(g) ==
    /\ up'[g] = up[g] /\ down'[g] = down[g] /\ commands'[g] = commands[g]
    /\ rtia'[g] = rtia[g] /\ duties'[g] = duties[g]
    /\ my_synchronization_labels'[g] = my_synchronization_labels[g]
    /\ my_is_saving'[g] = my_is_saving[g] /\ my_is_restoring'[g] = my_is_restoring[g]

\* f sends m, and is told and given nothing.
Speaks(f, m) ==
    /\ up'[f] = Append(up[f], m) /\ ToSet(up'[f]) = ToSet(up[f]) \cup {m}
    /\ down'[f] = down[f] /\ commands'[f] = commands[f]
    /\ UNCHANGED <<my_is_saving, my_is_restoring>>

LEMMA Speaking ==
    ASSUME TypeOK, NEW f \in Federate, NEW m \in Request, SendMessage(f, m),
           UNCHANGED <<down, commands, my_is_saving, my_is_restoring>>
    PROVE  Speaks(f, m)
BY Says DEF Speaks

\* Only what f and its RTIA hold changes.
LEMMA RtiaAlone ==
    ASSUME TypeOK, NEW f \in Federate, RtiaStep(f)
    PROVE  UNCHANGED rtigVars /\ \A g \in Federate \ {f} : Idle(g)
<1> USE DEF Idle, rtigVars, rtiaVars, federateVars, SendMessage, TypeOK
<1>1. CASE JoinFederationExecution(f) \/ ResignFederationExecution(f)
  BY <1>1 DEF JoinFederationExecution, ResignFederationExecution
<1>2. CASE \/ \E label \in Label, S \in FederateSets \cup {Federate} :
                RegisterSynchronization(f, label, S)
           \/ \E p \in duties[f] : UnregisterSynchronization(f, p)
  BY <1>2 DEF RegisterSynchronization, UnregisterSynchronization
<1>3. CASE \E x \in {Save, Restore}, dated \in BOOLEAN :
              RequestFederationSaveOrRestore(f, x, dated)
  BY <1>3 DEF RequestFederationSaveOrRestore
<1>4. CASE \E p \in duties[f], ok \in BOOLEAN :
              FederateSaveStatus(f, p, ok) \/ FederateRestoreStatus(f, p, ok)
  BY <1>4 DEF FederateSaveStatus, FederateRestoreStatus
<1>5. CASE ProcessNetworkMessage(f)
  BY <1>5 DEF ProcessNetworkMessage
<1>6. CASE WaitMessage(f)
  BY <1>6 DEF WaitMessage
<1>7. CASE Tick(f)
  BY <1>7 DEF Tick
<1>8. CASE Die(f)
  BY <1>8 DEF Die
<1> QED
  BY <1>1, <1>2, <1>3, <1>4, <1>5, <1>6, <1>7, <1>8 DEF RtiaStep

\* f calls a service other than tick.
CallsService(f) ==
    \/ JoinFederationExecution(f) \/ ResignFederationExecution(f)
    \/ \E label \in Label, S \in FederateSets \cup {Federate} :
         RegisterSynchronization(f, label, S)
    \/ \E p \in duties[f] : UnregisterSynchronization(f, p)
    \/ \E x \in {Save, Restore}, dated \in BOOLEAN :
         RequestFederationSaveOrRestore(f, x, dated)
    \/ \E p \in duties[f], ok \in BOOLEAN :
         FederateSaveStatus(f, p, ok) \/ FederateRestoreStatus(f, p, ok)

LEMMA RtiaSteps ==
    ASSUME NEW f \in Federate, RtiaStep(f)
    PROVE  \/ CallsService(f) \/ ProcessNetworkMessage(f) \/ WaitMessage(f)
           \/ Tick(f) \/ Die(f)
BY DEF RtiaStep, CallsService

\* One more call of a service and none of the other.
OneMore(service, other) ==
    /\ calls[service] < MaxCalls[service] /\ calls'[service] = calls[service] + 1
    /\ calls'[other] = calls[other]

\* Every service but tick sends a message m, and does no more than this.
CallSends(f, m) ==
    /\ Speaks(f, m)
    /\ m.kind = "JOIN" =>
          /\ rtia'[f] = "joining"
          /\ rtia[f] = "out" \/ (rtia[f] = "resigned" /\ MaxCalls["rejoin"] > 0)
    /\ m.kind = "RESIGN" =>
          rtia[f] = "member" /\ rtia'[f] = "resigning" /\ MaxCalls["resign"] > 0
    /\ m.kind \notin {"JOIN", "RESIGN"} => rtia[f] = "member" /\ rtia'[f] = "member"
    /\ IF m.kind = "ANSWER"
         THEN \E p \in duties[f] : p.of = m.of /\ duties'[f] = duties[f] \ {p}
         ELSE duties'[f] = duties[f]
    /\ \A x \in my_synchronization_labels[f] :
          x \in my_synchronization_labels'[f] \/ (m.kind = "ANSWER" /\ m.of = x)
    /\ IF SaveRequest(m)
         THEN \/ OneMore("save", "timed save") \/ OneMore("timed save", "save")
         ELSE calls'["save"] = calls["save"] /\ calls'["timed save"] = calls["timed save"]

LEMMA Spending ==
    ASSUME TypeOK, NEW service \in Service, Spend(service)
    PROVE  /\ MaxCalls[service] > 0 /\ calls[service] < MaxCalls[service]
           /\ calls'[service] = calls[service] + 1
           /\ \A s \in Service \ {service} : calls'[s] = calls[s]
<1>1. calls \in [Service -> Nat] /\ MaxCalls \in [Service -> Nat]
  BY ConstantsAssumption DEF TypeOK
<1>2. calls[service] < MaxCalls[service] /\ calls' = [calls EXCEPT ![service] = calls[service] + 1]
  BY DEF Spend
<1> QED
  BY <1>1, <1>2

LEMMA Called ==
    ASSUME TypeOK, NEW f \in Federate,
           CallsService(f)
    PROVE  \E m \in Request : CallSends(f, m)
<1>1. /\ rtia = [g \in Federate |-> rtia[g]]
      /\ duties \in [Federate -> SUBSET Point]
      /\ my_synchronization_labels \in [Federate -> SUBSET Label]
  BY DEF TypeOK
<1>2. {"register", "resign", "rejoin", "save", "timed save", "restore"} = Service
  BY DEF Service
<1> DEFINE SameElse == UNCHANGED <<down, commands, my_is_saving, my_is_restoring>>
           Unspent == calls'["save"] = calls["save"] /\ calls'["timed save"] = calls["timed save"]
           SameLabels == my_synchronization_labels' = my_synchronization_labels
<1>3. CASE JoinFederationExecution(f)
  <2> DEFINE m == Ask("JOIN", Save, Federate, FALSE)
  <2>1. m \in Request /\ m.kind = "JOIN"
    BY PlainRequests
  <2>2. SendMessage(f, m) /\ SameElse /\ SameLabels /\ duties' = duties
    BY <1>3 DEF JoinFederationExecution
  <2>3. rtia'[f] = "joining"
    BY <1>1, <1>3 DEF JoinFederationExecution
  <2>4. /\ rtia[f] = "out" \/ (rtia[f] = "resigned" /\ MaxCalls["rejoin"] > 0)
        /\ Unspent
    <3>1. CASE rtia[f] = "out" /\ UNCHANGED calls
      BY <3>1
    <3>2. CASE rtia[f] = "resigned" /\ Spend("rejoin")
      BY <1>2, <3>2, Spending
    <3> QED
      BY <1>3, <3>1, <3>2 DEF JoinFederationExecution
  <2> HIDE DEF m
  <2>5. Speaks(f, m)
    BY <2>1, <2>2, Speaking
  <2> QED
    BY <2>1, <2>2, <2>3, <2>4, <2>5 DEF CallSends, SaveRequest
<1>4. CASE ResignFederationExecution(f)
  <2> DEFINE m == Ask("RESIGN", Save, Federate, FALSE)
  <2>1. m \in Request /\ m.kind = "RESIGN"
    BY PlainRequests
  <2>2. /\ SendMessage(f, m) /\ SameElse /\ SameLabels /\ duties' = duties
        /\ rtia[f] = "member" /\ Spend("resign")
    BY <1>4 DEF ResignFederationExecution
  <2>3. rtia'[f] = "resigning"
    BY <1>1, <1>4 DEF ResignFederationExecution
  <2>4. MaxCalls["resign"] > 0 /\ Unspent
    BY <1>2, <2>2, Spending
  <2> HIDE DEF m
  <2>5. Speaks(f, m)
    BY <2>1, <2>2, Speaking
  <2> QED
    BY <2>1, <2>2, <2>3, <2>4, <2>5 DEF CallSends, SaveRequest
<1>5. ASSUME NEW label \in Label, NEW S \in FederateSets \cup {Federate},
             RegisterSynchronization(f, label, S)
      PROVE  \E m \in Request : CallSends(f, m)
  <2> DEFINE m == Ask("REGISTER", label, S, FALSE)
  <2>1. m \in Request /\ m.kind = "REGISTER"
    BY Requests
  <2>2. /\ SendMessage(f, m) /\ SameElse /\ duties' = duties
        /\ rtia[f] = "member" /\ rtia' = rtia /\ Spend("register")
    BY <1>5 DEF RegisterSynchronization
  <2>3. Unspent
    BY <1>2, <2>2, Spending
  <2>4. my_synchronization_labels[f] \subseteq my_synchronization_labels'[f]
    BY <1>1, <1>5 DEF RegisterSynchronization
  <2> HIDE DEF m
  <2>5. Speaks(f, m)
    BY <2>1, <2>2, Speaking
  <2> QED
    BY <2>1, <2>2, <2>3, <2>4, <2>5 DEF CallSends, SaveRequest
<1>6. ASSUME NEW x \in {Save, Restore}, NEW dated \in BOOLEAN,
             RequestFederationSaveOrRestore(f, x, dated)
      PROVE  \E m \in Request : CallSends(f, m)
  <2> DEFINE m == Ask("REQUEST", x, Federate, dated)
  <2>1. m \in Request /\ m.kind = "REQUEST" /\ m.of = x
    <3>1. x \in Label \cup SavesAndRestores /\ Federate \in FederateSets \cup {Federate}
      BY DEF SavesAndRestores
    <3>2. "REQUEST" \in {"JOIN", "RESIGN", "REGISTER", "REQUEST"}
      OBVIOUS
    <3> QED
      BY <3>1, <3>2, Requests
  <2>2. /\ SendMessage(f, m) /\ SameElse /\ SameLabels /\ duties' = duties
        /\ rtia[f] = "member" /\ rtia' = rtia
    BY <1>6 DEF RequestFederationSaveOrRestore, rtiaVars
  <2>3. CASE x = Save
    <3>1. PICK s \in {"save", "timed save"} : Spend(s)
      BY <1>6, <2>3 DEF RequestFederationSaveOrRestore, Save, Restore
    <3>2. OneMore("save", "timed save") \/ OneMore("timed save", "save")
      <4>1. CASE s = "save"
        BY <1>2, <3>1, <4>1, Spending DEF OneMore
      <4>2. CASE s = "timed save"
        BY <1>2, <3>1, <4>2, Spending DEF OneMore
      <4> QED
        BY <4>1, <4>2
    <3> HIDE DEF m
    <3>3. Speaks(f, m)
      BY <2>1, <2>2, Speaking
    <3> QED
      BY <2>1, <2>2, <2>3, <3>2, <3>3 DEF CallSends, SaveRequest
  <2>4. CASE x = Restore
    <3>1. Spend("restore")
      BY <1>6, <2>4 DEF RequestFederationSaveOrRestore, Save, Restore
    <3>2. Unspent
      BY <1>2, <3>1, Spending
    <3> HIDE DEF m
    <3>3. Speaks(f, m) /\ ~ SaveRequest(m)
      BY <2>1, <2>2, <2>4, Speaking DEF SaveRequest, Save, Restore
    <3> QED
      BY <2>1, <2>2, <3>2, <3>3 DEF CallSends
  <2> QED
    BY <2>3, <2>4
<1>7. ASSUME NEW p \in duties[f], NEW ok \in BOOLEAN, p.of \in Label \cup SavesAndRestores,
             SendMessage(f, [kind |-> "ANSWER", of |-> p.of, ok |-> ok]), SameElse,
             duties' = [duties EXCEPT ![f] = duties[f] \ {p}],
             my_synchronization_labels[f] \ {p.of} \subseteq my_synchronization_labels'[f],
             rtia[f] = "member", rtia' = rtia, calls' = calls
      PROVE  \E m \in Request : CallSends(f, m)
  <2> DEFINE m == [kind |-> "ANSWER", of |-> p.of, ok |-> ok]
  <2>1. m \in Request /\ m.kind = "ANSWER" /\ m.of = p.of /\ SendMessage(f, m)
    BY <1>7, Requests
  <2>2. duties'[f] = duties[f] \ {p}
    BY <1>1, <1>7
  <2> HIDE DEF m
  <2>3. Speaks(f, m)
    BY <1>7, <2>1, Speaking
  <2> QED
    BY <1>7, <2>1, <2>2, <2>3 DEF CallSends, SaveRequest
<1>8. ASSUME NEW p \in duties[f], UnregisterSynchronization(f, p)
      PROVE  \E m \in Request : CallSends(f, m)
  <2> DEFINE yes == TRUE
  <2>1. /\ p.of \in Label /\ rtia[f] = "member" /\ rtia' = rtia /\ calls' = calls /\ SameElse
        /\ SendMessage(f, [kind |-> "ANSWER", of |-> p.of, ok |-> yes])
        /\ duties' = [duties EXCEPT ![f] = duties[f] \ {p}]
    BY <1>8 DEF UnregisterSynchronization
  <2>2. my_synchronization_labels[f] \ {p.of} \subseteq my_synchronization_labels'[f]
    BY <1>1, <1>8 DEF UnregisterSynchronization
  <2>3. yes \in BOOLEAN
    OBVIOUS
  <2> HIDE DEF yes, SameElse
  <2> QED
    BY <1>7, <2>1, <2>2, <2>3
<1>9. ASSUME NEW p \in duties[f], NEW ok \in BOOLEAN,
             FederateSaveStatus(f, p, ok) \/ FederateRestoreStatus(f, p, ok)
      PROVE  \E m \in Request : CallSends(f, m)
  <2>1. /\ p.of \in SavesAndRestores /\ rtia[f] = "member" /\ rtia' = rtia /\ calls' = calls
        /\ SameElse /\ SameLabels
        /\ SendMessage(f, [kind |-> "ANSWER", of |-> p.of, ok |-> ok])
        /\ duties' = [duties EXCEPT ![f] = duties[f] \ {p}]
    BY <1>9 DEF FederateSaveStatus, FederateRestoreStatus, rtiaVars, SavesAndRestores
  <2> HIDE DEF SameElse
  <2> QED
    BY <1>7, <2>1
<1> QED
  BY <1>3, <1>4, <1>5, <1>6, <1>8, <1>9 DEF CallsService

\* The RTIA takes the head of its stream.
LEMMA Processed ==
    ASSUME FederationInvariant, NEW f \in Federate, ProcessNetworkMessage(f),
           NEW n, n = Head(down[f])
    PROVE  /\ rtia[f] = "member" /\ n \in Notice
           /\ ToSet(down[f]) = {n} \cup ToSet(down'[f])
           /\ \A R : Respects(down[f], R) =>
                 Respects(down'[f], R) /\ \A m \in ToSet(down'[f]) : <<n, m>> \in R
           /\ UNCHANGED <<calls, duties, my_synchronization_labels, my_is_saving,
                          my_is_restoring>>
           /\ \/ /\ rtia'[f] = "ending" /\ commands' = commands
                 /\ \E m \in Request : m.kind = "RESIGN" /\ up'[f] = Append(up[f], m)
              \/ /\ n.kind \in {"START", "END"} /\ rtia' = rtia /\ up' = up
                 /\ ToSet(commands'[f]) = ToSet(commands[f]) \cup {n}
                 /\ \A R : /\ Respects(commands[f], R)
                           /\ \A m \in ToSet(commands[f]) :
                                 IF n.point.of = Save THEN <<n, m>> \in R ELSE <<m, n>> \in R
                           => Respects(commands'[f], R)
<1>1. /\ TypeOK /\ LinkHolds(f) /\ down[f] \in Seq(Notice) /\ commands[f] \in Seq(Notice)
      /\ \A m \in ToSet(commands[f]) : m \in Notice
  BY Parts, Typed DEF FederateHolds
<1>2. /\ rtia[f] = "member" /\ down[f] # <<>> /\ down' = [down EXCEPT ![f] = Tail(down[f])]
      /\ UNCHANGED <<calls, duties, my_synchronization_labels, my_is_saving, my_is_restoring>>
  BY DEF ProcessNetworkMessage, federateVars
<1>3. down'[f] = Tail(down[f])
  BY <1>1, <1>2 DEF TypeOK
<1>4. /\ ToSet(down[f]) = {n} \cup ToSet(down'[f]) /\ n \in Notice
      /\ \A R : Respects(down[f], R) =>
           Respects(down'[f], R) /\ \A m \in ToSet(down'[f]) : <<n, m>> \in R
  BY <1>1, <1>2, <1>3, Taken
<1>5. CASE n.kind = "EXCEPTION"
  <2> DEFINE m == Ask("RESIGN", Save, Federate, FALSE)
  <2>1. m \in Request /\ m.kind = "RESIGN"
    BY PlainRequests
  <2>2. SendMessage(f, m) /\ commands' = commands /\ rtia'[f] = "ending"
    BY <1>1, <1>5 DEF ProcessNetworkMessage, TypeOK
  <2> HIDE DEF m
  <2>3. up'[f] = Append(up[f], m)
    BY <1>1, <2>1, <2>2, Says
  <2> QED
    BY <1>2, <1>4, <2>1, <2>2, <2>3
<1>6. CASE n.kind # "EXCEPTION"
  <2>1. n.kind \in {"START", "END"}
    <3>1. n.kind \notin Replies
      BY <1>1, <1>2, <1>4 DEF LinkHolds, DownHolds, Replies
    <3> QED
      BY <1>4, <1>6, <3>1, Notices
  <2>2. /\ commands' = [commands EXCEPT ![f] = InsertCommand(commands[f], n)]
        /\ up' = up /\ rtia' = rtia
    BY <1>6 DEF ProcessNetworkMessage
  <2>3. commands'[f] = IF n.point.of = Save THEN <<n>> \o commands[f]
                                            ELSE Append(commands[f], n)
    BY <1>1, <2>2 DEF TypeOK, InsertCommand
  <2>4. /\ ToSet(Append(commands[f], n)) = ToSet(commands[f]) \cup {n}
        /\ \A R : Respects(commands[f], R) /\ (\A m \in ToSet(commands[f]) : <<m, n>> \in R)
                    => Respects(Append(commands[f], n), R)
    BY <1>1, <1>4, Appended
  <2>5. /\ ToSet(<<n>> \o commands[f]) = ToSet(commands[f]) \cup {n}
        /\ \A R : Respects(commands[f], R) /\ (\A m \in ToSet(commands[f]) : <<n, m>> \in R)
                    => Respects(<<n>> \o commands[f], R)
    BY <1>1, <1>4, PutFirst
  <2>6. /\ ToSet(commands'[f]) = ToSet(commands[f]) \cup {n}
        /\ \A R : /\ Respects(commands[f], R)
                  /\ \A m \in ToSet(commands[f]) :
                        IF n.point.of = Save THEN <<n, m>> \in R ELSE <<m, n>> \in R
                  => Respects(commands'[f], R)
    BY <2>3, <2>4, <2>5
  <2> QED
    BY <1>2, <1>4, <2>1, <2>2, <2>6
<1> QED
  BY <1>5, <1>6

\* The answer that a federate waits for is taken out of its stream.
LEMMA Waited ==
    ASSUME FederationInvariant, NEW f \in Federate, WaitMessage(f)
    PROVE  /\ \E n \in Notice :
                 n.kind \in Replies /\ ToSet(down[f]) = {n} \cup ToSet(down'[f])
           /\ \A R : Respects(down[f], R) => Respects(down'[f], R)
           /\ rtia'[f] \in {"member", "refused", "resigned", "gone"}
           /\ rtia'[f] = "member" => rtia[f] = "joining"
           /\ UNCHANGED <<up, commands, calls, duties, my_synchronization_labels,
                          my_is_saving, my_is_restoring>>
<1>1. TypeOK /\ down[f] \in Seq(Notice)
  BY Parts, Typed
<1>2. PICK i \in 1 .. Len(down[f]) :
         /\ down[f][i].kind \in (IF rtia[f] = "joining" THEN {"JOINED", "JOIN_REFUSED"}
                                                       ELSE {"RESIGNED"})
         /\ down' = [down EXCEPT ![f] = RemoveAt(down[f], i)]
         /\ rtia' = [rtia EXCEPT ![f] = StateAfter(rtia[f], down[f][i].kind)]
  BY DEF WaitMessage
<1>3. /\ down'[f] = RemoveAt(down[f], i) /\ down[f][i] \in Notice
      /\ rtia'[f] = StateAfter(rtia[f], down[f][i].kind)
  BY <1>1, <1>2 DEF TypeOK
<1>4. /\ ToSet(down[f]) = {down[f][i]} \cup ToSet(down'[f])
      /\ \A R : Respects(down[f], R) => Respects(down'[f], R)
  BY <1>1, <1>3, TakenOut
<1>5. down[f][i].kind \in Replies
  BY <1>2 DEF Replies
<1>6. /\ rtia'[f] \in {"member", "refused", "resigned", "gone"}
      /\ rtia'[f] = "member" => rtia[f] = "joining"
  BY <1>2, <1>3 DEF StateAfter
<1>7. UNCHANGED <<up, commands, calls, duties, my_synchronization_labels, my_is_saving,
                  my_is_restoring>>
  BY DEF WaitMessage, federateVars
<1> QED
  BY <1>3, <1>4, <1>5, <1>6, <1>7

\* The head of the queue is given to the federate.
LEMMA Ticked ==
    ASSUME FederationInvariant, NEW f \in Federate, Tick(f), NEW n, n = Head(commands[f])
    PROVE  /\ rtia[f] = "member" /\ n \in Notice /\ n.kind \in {"START", "END"}
           /\ ToSet(commands[f]) = {n} \cup ToSet(commands'[f])
           /\ \A R : Respects(commands[f], R) =>
                 Respects(commands'[f], R) /\ \A m \in ToSet(commands'[f]) : <<n, m>> \in R
           /\ duties'[f] = IF n.kind = "START" THEN duties[f] \cup {n.point} ELSE duties[f]
           /\ my_synchronization_labels[f] \subseteq my_synchronization_labels'[f]
           /\ n.kind = "START" /\ n.point.of \in Label =>
                 n.point.of \in my_synchronization_labels'[f]
           /\ my_is_saving'[f] =
                 IF n.point.of = Save THEN n.kind = "START" ELSE my_is_saving[f]
           /\ my_is_restoring'[f] =
                 IF n.point.of = Restore THEN n.kind = "START" ELSE my_is_restoring[f]
           /\ UNCHANGED <<up, down, rtia, calls>>
<1>1. TypeOK /\ commands[f] \in Seq({m \in Notice : m.kind \in {"START", "END"}})
  BY Parts, Streams
<1>2. /\ commands[f] # <<>> /\ commands' = [commands EXCEPT ![f] = Tail(commands[f])]
      /\ rtia[f] = "member" /\ UNCHANGED <<up, down, rtia, calls>>
  BY DEF Tick
<1>3. /\ n \in {m \in Notice : m.kind \in {"START", "END"}}
      /\ ToSet(commands[f]) = {n} \cup ToSet(commands'[f])
      /\ \A R : Respects(commands[f], R) =>
            Respects(commands'[f], R) /\ \A m \in ToSet(commands'[f]) : <<n, m>> \in R
  <2>1. commands'[f] = Tail(commands[f])
    BY <1>1, <1>2 DEF TypeOK
  <2> QED
    BY <1>1, <1>2, <2>1, Taken
<1>4. /\ my_synchronization_labels' = [my_synchronization_labels EXCEPT ![f] =
            IF n.kind = "START" /\ n.point.of \in Label THEN @ \cup {n.point.of} ELSE @]
      /\ my_is_saving' = [my_is_saving EXCEPT ![f] =
            IF n.point.of = Save THEN n.kind = "START" ELSE @]
      /\ my_is_restoring' = [my_is_restoring EXCEPT ![f] =
            IF n.point.of = Restore THEN n.kind = "START" ELSE @]
      /\ duties' = [duties EXCEPT ![f] = IF n.kind = "START" THEN @ \cup {n.point} ELSE @]
  BY DEF Tick
<1>5. /\ duties'[f] = IF n.kind = "START" THEN duties[f] \cup {n.point} ELSE duties[f]
      /\ my_synchronization_labels'[f] =
            IF n.kind = "START" /\ n.point.of \in Label
              THEN my_synchronization_labels[f] \cup {n.point.of}
              ELSE my_synchronization_labels[f]
      /\ my_is_saving'[f] =
            IF n.point.of = Save THEN n.kind = "START" ELSE my_is_saving[f]
      /\ my_is_restoring'[f] =
            IF n.point.of = Restore THEN n.kind = "START" ELSE my_is_restoring[f]
  BY <1>1, <1>4 DEF TypeOK
<1> QED
  BY <1>2, <1>3, <1>5

\* A federate is lost, with the end of its stream.
LEMMA Died ==
    ASSUME FederationInvariant, NEW f \in Federate, Die(f)
    PROVE  /\ rtia'[f] = "lost" /\ ToSet(up'[f]) \subseteq ToSet(up[f])
           /\ \A R : Respects(up[f], R) => Respects(up'[f], R)
           /\ UNCHANGED <<down, commands, calls, duties, my_synchronization_labels,
                          my_is_saving, my_is_restoring>>
<1>1. TypeOK /\ up[f] \in Seq(Request)
  BY Parts, Typed
<1>2. PICK k \in 0 .. Len(up[f]) : up' = [up EXCEPT ![f] = SubSeq(up[f], 1, k)]
  BY DEF Die
<1>3. up'[f] = SubSeq(up[f], 1, k)
  BY <1>1, <1>2 DEF TypeOK
<1>4. rtia'[f] = "lost"
  BY <1>1 DEF Die, TypeOK
<1>5. UNCHANGED <<down, commands, calls, duties, my_synchronization_labels, my_is_saving,
                  my_is_restoring>>
  BY DEF Die, federateVars
<1> QED
  BY <1>1, <1>3, <1>4, <1>5, Cut

LEMMA JoinsOnceStays ==
    ASSUME NEW g, JoinsOnce(g),
           rtia'[g] = "out" => rtia[g] = "out",
           rtia'[g] \in {"resigning", "resigned"} =>
              rtia[g] \in {"resigning", "resigned"} \/ MaxCalls["resign"] > 0,
           \A m \in ToSet(up'[g]) : m.kind = "JOIN" => m \in ToSet(up[g]),
           g \in referenced' => g \in referenced
    PROVE  JoinsOnce(g)'
BY DEF JoinsOnce

\* Nothing of a link that f does not use changes what is known of it.
LEMMA OnceRtia ==
    ASSUME TypeOK, OnceInvariant, NEW f \in Federate, RtiaStep(f), JoinsOnce(f)'
    PROVE  OnceInvariant'
<1>1. UNCHANGED rtigVars /\ \A g \in Federate \ {f} : Idle(g)
  BY RtiaAlone
<1>2. unlinked' = unlinked /\ referenced' = referenced
  BY <1>1 DEF rtigVars
<1>3. ASSUME NEW g \in Federate \ {f}
      PROVE  JoinsOnce(g)'
  <2>1. JoinsOnce(g) /\ up'[g] = up[g] /\ rtia'[g] = rtia[g]
    BY <1>1 DEF OnceInvariant, Idle
  <2> QED
    BY <1>2, <2>1, JoinsOnceStays
<1> QED
  BY <1>2, <1>3 DEF OnceInvariant

LEMMA RtiaJoinsOnce ==
    ASSUME NoneRejoins, FederationInvariant, OnceInvariant, NEW f \in Federate, RtiaStep(f)
    PROVE  JoinsOnce(f)'
<1>1. TypeOK /\ JoinsOnce(f) /\ LinkHolds(f)
  BY Parts DEF OnceInvariant, FederateHolds
<1>2. UNCHANGED referenced
  BY <1>1, RtiaAlone DEF rtigVars
<1>3. MaxCalls["rejoin"] \in Nat /\ MaxCalls["resign"] \in Nat
  BY ConstantsAssumption DEF Service
<1>4. CASE CallsService(f)
  <2>1. PICK m \in Request : CallSends(f, m)
    BY <1>1, <1>4, Called
  <2>2. CASE m.kind = "JOIN"
    <3>1. rtia[f] # "resigned"
      <4>1. rtia[f] = "resigned" => MaxCalls["rejoin"] > 0
        BY <2>1, <2>2 DEF CallSends
      <4>2. rtia[f] = "resigned" => MaxCalls["resign"] > 0
        BY <1>1 DEF JoinsOnce
      <4> QED
        BY <1>3, <4>1, <4>2 DEF NoneRejoins
    <3>2. f \notin referenced /\ rtia'[f] = "joining"
      BY <1>1, <2>1, <2>2, <3>1 DEF CallSends, JoinsOnce
    <3> QED
      BY <1>2, <3>2 DEF JoinsOnce
  <2>3. CASE m.kind # "JOIN"
    <3>1. /\ \A r \in ToSet(up'[f]) : r.kind = "JOIN" => r \in ToSet(up[f])
          /\ rtia'[f] = "member" \/ (rtia'[f] = "resigning" /\ MaxCalls["resign"] > 0)
      BY <2>1, <2>3 DEF CallSends, Speaks
    <3> QED
      BY <1>1, <1>2, <3>1, JoinsOnceStays
  <2> QED
    BY <2>2, <2>3
<1>5. CASE ProcessNetworkMessage(f)
  <2> DEFINE m == Ask("RESIGN", Save, Federate, FALSE)
  <2>1. m \in Request /\ m.kind = "RESIGN"
    BY PlainRequests
  <2>2. \/ rtia'[f] = "ending" /\ SendMessage(f, m)
        \/ rtia'[f] = "member" /\ up' = up
    BY <1>1, <1>5 DEF ProcessNetworkMessage, TypeOK
  <2> HIDE DEF m
  <2>3. \A r \in ToSet(up'[f]) : r.kind = "JOIN" => r \in ToSet(up[f])
    BY <1>1, <2>1, <2>2, Says
  <2> QED
    BY <1>1, <1>2, <2>2, <2>3, JoinsOnceStays
<1>6. CASE WaitMessage(f)
  <2>1. /\ up' = up /\ rtia[f] \in {"joining", "resigning", "ending"}
        /\ \E kind : rtia'[f] = StateAfter(rtia[f], kind)
    <3>1. \E i \in 1 .. Len(down[f]) :
             rtia' = [rtia EXCEPT ![f] = StateAfter(rtia[f], down[f][i].kind)]
      BY <1>6 DEF WaitMessage
    <3>2. \E i \in 1 .. Len(down[f]) : rtia'[f] = StateAfter(rtia[f], down[f][i].kind)
      BY <1>1, <3>1 DEF TypeOK
    <3> QED
      BY <1>6, <3>2 DEF WaitMessage
  <2>2. /\ rtia'[f] # "out" /\ rtia'[f] # "resigning"
        /\ rtia'[f] = "resigned" => rtia[f] = "resigning"
    BY <2>1 DEF StateAfter
  <2> QED
    BY <1>1, <1>2, <2>1, <2>2, JoinsOnceStays
<1>7. CASE Tick(f)
  <2>1. up' = up /\ rtia' = rtia
    BY <1>7 DEF Tick
  <2> QED
    BY <1>1, <1>2, <2>1, JoinsOnceStays
<1>8. CASE Die(f)
  <2>1. rtia'[f] = "lost"
    BY <1>1, <1>8 DEF Die, TypeOK
  <2>2. ToSet(up'[f]) \subseteq ToSet(up[f])
    <3>1. PICK k \in 0 .. Len(up[f]) : up' = [up EXCEPT ![f] = SubSeq(up[f], 1, k)]
      BY <1>8 DEF Die
    <3>2. up[f] \in Seq(Request) /\ up'[f] = SubSeq(up[f], 1, k)
      BY <1>1, <3>1 DEF TypeOK
    <3> QED
      BY <3>2, Cut
  <2> QED
    BY <1>1, <1>2, <2>1, <2>2, JoinsOnceStays
<1> QED
  BY <1>4, <1>5, <1>6, <1>7, <1>8, RtiaSteps

\* The steps of the RTIG, when each link refers to its federate.

\* A request of f is read: nothing else of a federate or its RTIA changes.
Reads(f, m) ==
    /\ m \in ToSet(up[f]) /\ m \in Request /\ UpHolds(f, m)
    /\ ToSet(up[f]) = {m} \cup ToSet(up'[f])
    /\ \A g \in Federate \ {f} : up'[g] = up[g]
    /\ \A R : Respects(up[f], R) =>
          Respects(up'[f], R) /\ \A r \in ToSet(up'[f]) : <<m, r>> \in R
    /\ UNCHANGED <<rtia, my_synchronization_labels, my_is_saving, my_is_restoring,
                   commands, duties, calls>>

LEMMA Reading ==
    ASSUME FederationInvariant, NEW f \in Federate, NEW kind, Serving(f, kind)
    PROVE  Reads(f, Head(up[f])) /\ Head(up[f]).kind = kind
<1>1. /\ TypeOK /\ up[f] # <<>> /\ Head(up[f]).kind = kind /\ Head(up[f]) \in Request
      /\ UpHolds(f, Head(up[f])) /\ up'[f] = Tail(up[f])
      /\ \A g \in Federate \ {f} : up'[g] = up[g]
      /\ ToSet(up[f]) = {Head(up[f])} \cup ToSet(up'[f])
      /\ UNCHANGED <<rtia, my_synchronization_labels, my_is_saving, my_is_restoring,
                     commands, duties, calls>>
  BY Served
<1>2. up[f] \in Seq(Request)
  BY <1>1, Streams
<1>3. \A R : Respects(up[f], R) =>
        /\ Respects(Tail(up[f]), R)
        /\ \A r \in ToSet(Tail(up[f])) : <<Head(up[f]), r>> \in R
  BY <1>1, <1>2, Taken
<1> QED
  BY <1>1, <1>3 DEF Reads

LEMMA Admitted ==
    ASSUME FederationInvariant, OnceInvariant, NEW f \in Federate, AddFederate(f)
    PROVE  /\ Reads(f, Head(up[f])) /\ Head(up[f]).kind = "JOIN"
           /\ f \notin members /\ f \notin referenced
           /\ members' = members \cup {f} /\ unlinked' = {}
           /\ referenced' = referenced \cup {f} /\ pending' = pending
           /\ owed' = [owed EXCEPT ![f] = {p \in pending : p.of \in Label}]
           /\ down' = [down EXCEPT ![f] =
                Send(f, IF rtia[f] = "lost" THEN down[f]
                          ELSE down[f] \o SetToSeq({Start(p) : p \in {q \in pending : q.of \in Label}}),
                     [kind |-> "JOINED"])]
<1>1. Reads(f, Head(up[f])) /\ Head(up[f]).kind = "JOIN"
  BY Reading DEF AddFederate
<1>2. f \notin members
  BY <1>1 DEF Reads, UpHolds
<1>3. f \notin referenced /\ unlinked = {}
  BY <1>1 DEF Reads, OnceInvariant, JoinsOnce
<1> QED
  BY <1>1, <1>2, <1>3 DEF AddFederate

LEMMA Removed ==
    ASSUME FederationInvariant, NEW f \in Federate, RemoveFederate(f)
    PROVE  /\ Reads(f, Head(up[f])) /\ Head(up[f]).kind = "RESIGN"
           /\ f \in members /\ members' = members \ {f} /\ owed' = [owed EXCEPT ![f] = {}]
           /\ Reply(f, [kind |-> "RESIGNED"])
           /\ UNCHANGED <<unlinked, referenced, pending>>
<1>1. Reads(f, Head(up[f])) /\ Head(up[f]).kind = "RESIGN"
  BY Reading DEF RemoveFederate
<1>2. f \in members
  BY <1>1 DEF Reads, UpHolds, Linked
<1> QED
  BY <1>1, <1>2 DEF RemoveFederate

\* A point begins, and every member is told of it.
PointBegins(x, p) ==
    /\ p \in Point /\ p.of = x /\ p \notin pending /\ ~ IsPending(x)
    /\ pending' = pending \cup {p}
    /\ owed' = [g \in Federate |-> IF g \in members THEN owed[g] \cup {p} ELSE owed[g]]
    /\ down' = [g \in Federate |-> IF g \in members THEN Send(g, down[g], Start(p))
                                                    ELSE down[g]]

LEMMA Begun ==
    ASSUME ForEveryone, FederationInvariant, unlinked = {}, NEW f \in Federate,
           RegisterPoint(f) \/ SaveOrRestore(f)
    PROVE  /\ Reads(f, Head(up[f]))
           /\ \/ Head(up[f]).kind = "REGISTER" /\ Head(up[f]).of \in Label
              \/ Head(up[f]).kind = "REQUEST" /\ Head(up[f]).of \in SavesAndRestores
           /\ f \in members /\ UNCHANGED <<members, unlinked, referenced>>
           /\ \/ UNCHANGED <<pending, owed>> /\ (down' = down \/ Reply(f, Exception))
              \/ \E p : PointBegins(Head(up[f]).of, p)
<1> DEFINE m == Head(up[f])
           x == m.of
           p == NewPoint(x)
<1>1. TypeOK /\ EndsHold
  BY Parts
<1>2. /\ Reads(f, m)
      /\ \/ m.kind = "REGISTER" /\ x \in Label /\ RegisterPoint(f)
         \/ m.kind = "REQUEST" /\ x \in SavesAndRestores /\ SaveOrRestore(f)
  <2>1. CASE RegisterPoint(f)
    <3>1. Reads(f, m) /\ m.kind = "REGISTER"
      BY <2>1, Reading DEF RegisterPoint
    <3> QED
      BY <2>1, <3>1 DEF Reads, UpHolds
  <2>2. CASE SaveOrRestore(f)
    <3>1. Reads(f, m) /\ m.kind = "REQUEST"
      BY <2>2, Reading DEF SaveOrRestore
    <3> QED
      BY <2>2, <3>1 DEF Reads, UpHolds
  <2> QED
    BY <2>1, <2>2
<1>3. f \in members
  BY <1>2 DEF Reads, UpHolds, Linked
<1>4. UNCHANGED <<members, unlinked, referenced>>
  BY DEF RegisterPoint, SaveOrRestore
<1>5. \/ UNCHANGED <<pending, owed>> /\ (down' = down \/ Reply(f, Exception))
      \/ /\ ~ IsPending(x) /\ pending' = pending \cup {p}
         /\ owed' = [g \in Federate |-> IF g \in members THEN owed[g] \cup {p} ELSE owed[g]]
         /\ RespondToAll(f, Start(p))
  <2>1. CASE RegisterPoint(f) /\ m.kind = "REGISTER"
    <3>1. m.to = Federate
      BY <1>2, <2>1, Requests DEF Reads, ForEveryone
    <3> QED
      BY <1>3, <2>1, <3>1 DEF RegisterPoint, RegisterForAll
  <2>2. CASE SaveOrRestore(f)
    BY <1>3, <2>2 DEF SaveOrRestore
  <2> QED
    BY <1>2, <2>1, <2>2
<1>6. p \in Point /\ p.of = x /\ p \notin pending
  <2>1. round \in Nat /\ x \in Label \cup SavesAndRestores
    BY <1>1, <1>2 DEF TypeOK
  <2>2. p \in Point /\ p.of = x /\ p.round = round + 1
    BY <2>1, NewPoints
  <2>3. p \notin pending
    <3>1. \A q \in pending : q.round <= round
      BY <1>1 DEF EndsHold
    <3> HIDE DEF p
    <3> QED
      BY <2>1, <2>2, <3>1
  <2> QED
    BY <2>2, <2>3
<1> HIDE DEF m, p
<1>7. ASSUME ~ IsPending(x), pending' = pending \cup {p}, RespondToAll(f, Start(p)),
             owed' = [g \in Federate |-> IF g \in members THEN owed[g] \cup {p} ELSE owed[g]]
      PROVE  PointBegins(x, p)
  BY <1>6, <1>7 DEF PointBegins, RespondToAll, RespondToSome
<1> QED
  BY <1>2, <1>3, <1>4, <1>5, <1>7 DEF m

\* The last answer for x ends its point q, and every member is told.
PointCloses(x, q, ok) ==
    /\ \A g \in Federate : \A r \in owed'[g] : r.of # x
    /\ pending' = Answered(pending, x)
    /\ down' = [g \in Federate |-> IF g \in members THEN Send(g, down[g], End(q, ok))
                                                    ELSE down[g]]

LEMMA AnswerServed ==
    ASSUME FederationInvariant, unlinked = {}, NEW f \in Federate,
           LabelAchieved(f) \/ SaveStatus(f) \/ RestoreStatus(f)
    PROVE  /\ Reads(f, Head(up[f])) /\ Head(up[f]).kind = "ANSWER"
           /\ Head(up[f]).of \in Label \cup SavesAndRestores
           /\ f \in members /\ UNCHANGED <<members, unlinked, referenced>>
           /\ owed' = [owed EXCEPT ![f] = Answered(owed[f], Head(up[f]).of)]
           /\ \E q \in owed[f] : q.of = Head(up[f]).of
           /\ \/ /\ UNCHANGED <<pending, down>>
                 /\ \E g \in Federate : \E r \in owed'[g] : r.of = Head(up[f]).of
              \/ \E q \in owed[f], ok \in BOOLEAN :
                    q.of = Head(up[f]).of /\ PointCloses(Head(up[f]).of, q, ok)
<1> DEFINE m == Head(up[f])
           x == m.of
           owing == [owed EXCEPT ![f] = Answered(owed[f], x)]
<1>1. TypeOK
  BY Parts
<1>2. Reads(f, m) /\ m.kind = "ANSWER" /\ x \in Label \cup SavesAndRestores /\ m.ok \in BOOLEAN
  <2>1. Reads(f, m) /\ m.kind = "ANSWER"
    BY Reading DEF LabelAchieved, SaveStatus, RestoreStatus
  <2> QED
    BY <2>1, Requests DEF Reads
<1>3. f \in members /\ AsksHold(f) /\ Answering(f, x)
  <2>1. Linked(f)
    BY <1>2 DEF Reads, UpHolds
  <2> QED
    BY <1>2, <2>1, Parts DEF FederateHolds, Linked, Reads, Answering
<1>4. PICK q \in owed[f] : q.of = x
  BY <1>2, <1>3 DEF AsksHold
<1>5. q \in pending /\ q \in Point /\ PendingPoint(x) = q /\ f \in Owing(owed, x)
  <2>1. q \in pending /\ q \in Point
    BY <1>1, <1>4, Typed
  <2> QED
    BY <2>1, <1>1, <1>4, ThePendingPoint DEF Owing
<1>6. my_save_status \in BOOLEAN /\ my_restore_status \in BOOLEAN
  BY <1>1 DEF TypeOK
<1>7. UNCHANGED <<members, unlinked, referenced>> /\ owed' = owing
  BY <1>3, <1>5 DEF LabelAchieved, SaveStatus, RestoreStatus
<1>8. \/ UNCHANGED <<pending, down>> /\ Owing(owing, x) # {}
      \/ /\ Owing(owing, x) = {} /\ pending' = Answered(pending, x)
         /\ \E ok \in BOOLEAN : RespondToSome(members, End(q, ok))
  <2>1. CASE LabelAchieved(f)
    BY <1>3, <1>5, <2>1 DEF LabelAchieved, RespondToAll
  <2>2. CASE SaveStatus(f)
    <3>1. x = Save
      BY <2>2 DEF SaveStatus
    <3>2. \/ UNCHANGED <<pending, down>> /\ Owing(owing, x) # {}
          \/ /\ Owing(owing, x) = {} /\ pending' = Answered(pending, x)
             /\ \E written \in BOOLEAN :
                  RespondToSome(members, End(q, (my_save_status /\ m.ok) /\ written))
      BY <1>3, <1>5, <2>2, <3>1 DEF SaveStatus, RespondToAll
    <3>3. \A written \in BOOLEAN : \E ok \in BOOLEAN : ok = ((my_save_status /\ m.ok) /\ written)
      OBVIOUS
    <3> HIDE DEF m, owing
    <3> QED
      BY <3>2, <3>3
  <2>3. CASE RestoreStatus(f)
    <3>1. x = Restore
      BY <2>3 DEF RestoreStatus
    <3>2. \/ UNCHANGED <<pending, down>> /\ Owing(owing, x) # {}
          \/ /\ Owing(owing, x) = {} /\ pending' = Answered(pending, x)
             /\ RespondToSome(members, End(q, my_restore_status /\ m.ok))
      BY <1>3, <1>5, <2>3, <3>1 DEF RestoreStatus, RespondToAll
    <3>3. \E ok \in BOOLEAN : ok = (my_restore_status /\ m.ok)
      OBVIOUS
    <3> HIDE DEF m, owing
    <3> QED
      BY <3>2, <3>3
  <2> QED
    BY <2>1, <2>2, <2>3
<1> HIDE DEF m, owing
<1>9. ASSUME Owing(owing, x) = {}, pending' = Answered(pending, x), NEW ok \in BOOLEAN,
             RespondToSome(members, End(q, ok))
      PROVE  PointCloses(x, q, ok)
  BY <1>7, <1>9 DEF PointCloses, Owing, RespondToSome
<1>10. Owing(owing, x) # {} => \E g \in Federate : \E r \in owed'[g] : r.of = x
  BY <1>7 DEF Owing
<1> QED
  BY <1>2, <1>3, <1>4, <1>7, <1>8, <1>9, <1>10 DEF m, owing

LEMMA OnceRtig ==
    ASSUME FederationInvariant, OnceInvariant, NEW f \in Federate, RtigStep(f)
    PROVE  OnceInvariant'
<1>1. unlinked = {} /\ \A g \in Federate : JoinsOnce(g)
  BY DEF OnceInvariant
<1>2. ASSUME UNCHANGED <<unlinked, referenced, rtia>>,
             \A g \in Federate : ToSet(up'[g]) \subseteq ToSet(up[g])
      PROVE  OnceInvariant'
  BY <1>1, <1>2, JoinsOnceStays DEF OnceInvariant
<1>3. ASSUME Reads(f, Head(up[f]))
      PROVE  (\A g \in Federate : ToSet(up'[g]) \subseteq ToSet(up[g])) /\ rtia' = rtia
  BY <1>3 DEF Reads
<1>4. CASE AddFederate(f)
  <2>1. /\ Reads(f, Head(up[f])) /\ Head(up[f]).kind = "JOIN"
        /\ unlinked' = {} /\ referenced' = referenced \cup {f}
    BY <1>4, Admitted
  <2>2. \A g \in Federate : ToSet(up'[g]) \subseteq ToSet(up[g])
    BY <1>3, <2>1
  <2>3. ASSUME NEW g \in Federate \ {f}
        PROVE  JoinsOnce(g)'
    <3>1. JoinsOnce(g) /\ rtia'[g] = rtia[g] /\ (g \in referenced' => g \in referenced)
      BY <1>1, <2>1 DEF Reads
    <3> QED
      BY <2>2, <3>1, JoinsOnceStays
  <2>4. JoinsOnce(f)'
    <3>1. rtia'[f] \in {"joining", "lost"}
      BY <2>1 DEF Reads, UpHolds
    <3>2. \A m \in ToSet(up'[f]) : m.kind # "JOIN"
      <4>1. TypeOK /\ Respects(up[f], RequestsFit)
        BY Parts DEF FederateHolds, LinkHolds
      <4>2. \A m \in ToSet(up'[f]) : <<Head(up[f]), m>> \in RequestsFit
        BY <2>1, <4>1 DEF Reads
      <4> QED
        BY <4>2 DEF RequestsFit
    <3> QED
      BY <3>1, <3>2 DEF JoinsOnce
  <2> QED
    BY <2>1, <2>3, <2>4 DEF OnceInvariant
<1>5. CASE RemoveFederate(f)
  BY <1>2, <1>3, <1>5, Removed
<1>6. CASE KillFederate(f)
  BY <1>2, <1>6 DEF KillFederate, rtiaVars
<1>7. CASE RegisterPoint(f)
  <2>1. UNCHANGED <<unlinked, referenced>> /\ Reads(f, Head(up[f]))
    BY <1>7, Reading DEF RegisterPoint
  <2> QED
    BY <1>2, <1>3, <2>1
<1>8. CASE SaveOrRestore(f)
  <2>1. UNCHANGED <<unlinked, referenced>> /\ Reads(f, Head(up[f]))
    BY <1>8, Reading DEF SaveOrRestore
  <2> QED
    BY <1>2, <1>3, <2>1
<1>9. CASE LabelAchieved(f) \/ SaveStatus(f) \/ RestoreStatus(f)
  BY <1>1, <1>2, <1>3, <1>9, AnswerServed
<1> QED
  BY <1>4, <1>5, <1>6, <1>7, <1>8, <1>9 DEF RtigStep

LEMMA OnceStep ==
    ASSUME NoneRejoins, FederationInvariant, OnceInvariant, [Next]_vars
    PROVE  OnceInvariant'
<1>1. TypeOK
  BY Parts
<1>2. CASE UNCHANGED vars
  <2>1. UNCHANGED <<unlinked, referenced, rtia, up>>
    BY <1>2 DEF vars, rtigVars, rtiaVars
  <2> QED
    BY <2>1, JoinsOnceStays DEF OnceInvariant
<1>3. ASSUME NEW f \in Federate, RtiaStep(f)
      PROVE  OnceInvariant'
  BY <1>1, <1>3, RtiaJoinsOnce, OnceRtia
<1>4. ASSUME NEW f \in Federate, RtigStep(f)
      PROVE  OnceInvariant'
  BY <1>4, OnceRtig
<1> QED
  BY <1>2, <1>3, <1>4 DEF Next

LEMMA OnceInitially ==
    ASSUME Init
    PROVE  OnceInvariant
<1>1. \A g \in Federate : ToSet(up[g]) = {} /\ rtia[g] \in {"member", "out"}
  BY EmptyStream DEF Init
<1>2. \A g \in Federate : rtia[g] = "out" => g \notin referenced
  BY DEF Init
<1> QED
  BY <1>1, <1>2 DEF OnceInvariant, JoinsOnce, Init

\* A link refers to its federate, whoever joins, resigns or is lost, when none
\* rejoins (Federation::add, SocketServer::setReferences).
THEOREM LinksRefer ==
    ASSUME NoneRejoins
    PROVE  Spec => []OnceInvariant
<1>1. Init => OnceInvariant
  BY OnceInitially
<1>2. FederationInvariant /\ OnceInvariant /\ [Next]_vars => OnceInvariant'
  BY OnceStep
<1> QED
  BY <1>1, <1>2, PointsAreKept, PTL DEF Spec

(***************************************************************************)
(* What is in progress is owed, as long as nobody leaves (OwedInvariant).    *)
(***************************************************************************)

Staying(g) ==
    /\ rtia[g] \in {"out", "joining", "refused", "member"}
    /\ \A m \in ToSet(up[g]) : m.kind # "RESIGN"

LEMMA StaysHere ==
    ASSUME NEW g, Staying(g), rtia'[g] \in {"out", "joining", "refused", "member"},
           \A m \in ToSet(up'[g]) : m \in ToSet(up[g]) \/ m.kind # "RESIGN"
    PROVE  Staying(g)'
BY DEF Staying

LEMMA RtiaStaying ==
    ASSUME NobodyLeaves, FederationInvariant, OnceInvariant, StrayInvariant,
           NEW f \in Federate, Staying(f), RtiaStep(f)
    PROVE  Staying(f)'
<1>1. TypeOK /\ Exception \notin ToSet(down[f])
  BY Parts DEF OnceInvariant, StrayInvariant
<1>2. CASE CallsService(f)
  <2>1. PICK m \in Request : CallSends(f, m)
    BY <1>1, <1>2, Called
  <2>2. ~ (MaxCalls["resign"] > 0)
    BY DEF NobodyLeaves
  <2>3. /\ \A r \in ToSet(up'[f]) : r \in ToSet(up[f]) \/ r.kind # "RESIGN"
        /\ rtia'[f] \in {"joining", "member"}
    BY <2>1, <2>2 DEF CallSends, Speaks
  <2> QED
    BY <2>3, StaysHere
<1>3. ~ Die(f)
  BY DEF Die, NobodyLeaves
<1>4. CASE ProcessNetworkMessage(f)
  <2>1. Head(down[f]).kind # "EXCEPTION"
    <3>1. down[f] # <<>> /\ down[f] \in Seq(Notice)
      BY <1>1, <1>4, Streams DEF ProcessNetworkMessage
    <3>2. Head(down[f]) \in ToSet(down[f]) /\ Head(down[f]) \in Notice
      BY <3>1, Taken
    <3> QED
      BY <1>1, <3>2, Notices
  <2>2. rtia' = rtia /\ up' = up
    BY <1>4, <2>1 DEF ProcessNetworkMessage
  <2> QED
    BY <2>2, StaysHere DEF Staying
<1>5. CASE WaitMessage(f)
  <2>1. rtia[f] = "joining" /\ up' = up
    BY <1>5 DEF WaitMessage, Staying
  <2>2. \E i \in 1 .. Len(down[f]) :
           /\ down[f][i].kind \in {"JOINED", "JOIN_REFUSED"}
           /\ rtia' = [rtia EXCEPT ![f] = StateAfter(rtia[f], down[f][i].kind)]
    BY <1>5, <2>1 DEF WaitMessage
  <2>3. rtia'[f] \in {"member", "refused"}
    BY <1>1, <2>2 DEF TypeOK, StateAfter
  <2> QED
    BY <2>1, <2>3, StaysHere
<1>6. CASE Tick(f)
  <2>1. up' = up /\ rtia' = rtia
    BY <1>6 DEF Tick
  <2> QED
    BY <2>1, StaysHere DEF Staying
<1> QED
  BY <1>2, <1>3, <1>4, <1>5, <1>6, RtiaSteps

LEMMA OwedRtia ==
    ASSUME NobodyLeaves, FederationInvariant, OnceInvariant, StrayInvariant, OwedInvariant,
           NEW f \in Federate, RtiaStep(f)
    PROVE  OwedInvariant'
<1>1. UNCHANGED rtigVars /\ \A g \in Federate \ {f} : Idle(g)
  BY Parts, RtiaAlone
<1>2. \A g \in Federate : Staying(g)
  BY DEF OwedInvariant, Staying
<1>3. Staying(f)'
  BY <1>2, RtiaStaying
<1>4. ASSUME NEW g \in Federate \ {f}
      PROVE  Staying(g)'
  BY <1>1, <1>2, StaysHere DEF Idle, Staying
<1>5. PendingIsOwed'
  BY <1>1 DEF OwedInvariant, PendingIsOwed, rtigVars
<1> QED
  BY <1>3, <1>4, <1>5 DEF OwedInvariant, Staying

LEMMA OwedRtig ==
    ASSUME ForEveryone, FederationInvariant, OnceInvariant, OwedInvariant,
           NEW f \in Federate, RtigStep(f)
    PROVE  OwedInvariant'
<1>1. /\ TypeOK /\ unlinked = {} /\ PendingIsOwed
      /\ \A g \in Federate : Staying(g)
  BY Parts DEF OnceInvariant, OwedInvariant, Staying
<1>2. ASSUME Reads(f, Head(up[f])), PendingIsOwed' PROVE OwedInvariant'
  <2>1. \A g \in Federate : rtia'[g] = rtia[g] /\ ToSet(up'[g]) \subseteq ToSet(up[g])
    BY <1>2 DEF Reads
  <2>2. \A g \in Federate : Staying(g)'
    BY <1>1, <2>1, StaysHere DEF Staying
  <2> QED
    BY <1>2, <2>2 DEF OwedInvariant, Staying
<1>3. CASE AddFederate(f)
  <2>1. /\ Reads(f, Head(up[f])) /\ f \notin members /\ members' = members \cup {f}
        /\ pending' = pending
        /\ owed' = [owed EXCEPT ![f] = {p \in pending : p.of \in Label}]
    BY <1>3, Admitted
  <2>2. \A g \in members : owed'[g] = owed[g]
    BY <1>1, <2>1 DEF TypeOK
  <2>3. PendingIsOwed'
    BY <1>1, <2>1, <2>2 DEF PendingIsOwed
  <2> QED
    BY <1>2, <2>1, <2>3
<1>4. CASE RemoveFederate(f)
  <2>1. Head(up[f]) \in ToSet(up[f]) /\ Head(up[f]).kind = "RESIGN"
    BY <1>4, Removed DEF Reads
  <2> QED
    BY <1>1, <2>1 DEF Staying
<1>5. CASE KillFederate(f)
  BY <1>1, <1>5 DEF Staying, KillFederate
<1>6. CASE RegisterPoint(f) \/ SaveOrRestore(f)
  <2>1. /\ Reads(f, Head(up[f])) /\ f \in members /\ members' = members
        /\ \/ UNCHANGED <<pending, owed>>
           \/ \E p : PointBegins(Head(up[f]).of, p)
    BY <1>1, <1>6, Begun
  <2>2. CASE UNCHANGED <<pending, owed>>
    BY <1>1, <1>2, <2>1, <2>2 DEF PendingIsOwed
  <2>3. ASSUME NEW p, PointBegins(Head(up[f]).of, p)
        PROVE  PendingIsOwed'
    <3>1. \A g \in members : owed'[g] = owed[g] \cup {p}
      BY <1>1, <2>3 DEF PointBegins, TypeOK
    <3> QED
      BY <1>1, <2>1, <2>3, <3>1 DEF PendingIsOwed, PointBegins
  <2> QED
    BY <1>2, <2>1, <2>2, <2>3
<1>7. CASE LabelAchieved(f) \/ SaveStatus(f) \/ RestoreStatus(f)
  <2> DEFINE x == Head(up[f]).of
  <2>1. /\ Reads(f, Head(up[f])) /\ members' = members
        /\ owed' = [owed EXCEPT ![f] = Answered(owed[f], x)]
        /\ \/ UNCHANGED pending /\ \E g \in Federate : \E r \in owed'[g] : r.of = x
           \/ pending' = Answered(pending, x)
    BY <1>1, <1>7, AnswerServed DEF PointCloses
  <2> HIDE DEF x
  <2>2. /\ owed'[f] = Answered(owed[f], x)
        /\ \A g \in Federate \ {f} : owed'[g] = owed[g]
    BY <1>1, <2>1 DEF TypeOK
  <2>3. \A p \in pending : p.of # x => \E g \in members : p \in owed'[g]
    <3>1. members \subseteq Federate
      BY <1>1 DEF TypeOK
    <3> QED
      BY <1>1, <2>2, <3>1 DEF PendingIsOwed, Answered
  <2>4. ASSUME NEW p \in pending, p.of = x, NEW g \in Federate, NEW r \in owed'[g], r.of = x
        PROVE  g \in members /\ p \in owed'[g]
    <3>1. r \in owed[g]
      BY <2>2, <2>4 DEF Answered
    <3>2. g \in members /\ r = p
      BY <1>1, <2>4, <3>1 DEF TypeOK
    <3> QED
      BY <2>4, <3>2
  <2>5. PendingIsOwed'
    <3>1. CASE pending' = Answered(pending, x)
      BY <2>1, <2>3, <3>1 DEF PendingIsOwed, Answered
    <3>2. CASE UNCHANGED pending /\ \E g \in Federate : \E r \in owed'[g] : r.of = x
      BY <2>1, <2>3, <2>4, <3>2 DEF PendingIsOwed
    <3> QED
      BY <2>1, <3>1, <3>2
  <2> QED
    BY <1>2, <2>1, <2>5
<1> QED
  BY <1>3, <1>4, <1>5, <1>6, <1>7 DEF RtigStep

LEMMA OwedStep ==
    ASSUME ForEveryone, NobodyLeaves, FederationInvariant, OnceInvariant, StrayInvariant,
           OwedInvariant, [Next]_vars
    PROVE  OwedInvariant'
<1>1. CASE UNCHANGED vars
  <2>1. UNCHANGED <<members, pending, owed, rtia, up>>
    BY <1>1 DEF vars, rtigVars, rtiaVars
  <2> QED
    BY <2>1 DEF OwedInvariant, PendingIsOwed
<1> QED
  BY <1>1, OwedRtia, OwedRtig DEF Next

\* A point in progress is owed by a member, whose answer will end it: no label, save
\* or restoration is in progress with nobody left to answer (unregisterSynchronization,
\* federateSaveStatus, federateRestoreStatus), when each label is for everyone, one
\* federate asks for the saves and the restorations, and nobody leaves.
THEOREM ProgressIsOwed ==
    ASSUME ForEveryone, NobodyLeaves, OneRequester
    PROVE  Spec => []OwedInvariant
<1>1. Init => OwedInvariant
  <2>1. ASSUME Init
        PROVE  /\ \A g \in Federate : ToSet(up[g]) = {} /\ rtia[g] \in {"member", "out"}
               /\ pending = {}
    BY <2>1, EmptyStream DEF Init
  <2> QED
    BY <2>1 DEF OwedInvariant, PendingIsOwed
<1>2. /\ FederationInvariant /\ OnceInvariant /\ StrayInvariant /\ OwedInvariant /\ [Next]_vars
      => OwedInvariant'
  BY OwedStep
<1>3. NoneRejoins
  BY DEF NobodyLeaves, NoneRejoins
<1>4. Spec => []OnceInvariant
  BY <1>3, LinksRefer
<1> QED
  BY <1>1, <1>2, <1>4, PointsAreKept, RequestsAreSettled, PTL DEF Spec

\* A point that is pending is owed by a member (PendingIsOwed), under the same
\* assumptions.
THEOREM PendingAreOwed ==
    ASSUME ForEveryone, NobodyLeaves, OneRequester
    PROVE  Spec => []PendingIsOwed
<1>1. OwedInvariant => PendingIsOwed
  BY DEF OwedInvariant
<1> QED
  BY <1>1, ProgressIsOwed, PTL

(***************************************************************************)
(* One save is asked for (SaveHolds).                                        *)
(***************************************************************************)

\* Nothing is left of the end of the save in what g has been sent.
Unsaved(g) == ~ Over(Save, down[g]) /\ ~ Over(Save, commands[g])

LEMMA SaveRelation ==
    \A m, r \in Request :
       <<m, r>> \in OneSaveRequest <=> (SaveRequest(m) => ~ SaveRequest(r))
BY DEF OneSaveRequest

LEMMA UnsavedStays ==
    ASSUME NEW g, Unsaved(g),
           \A n \in InTransit(g)' : EndOf(Save, n) => n \in InTransit(g)
    PROVE  Unsaved(g)'
<1>1. \A n \in ToSet(down'[g]) \cup ToSet(commands'[g]) :
         EndOf(Save, n) => n \in ToSet(down[g]) \cup ToSet(commands[g])
  BY DEF InTransit
<1>2. Unsaved(g)' <=> \A n \in ToSet(down'[g]) \cup ToSet(commands'[g]) : ~ EndOf(Save, n)
  BY DEF Unsaved, Over, EndOf
<1> QED
  BY <1>1, <1>2 DEF Unsaved, Over

\* What is asked for, in progress and over of the save is no more than it was.
LEMMA SaveStays ==
    ASSUME SaveHolds, calls'["save"] = calls["save"],
           calls'["timed save"] = calls["timed save"],
           IsPending(Save)' => IsPending(Save),
           \A g \in Federate :
              /\ \A m \in ToSet(up'[g]) : SaveRequest(m) => m \in ToSet(up[g])
              /\ Respects(up[g], OneSaveRequest) => Respects(up'[g], OneSaveRequest)
              /\ \A n \in InTransit(g)' : EndOf(Save, n) => n \in InTransit(g)
    PROVE  SaveHolds'
<1>1. /\ \A s \in {"save", "timed save"} : calls[s] <= MaxCalls[s]
      /\ calls["save"] = 0 /\ calls["timed save"] = 0 =>
            (\A g \in Federate : ~ AskingSave(g) /\ Unsaved(g)) /\ ~ IsPending(Save)
      /\ \A g \in Federate : Respects(up[g], OneSaveRequest)
      /\ \A g, h \in Federate : AskingSave(g) /\ AskingSave(h) => g = h
      /\ (\E g \in Federate : AskingSave(g)) => ~ IsPending(Save)
      /\ (\E g \in Federate : AskingSave(g)) \/ IsPending(Save) =>
            \A g \in Federate : Unsaved(g)
  BY DEF SaveHolds, Unsaved
<1>2. \A g \in Federate : AskingSave(g)' => AskingSave(g)
  BY DEF AskingSave, SaveRequest
<1>3. \A g \in Federate : Unsaved(g) => Unsaved(g)'
  BY UnsavedStays
<1>4. \A g \in Federate : Respects(up[g], OneSaveRequest)'
  BY <1>1 DEF Respects, OneSaveRequest, SaveRequest
<1>5. /\ \A s \in {"save", "timed save"} : calls'[s] <= MaxCalls[s]
      /\ calls'["save"] = 0 /\ calls'["timed save"] = 0 =>
            (\A g \in Federate : ~ AskingSave(g)' /\ Unsaved(g)') /\ ~ IsPending(Save)'
      /\ \A g, h \in Federate : AskingSave(g)' /\ AskingSave(h)' => g = h
      /\ (\E g \in Federate : AskingSave(g)') => ~ IsPending(Save)'
      /\ (\E g \in Federate : AskingSave(g)') \/ IsPending(Save)' =>
            \A g \in Federate : Unsaved(g)'
  BY <1>1, <1>2, <1>3
<1> QED
  BY <1>4, <1>5 DEF SaveHolds, Unsaved

\* A step of f that is no request for the save.
LEMMA SaveRtia ==
    ASSUME SaveHolds, NEW f \in Federate, UNCHANGED rtigVars,
           \A g \in Federate \ {f} : Idle(g),
           calls'["save"] = calls["save"], calls'["timed save"] = calls["timed save"],
           \A m \in ToSet(up'[f]) : SaveRequest(m) => m \in ToSet(up[f]),
           Respects(up[f], OneSaveRequest) => Respects(up'[f], OneSaveRequest),
           \A n \in InTransit(f)' : EndOf(Save, n) => n \in InTransit(f)
    PROVE  SaveHolds'
<1>1. \A g \in Federate :
        /\ \A m \in ToSet(up'[g]) : SaveRequest(m) => m \in ToSet(up[g])
        /\ Respects(up[g], OneSaveRequest) => Respects(up'[g], OneSaveRequest)
        /\ \A n \in InTransit(g)' : EndOf(Save, n) => n \in InTransit(g)
  BY DEF Idle, InTransit
<1>2. IsPending(Save)' => IsPending(Save)
  BY DEF IsPending, rtigVars
<1> QED
  BY <1>1, <1>2, SaveStays

\* One call of two services together, at most.
LEMMA OneOfTwo ==
    ASSUME NEW s, NEW t, calls[s] \in Nat, calls[t] \in Nat, MaxCalls[s] \in Nat,
           MaxCalls[t] \in Nat, calls[s] <= MaxCalls[s], calls[t] <= MaxCalls[t],
           MaxCalls[s] + MaxCalls[t] <= 1 \/ MaxCalls[t] + MaxCalls[s] <= 1,
           OneMore(s, t)
    PROVE  /\ calls[s] = 0 /\ calls[t] = 0 /\ calls'[s] # 0
           /\ calls'[s] <= MaxCalls[s] /\ calls'[t] <= MaxCalls[t]
BY DEF OneMore

\* The first and last request for the save.
LEMMA SaveAsked ==
    ASSUME OneSave, TypeOK, SaveHolds, NEW f \in Federate, UNCHANGED rtigVars,
           \A g \in Federate \ {f} : Idle(g),
           NEW m \in Request, SaveRequest(m), Speaks(f, m),
           OneMore("save", "timed save") \/ OneMore("timed save", "save")
    PROVE  SaveHolds'
<1>1. /\ calls["save"] \in Nat /\ MaxCalls["save"] \in Nat
      /\ calls["timed save"] \in Nat /\ MaxCalls["timed save"] \in Nat
  <2>1. "save" \in Service /\ "timed save" \in Service
    BY DEF Service
  <2>2. calls \in [Service -> Nat] /\ MaxCalls \in [Service -> Nat]
    BY ConstantsAssumption DEF TypeOK
  <2> QED
    BY <2>1, <2>2
<1>2. /\ calls["save"] <= MaxCalls["save"] /\ calls["timed save"] <= MaxCalls["timed save"]
      /\ MaxCalls["save"] + MaxCalls["timed save"] <= 1
  BY DEF SaveHolds, OneSave
<1>3. /\ calls["save"] = 0 /\ calls["timed save"] = 0
      /\ calls'["save"] # 0 \/ calls'["timed save"] # 0
      /\ calls'["save"] <= MaxCalls["save"] /\ calls'["timed save"] <= MaxCalls["timed save"]
  BY <1>1, <1>2, OneOfTwo
<1>4. /\ \A g \in Federate : ~ AskingSave(g) /\ Unsaved(g)
      /\ ~ IsPending(Save)
      /\ \A g \in Federate : Respects(up[g], OneSaveRequest)
  BY <1>3 DEF SaveHolds, Unsaved
<1>5. ~ IsPending(Save)'
  BY <1>4 DEF IsPending, rtigVars
<1>6. ASSUME NEW g \in Federate
      PROVE  Unsaved(g)'
  <2>1. down'[g] = down[g] /\ commands'[g] = commands[g]
    BY DEF Idle, Speaks
  <2> QED
    BY <1>4, <2>1, UnsavedStays DEF InTransit
<1>7. ASSUME NEW g \in Federate \ {f}
      PROVE  ~ AskingSave(g)' /\ Respects(up[g], OneSaveRequest)'
  <2>1. up'[g] = up[g]
    BY DEF Idle
  <2> QED
    BY <1>4, <2>1 DEF AskingSave, SaveRequest, Respects, OneSaveRequest
<1>8. Respects(up[f], OneSaveRequest)'
  <2>1. up[f] \in Seq(Request) /\ \A r \in ToSet(up[f]) : r \in Request
    BY Streams
  <2>2. \A r \in ToSet(up[f]) : <<r, m>> \in OneSaveRequest
    BY <1>4, <2>1, SaveRelation DEF AskingSave
  <2>3. Respects(Append(up[f], m), OneSaveRequest)
    BY <1>4, <2>1, <2>2, Appended
  <2> QED
    BY <2>3 DEF Speaks, Respects, OneSaveRequest, SaveRequest
<1> QED
  BY <1>3, <1>5, <1>6, <1>7, <1>8 DEF SaveHolds, Unsaved

LEMMA RtiaSaves ==
    ASSUME OneSave, FederationInvariant, SaveHolds, NEW f \in Federate, RtiaStep(f)
    PROVE  SaveHolds'
<1>1. /\ TypeOK /\ UNCHANGED rtigVars /\ \A g \in Federate \ {f} : Idle(g)
  BY Parts, RtiaAlone
<1>2. up[f] \in Seq(Request) /\ \A r \in ToSet(up[f]) : r \in Request
  BY <1>1, Streams
<1>3. ASSUME NEW m \in Request, ~ SaveRequest(m), up'[f] = Append(up[f], m)
      PROVE  /\ \A r \in ToSet(up'[f]) : SaveRequest(r) => r \in ToSet(up[f])
             /\ Respects(up[f], OneSaveRequest) => Respects(up'[f], OneSaveRequest)
  <2>1. \A r \in ToSet(up[f]) : <<r, m>> \in OneSaveRequest
    BY <1>2, <1>3, SaveRelation
  <2> QED
    BY <1>2, <1>3, <2>1, Appended
<1>4. CASE CallsService(f)
  <2>1. PICK m \in Request : CallSends(f, m)
    BY <1>1, <1>4, Called
  <2>2. Speaks(f, m) /\ InTransit(f)' = InTransit(f)
    BY <2>1 DEF CallSends, Speaks, InTransit
  <2>3. CASE SaveRequest(m)
    BY <1>1, <2>1, <2>2, <2>3, SaveAsked DEF CallSends
  <2>4. CASE ~ SaveRequest(m)
    <3>1. /\ calls'["save"] = calls["save"] /\ calls'["timed save"] = calls["timed save"]
          /\ up'[f] = Append(up[f], m)
      BY <2>1, <2>4 DEF CallSends, Speaks
    <3> QED
      BY <1>1, <1>3, <2>2, <2>4, <3>1, SaveRtia
  <2> QED
    BY <2>3, <2>4
<1>5. CASE ProcessNetworkMessage(f)
  <2> DEFINE n == Head(down[f])
  <2>1. /\ ToSet(down[f]) = {n} \cup ToSet(down'[f]) /\ calls' = calls
        /\ \/ /\ commands' = commands
              /\ \E m \in Request : m.kind = "RESIGN" /\ up'[f] = Append(up[f], m)
           \/ up' = up /\ ToSet(commands'[f]) = ToSet(commands[f]) \cup {n}
    BY <1>5, Processed
  <2> HIDE DEF n
  <2>2. InTransit(f)' \subseteq InTransit(f)
    BY <2>1 DEF InTransit
  <2>3. /\ \A r \in ToSet(up'[f]) : SaveRequest(r) => r \in ToSet(up[f])
        /\ Respects(up[f], OneSaveRequest) => Respects(up'[f], OneSaveRequest)
    <3>1. CASE up' = up
      BY <3>1
    <3>2. CASE \E m \in Request : m.kind = "RESIGN" /\ up'[f] = Append(up[f], m)
      BY <1>3, <3>2 DEF SaveRequest
    <3> QED
      BY <2>1, <3>1, <3>2
  <2> QED
    BY <1>1, <2>1, <2>2, <2>3, SaveRtia
<1>6. CASE WaitMessage(f)
  <2>1. UNCHANGED <<up, commands, calls>> /\ ToSet(down'[f]) \subseteq ToSet(down[f])
    BY <1>6, Waited
  <2>2. InTransit(f)' \subseteq InTransit(f)
    BY <2>1 DEF InTransit
  <2> QED
    BY <1>1, <2>1, <2>2, SaveRtia
<1>7. CASE Tick(f)
  <2>1. UNCHANGED <<up, down, calls>> /\ ToSet(commands'[f]) \subseteq ToSet(commands[f])
    BY <1>7, Ticked
  <2>2. InTransit(f)' \subseteq InTransit(f)
    BY <2>1 DEF InTransit
  <2> QED
    BY <1>1, <2>1, <2>2, SaveRtia
<1>8. CASE Die(f)
  <2>1. /\ UNCHANGED <<down, commands, calls>> /\ ToSet(up'[f]) \subseteq ToSet(up[f])
        /\ Respects(up[f], OneSaveRequest) => Respects(up'[f], OneSaveRequest)
    BY <1>8, Died
  <2>2. InTransit(f)' \subseteq InTransit(f)
    BY <2>1 DEF InTransit
  <2> QED
    BY <1>1, <2>1, <2>2, SaveRtia
<1> QED
  BY <1>4, <1>5, <1>6, <1>7, <1>8, RtiaSteps

\* A step of the RTIG that starts no save and ends none.
LEMMA SaveRtig ==
    ASSUME FederationInvariant, SaveHolds, NEW f \in Federate, Reads(f, Head(up[f])),
           IsPending(Save)' => IsPending(Save),
           \A g \in Federate : \A n \in ToSet(down'[g]) :
              EndOf(Save, n) => n \in ToSet(down[g])
    PROVE  SaveHolds'
<1>1. ASSUME NEW g \in Federate
      PROVE  /\ \A m \in ToSet(up'[g]) : SaveRequest(m) => m \in ToSet(up[g])
             /\ Respects(up[g], OneSaveRequest) => Respects(up'[g], OneSaveRequest)
             /\ \A n \in InTransit(g)' : EndOf(Save, n) => n \in InTransit(g)
  BY DEF Reads, InTransit
<1>2. calls' = calls
  BY DEF Reads
<1> QED
  BY <1>1, <1>2, SaveStays

\* The save starts: nothing of it is left on any stream.
LEMMA SaveBegins ==
    ASSUME FederationInvariant, SaveHolds, NEW f \in Federate, Reads(f, Head(up[f])),
           SaveRequest(Head(up[f])), NEW p, PointBegins(Save, p)
    PROVE  SaveHolds'
<1> DEFINE m == Head(up[f])
<1>1. TypeOK /\ \A r \in ToSet(up[f]) : r \in Request
  BY Parts, Streams
<1>2. AskingSave(f)
  BY DEF Reads, AskingSave
<1>3. /\ \A s \in {"save", "timed save"} : calls[s] <= MaxCalls[s]
      /\ ~ (calls["save"] = 0 /\ calls["timed save"] = 0)
      /\ \A g \in Federate : Respects(up[g], OneSaveRequest) /\ Unsaved(g)
      /\ \A g \in Federate \ {f} : ~ AskingSave(g)
  BY <1>2 DEF SaveHolds, Unsaved
<1>4. calls' = calls /\ commands' = commands
  BY DEF Reads
<1>5. \A g \in Federate : Respects(up[g], OneSaveRequest)'
  <2>1. \A g \in Federate : Respects(up'[g], OneSaveRequest)
    BY <1>3 DEF Reads
  <2> QED
    BY <2>1 DEF Respects, OneSaveRequest, SaveRequest
<1>6. \A g \in Federate : ~ AskingSave(g)'
  <2>1. \A r \in ToSet(up'[f]) : <<m, r>> \in OneSaveRequest /\ r \in Request
    BY <1>1, <1>3 DEF Reads
  <2>2. \A r \in ToSet(up'[f]) : ~ SaveRequest(r)
    BY <2>1, SaveRelation DEF Reads
  <2>3. \A g \in Federate \ {f} : up'[g] = up[g]
    BY DEF Reads
  <2> QED
    BY <1>3, <2>2, <2>3 DEF AskingSave, SaveRequest
<1>7. ASSUME NEW g \in Federate
      PROVE  Unsaved(g)'
  <2>1. Start(p) \in Notice /\ Start(p).kind = "START"
    BY Notices DEF PointBegins
  <2>2. MayHear(g, Start(p))
    BY <1>1, <2>1, MembersHear DEF PointBegins
  <2>3. \A n \in InTransit(g)' : EndOf(Save, n) => n \in InTransit(g)
    BY <1>4, <2>1, <2>2 DEF MayHear, InTransit, EndOf
  <2> QED
    BY <1>3, <2>3, UnsavedStays
<1> QED
  BY <1>3, <1>4, <1>5, <1>6, <1>7 DEF SaveHolds, Unsaved

\* The save ends: nobody asks for another.
LEMMA SaveEnds ==
    ASSUME FederationInvariant, SaveHolds, NEW f \in Federate, Reads(f, Head(up[f])),
           NEW q \in owed[f], NEW ok, PointCloses(Save, q, ok), q.of = Save
    PROVE  SaveHolds'
<1>1. TypeOK /\ q \in pending
  BY Parts, Typed
<1>2. IsPending(Save)
  BY <1>1 DEF IsPending
<1>3. /\ \A s \in {"save", "timed save"} : calls[s] <= MaxCalls[s]
      /\ ~ (calls["save"] = 0 /\ calls["timed save"] = 0)
      /\ \A g \in Federate : Respects(up[g], OneSaveRequest) /\ ~ AskingSave(g)
  BY <1>2 DEF SaveHolds
<1>4. calls' = calls
  BY DEF Reads
<1>5. ASSUME NEW g \in Federate
      PROVE  Respects(up[g], OneSaveRequest)' /\ ~ AskingSave(g)'
  <2>1. Respects(up'[g], OneSaveRequest) /\ ToSet(up'[g]) \subseteq ToSet(up[g])
    BY <1>3 DEF Reads
  <2> QED
    BY <1>3, <2>1 DEF AskingSave, SaveRequest, Respects, OneSaveRequest
<1>6. ~ IsPending(Save)'
  BY DEF IsPending, PointCloses, Answered
<1> QED
  BY <1>3, <1>4, <1>5, <1>6 DEF SaveHolds

LEMMA RtigSaves ==
    ASSUME ForEveryone, FederationInvariant, OnceInvariant, SaveHolds, NEW f \in Federate,
           RtigStep(f)
    PROVE  SaveHolds'
<1>1. TypeOK /\ unlinked = {} /\ IsFiniteSet(pending)
  BY Parts DEF OnceInvariant, EndsHold
<1> DEFINE x == Head(up[f]).of
<1>2. ASSUME Reads(f, Head(up[f])), IsPending(Save)' => IsPending(Save),
             NEW n, ~ EndOf(Save, n), \A g \in Federate : MayHear(g, n)
      PROVE  SaveHolds'
  BY <1>2, SaveRtig DEF MayHear
<1>3. CASE AddFederate(f)
  <2>1. /\ Reads(f, Head(up[f])) /\ pending' = pending
        /\ down' = [down EXCEPT ![f] =
             Send(f, IF rtia[f] = "lost" THEN down[f]
                       ELSE down[f] \o SetToSeq({Start(p) : p \in {q \in pending : q.of \in Label}}),
                  [kind |-> "JOINED"])]
    BY <1>3, Admitted
  <2>2. /\ \A g \in Federate \ {f} : down'[g] = down[g]
        /\ \A n \in ToSet(down'[f]) : n \in ToSet(down[f]) \/ n.kind \in {"START", "JOINED"}
    <3> DEFINE points == {q \in pending : q.of \in Label}
    <3>1. points = {p \in pending : p.of \in Label}
      OBVIOUS
    <3> HIDE DEF points
    <3> QED
      BY <1>1, <2>1, <3>1, JoinerHears DEF points
  <2>3. \A g \in Federate : \A n \in ToSet(down'[g]) : EndOf(Save, n) => n \in ToSet(down[g])
    BY <2>2 DEF EndOf
  <2>4. IsPending(Save)' => IsPending(Save)
    BY <2>1 DEF IsPending
  <2> QED
    BY <2>1, <2>3, <2>4, SaveRtig
<1>4. CASE RemoveFederate(f)
  <2> DEFINE n == [kind |-> "RESIGNED"]
  <2>1. Reads(f, Head(up[f])) /\ Reply(f, n) /\ pending' = pending
    BY <1>4, Removed
  <2>2. n \in Notice /\ ~ EndOf(Save, n)
    BY Notices DEF Replies, EndOf
  <2>3. IsPending(Save)' => IsPending(Save)
    BY <2>1 DEF IsPending
  <2> HIDE DEF n
  <2> QED
    BY <1>1, <1>2, <2>1, <2>2, <2>3, OneHears
<1>5. CASE KillFederate(f)
  <2>1. UNCHANGED <<pending, calls, up, down, commands>>
    BY <1>5 DEF KillFederate, federateVars
  <2>2. /\ IsPending(Save)' => IsPending(Save)
        /\ \A g \in Federate :
              /\ \A m \in ToSet(up'[g]) : SaveRequest(m) => m \in ToSet(up[g])
              /\ Respects(up[g], OneSaveRequest) => Respects(up'[g], OneSaveRequest)
              /\ \A n \in InTransit(g)' : EndOf(Save, n) => n \in InTransit(g)
    BY <2>1 DEF IsPending, InTransit
  <2> QED
    BY <2>1, <2>2, SaveStays
<1>6. CASE RegisterPoint(f) \/ SaveOrRestore(f)
  <2>1. /\ Reads(f, Head(up[f]))
        /\ \/ Head(up[f]).kind = "REGISTER" /\ x \in Label
           \/ Head(up[f]).kind = "REQUEST" /\ x \in SavesAndRestores
        /\ \/ UNCHANGED pending /\ (down' = down \/ Reply(f, Exception))
           \/ \E p : PointBegins(x, p)
    BY <1>1, <1>6, Begun
  <2> HIDE DEF x
  <2>2. CASE UNCHANGED pending /\ (down' = down \/ Reply(f, Exception))
    <3>1. Exception \in Notice /\ ~ EndOf(Save, Exception)
      BY Notices DEF EndOf, Exception
    <3>2. \A g \in Federate : MayHear(g, Exception)
      BY <1>1, <2>2, <3>1, OneHears, Hearing
    <3>3. IsPending(Save)' => IsPending(Save)
      BY <2>2 DEF IsPending
    <3> QED
      BY <1>2, <2>1, <3>1, <3>2, <3>3
  <2>3. ASSUME NEW p, PointBegins(x, p), x # Save PROVE SaveHolds'
    <3>1. Start(p) \in Notice /\ Start(p).kind = "START"
      BY <2>3, Notices DEF PointBegins
    <3>2. \A g \in Federate : MayHear(g, Start(p))
      BY <1>1, <2>3, <3>1, MembersHear DEF PointBegins
    <3>3. IsPending(Save)' => IsPending(Save)
      BY <2>3 DEF IsPending, PointBegins
    <3> QED
      BY <1>2, <2>1, <3>1, <3>2, <3>3 DEF EndOf
  <2>4. ASSUME NEW p, PointBegins(x, p), x = Save PROVE SaveHolds'
    <3>1. SaveRequest(Head(up[f]))
      BY <2>1, <2>4, ConstantsAssumption DEF SaveRequest, x
    <3> QED
      BY <2>1, <2>4, <3>1, SaveBegins
  <2> QED
    BY <2>1, <2>2, <2>3, <2>4
<1>7. CASE LabelAchieved(f) \/ SaveStatus(f) \/ RestoreStatus(f)
  <2>1. /\ Reads(f, Head(up[f]))
        /\ \/ UNCHANGED <<pending, down>>
           \/ \E q \in owed[f], ok \in BOOLEAN : q.of = x /\ PointCloses(x, q, ok)
    BY <1>1, <1>7, AnswerServed
  <2> HIDE DEF x
  <2>2. CASE UNCHANGED <<pending, down>>
    <3>1. IsPending(Save)' => IsPending(Save)
      BY <2>2 DEF IsPending
    <3> QED
      BY <2>1, <2>2, <3>1, SaveRtig
  <2>3. ASSUME NEW q \in owed[f], NEW ok \in BOOLEAN, q.of = x, PointCloses(x, q, ok), x # Save
        PROVE  SaveHolds'
    <3>1. q \in Point
      BY <1>1, <2>3, Typed
    <3>2. /\ End(q, ok) \in Notice /\ End(q, ok).point = q
      BY <3>1, Notices
    <3>3. \A g \in Federate : MayHear(g, End(q, ok))
      BY <1>1, <2>3, <3>2, MembersHear DEF PointCloses
    <3>4. IsPending(Save)' => IsPending(Save)
      BY <2>3 DEF IsPending, PointCloses, Answered
    <3> QED
      BY <1>2, <2>1, <2>3, <3>2, <3>3, <3>4 DEF EndOf
  <2>4. ASSUME NEW q \in owed[f], NEW ok \in BOOLEAN, q.of = x, PointCloses(x, q, ok), x = Save
        PROVE  SaveHolds'
    BY <2>1, <2>4, SaveEnds
  <2> QED
    BY <2>1, <2>2, <2>3, <2>4
<1> QED
  BY <1>3, <1>4, <1>5, <1>6, <1>7 DEF RtigStep

(***************************************************************************)
(* The end of a restoration comes before the next one (RestoreHolds).        *)
(***************************************************************************)

LEMMA EndsFirstRelation ==
    \A n, m \in Notice :
       <<n, m>> \in EndsFirst <=>
          (n.kind = "START" /\ n.point.of = Restore => ~ EndOf(Restore, m))
BY DEF EndsFirst

\* RestoreHolds, of the streams and the duties after a step.
LEMMA RestoreAfter ==
    ASSUME NEW g
    PROVE  /\ Respects(down[g], EndsFirst)' <=> Respects(down'[g], EndsFirst)
           /\ Respects(commands[g], EndsFirst)' <=> Respects(commands'[g], EndsFirst)
           /\ Over(Restore, down[g])' <=> Over(Restore, down'[g])
           /\ Over(Restore, commands[g])' <=> Over(Restore, commands'[g])
           /\ Queued(g, Restore)' <=>
                 \E n \in ToSet(commands'[g]) : n.kind = "START" /\ n.point.of = Restore
           /\ Due(g, Restore)' <=> \E p \in duties'[g] : p.of = Restore
BY DEF Respects, EndsFirst, EndOf, Over, Queued, Due

\* No end of a restoration reaches g.
LEMMA RestoreStays ==
    ASSUME NEW g, RestoreHolds(g),
           Respects(down[g], EndsFirst) => Respects(down'[g], EndsFirst),
           Respects(commands[g], EndsFirst) => Respects(commands'[g], EndsFirst),
           \A n \in ToSet(down'[g]) : EndOf(Restore, n) => n \in ToSet(down[g]),
           ToSet(commands'[g]) \subseteq ToSet(commands[g]),
           duties'[g] \subseteq duties[g]
    PROVE  RestoreHolds(g)'
<1>1. /\ Over(Restore, down'[g]) => Over(Restore, down[g])
      /\ Over(Restore, commands'[g]) => Over(Restore, commands[g])
      /\ Queued(g, Restore)' => Queued(g, Restore) /\ (Due(g, Restore)' => Due(g, Restore))
      /\ Due(g, Restore)' => Due(g, Restore)
  BY RestoreAfter DEF Over, Queued, Due
<1> QED
  BY <1>1, RestoreAfter DEF RestoreHolds

LEMMA RestoreQueued ==
    ASSUME FederationInvariant, NEW f \in Federate, RestoreHolds(f), ProcessNetworkMessage(f)
    PROVE  RestoreHolds(f)'
<1> DEFINE n == Head(down[f])
<1>1. /\ n \in Notice /\ ToSet(down[f]) = {n} \cup ToSet(down'[f]) /\ duties' = duties
      /\ \A R : Respects(down[f], R) =>
            Respects(down'[f], R) /\ \A m \in ToSet(down'[f]) : <<n, m>> \in R
      /\ \/ commands' = commands
         \/ /\ n.kind \in {"START", "END"}
            /\ ToSet(commands'[f]) = ToSet(commands[f]) \cup {n}
            /\ \A R : /\ Respects(commands[f], R)
                      /\ \A m \in ToSet(commands[f]) :
                            IF n.point.of = Save THEN <<n, m>> \in R ELSE <<m, n>> \in R
                      => Respects(commands'[f], R)
  BY Processed
<1> HIDE DEF n
<1>2. \A m \in InTransit(f) : m \in Notice
  BY Parts, Streams
<1>3. CASE commands' = commands
  BY <1>1, <1>3, RestoreStays
<1>4. CASE /\ n.kind \in {"START", "END"}
           /\ ToSet(commands'[f]) = ToSet(commands[f]) \cup {n}
           /\ \A R : /\ Respects(commands[f], R)
                     /\ \A m \in ToSet(commands[f]) :
                           IF n.point.of = Save THEN <<n, m>> \in R ELSE <<m, n>> \in R
                     => Respects(commands'[f], R)
  <2>1. /\ Respects(down[f], EndsFirst) /\ Respects(commands[f], EndsFirst)
        /\ Queued(f, Restore) => ~ Over(Restore, down[f])
        /\ Due(f, Restore) => ~ Over(Restore, down[f]) /\ ~ Over(Restore, commands[f])
    BY DEF RestoreHolds
  <2>2. Respects(commands'[f], EndsFirst)
    <3>1. ASSUME NEW m \in ToSet(commands[f])
          PROVE  IF n.point.of = Save THEN <<n, m>> \in EndsFirst ELSE <<m, n>> \in EndsFirst
      <4>1. m \in Notice
        BY <1>2 DEF InTransit
      <4>2. Save # Restore
        BY DEF Save, Restore
      <4>3. m.kind = "START" /\ m.point.of = Restore => ~ EndOf(Restore, n)
        BY <1>1, <2>1 DEF Queued, Over
      <4> QED
        BY <1>1, <4>1, <4>2, <4>3, EndsFirstRelation
    <3> QED
      BY <1>4, <2>1, <3>1
  <2>3. Respects(down'[f], EndsFirst) /\ (Over(Restore, down'[f]) => Over(Restore, down[f]))
    BY <1>1, <2>1 DEF Over
  <2>4. n.kind = "START" /\ n.point.of = Restore => ~ Over(Restore, down'[f])
    <3>1. \A m \in ToSet(down'[f]) : m \in Notice /\ <<n, m>> \in EndsFirst
      BY <1>1, <1>2, <2>1 DEF InTransit
    <3> QED
      BY <1>1, <3>1, EndsFirstRelation DEF Over
  <2>5. Queued(f, Restore)' => ~ Over(Restore, down'[f])
    BY <1>4, <2>1, <2>3, <2>4, RestoreAfter DEF Queued
  <2>6. Due(f, Restore) => ~ Over(Restore, commands'[f])
    BY <1>1, <1>4, <2>1 DEF Over
  <2>7. Due(f, Restore)' <=> Due(f, Restore)
    BY <1>1, RestoreAfter DEF Due
  <2> QED
    BY <2>1, <2>2, <2>3, <2>5, <2>6, <2>7, RestoreAfter DEF RestoreHolds
<1> QED
  BY <1>1, <1>3, <1>4

LEMMA RestoreGiven ==
    ASSUME FederationInvariant, NEW f \in Federate, RestoreHolds(f), Tick(f)
    PROVE  RestoreHolds(f)'
<1> DEFINE n == Head(commands[f])
<1>1. /\ n \in Notice /\ ToSet(commands[f]) = {n} \cup ToSet(commands'[f]) /\ down' = down
      /\ \A R : Respects(commands[f], R) =>
            Respects(commands'[f], R) /\ \A m \in ToSet(commands'[f]) : <<n, m>> \in R
      /\ duties'[f] = IF n.kind = "START" THEN duties[f] \cup {n.point} ELSE duties[f]
  BY Ticked
<1> HIDE DEF n
<1>2. \A m \in InTransit(f) : m \in Notice
  BY Parts, Streams
<1>3. /\ Respects(down[f], EndsFirst) /\ Respects(commands[f], EndsFirst)
      /\ Queued(f, Restore) => ~ Over(Restore, down[f])
      /\ Due(f, Restore) => ~ Over(Restore, down[f]) /\ ~ Over(Restore, commands[f])
  BY DEF RestoreHolds
<1>4. /\ Queued(f, Restore)' => Queued(f, Restore)
      /\ Over(Restore, commands'[f]) => Over(Restore, commands[f])
  BY <1>1, RestoreAfter DEF Queued, Over
<1>5. Due(f, Restore)' => \/ Due(f, Restore)
                          \/ n.kind = "START" /\ n.point.of = Restore
  BY <1>1, RestoreAfter DEF Due
<1>6. n.kind = "START" /\ n.point.of = Restore =>
        ~ Over(Restore, down[f]) /\ ~ Over(Restore, commands'[f])
  <2>1. \A m \in ToSet(commands'[f]) : m \in Notice /\ <<n, m>> \in EndsFirst
    BY <1>1, <1>2, <1>3 DEF InTransit
  <2>2. n.kind = "START" /\ n.point.of = Restore => Queued(f, Restore)
    BY <1>1 DEF Queued
  <2> QED
    BY <1>1, <1>3, <2>1, <2>2, EndsFirstRelation DEF Over
<1> QED
  BY <1>1, <1>3, <1>4, <1>5, <1>6, RestoreAfter DEF RestoreHolds

LEMMA RtiaRestores ==
    ASSUME FederationInvariant, NEW f \in Federate, RtiaStep(f), NEW g \in Federate,
           RestoreHolds(g)
    PROVE  RestoreHolds(g)'
<1>1. TypeOK
  BY Parts
<1>2. CASE g # f
  <2>1. down'[g] = down[g] /\ commands'[g] = commands[g] /\ duties'[g] = duties[g]
    BY <1>1, <1>2, RtiaAlone DEF Idle
  <2> QED
    BY <2>1, RestoreStays
<1>3. CASE g = f /\ CallsService(f)
  <2>1. PICK m \in Request : CallSends(f, m)
    BY <1>1, <1>3, Called
  <2>2. down'[f] = down[f] /\ commands'[f] = commands[f] /\ duties'[f] \subseteq duties[f]
    BY <2>1 DEF CallSends, Speaks
  <2> QED
    BY <1>3, <2>2, RestoreStays
<1>4. CASE g = f /\ ProcessNetworkMessage(f)
  BY <1>4, RestoreQueued
<1>5. CASE g = f /\ WaitMessage(f)
  <2>1. /\ ToSet(down'[f]) \subseteq ToSet(down[f])
        /\ \A R : Respects(down[f], R) => Respects(down'[f], R)
        /\ UNCHANGED <<commands, duties>>
    BY <1>5, Waited
  <2> QED
    BY <1>5, <2>1, RestoreStays
<1>6. CASE g = f /\ Tick(f)
  BY <1>6, RestoreGiven
<1>7. CASE g = f /\ Die(f)
  <2>1. UNCHANGED <<down, commands, duties>>
    BY <1>7, Died
  <2> QED
    BY <1>7, <2>1, RestoreStays
<1> QED
  BY <1>2, <1>3, <1>4, <1>5, <1>6, <1>7, RtiaSteps

\* A notice that is no end of a restoration.
LEMMA RestoreHeard ==
    ASSUME TypeOK, NEW g \in Federate, RestoreHolds(g), NEW n \in Notice, ~ EndOf(Restore, n),
           MayHear(g, n), UNCHANGED <<commands, duties>>
    PROVE  RestoreHolds(g)'
<1>1. \A m \in ToSet(down[g]) : m \in Notice /\ <<m, n>> \in EndsFirst
  BY Streams, EndsFirstRelation DEF InTransit
<1> QED
  BY <1>1, RestoreStays DEF MayHear

\* The end of a restoration, when none is on its way to a federate.
LEMMA RestoreEnds ==
    ASSUME FederationInvariant, OnceInvariant, NEW f \in Federate, Reads(f, Head(up[f])),
           Head(up[f]).kind = "ANSWER", Head(up[f]).of = Restore,
           owed' = [owed EXCEPT ![f] = Answered(owed[f], Restore)],
           NEW q \in owed[f], NEW ok \in BOOLEAN, PointCloses(Restore, q, ok),
           NEW g \in Federate, RestoreHolds(g)
    PROVE  RestoreHolds(g)'
<1> DEFINE n == End(q, ok)
<1>1. /\ TypeOK /\ unlinked = {} /\ n \in Notice
      /\ \A m \in ToSet(down[g]) : m \in Notice
  <2>1. TypeOK /\ unlinked = {} /\ q \in Point
    BY Parts, Typed DEF OnceInvariant
  <2> QED
    BY <2>1, Notices, Streams DEF InTransit
<1>2. commands' = commands /\ duties' = duties
  BY DEF Reads
<1>3. CASE g \notin members
  <2>1. down'[g] = down[g]
    BY <1>3 DEF PointCloses
  <2> QED
    BY <1>2, <2>1, RestoreStays
<1>4. CASE g \in members
  <2>1. AsksHold(g)
    <3>1. Linked(g)
      BY <1>1, <1>4 DEF Linked
    <3> QED
      BY <3>1, Parts DEF FederateHolds
  <2>2. ~ Told(g, Restore) /\ ~ Queued(g, Restore) /\ ~ Due(g, Restore)
    <3>1. CASE g = f
      <4>1. Answering(f, Restore)
        BY DEF Reads, Answering
      <4> QED
        BY <2>1, <3>1, <4>1 DEF AsksHold, AskedOnce, SavesAndRestores
    <3>2. CASE g # f
      <4>1. owed'[g] = owed[g]
        BY <1>1, <3>2 DEF TypeOK
      <4>2. \A r \in owed[g] : r.of # Restore
        BY <4>1 DEF PointCloses
      <4> QED
        BY <2>1, <4>2 DEF AsksHold, Told, Queued, Due, InTransit
    <3> QED
      BY <3>1, <3>2
  <2>3. MayHear(g, n)
    BY <1>1, MembersHear DEF PointCloses
  <2> HIDE DEF n
  <2>4. Respects(down'[g], EndsFirst)
    <3>1. \A m \in ToSet(down[g]) : <<m, n>> \in EndsFirst
      BY <1>1, <2>2, EndsFirstRelation DEF Told
    <3> QED
      BY <2>3, <3>1 DEF MayHear, RestoreHolds
  <2>5. ~ Queued(g, Restore)' /\ ~ Due(g, Restore)'
    BY <1>2, <2>2, RestoreAfter DEF Queued, Due
  <2>6. Respects(commands'[g], EndsFirst)
    BY <1>2 DEF RestoreHolds
  <2> QED
    BY <2>4, <2>5, <2>6, RestoreAfter DEF RestoreHolds
<1> QED
  BY <1>3, <1>4

LEMMA RtigRestores ==
    ASSUME ForEveryone, FederationInvariant, OnceInvariant, NEW f \in Federate, RtigStep(f),
           NEW g \in Federate, RestoreHolds(g)
    PROVE  RestoreHolds(g)'
<1>1. TypeOK /\ unlinked = {} /\ IsFiniteSet(pending)
  BY Parts DEF OnceInvariant, EndsHold
<1> DEFINE x == Head(up[f]).of
<1>2. ASSUME Reads(f, Head(up[f])), NEW n \in Notice, ~ EndOf(Restore, n), MayHear(g, n)
      PROVE  RestoreHolds(g)'
  BY <1>1, <1>2, RestoreHeard DEF Reads
<1>3. CASE AddFederate(f)
  <2> DEFINE points == {p \in pending : p.of \in Label}
  <2>1. /\ Reads(f, Head(up[f]))
        /\ down' = [down EXCEPT ![f] =
             Send(f, IF rtia[f] = "lost" THEN down[f]
                       ELSE down[f] \o SetToSeq({Start(p) : p \in points}),
                  [kind |-> "JOINED"])]
    BY <1>3, Admitted
  <2>2. points = {p \in pending : p.of \in Label}
    OBVIOUS
  <2> HIDE DEF points
  <2>3. /\ \A h \in Federate \ {f} : down'[h] = down[h]
        /\ \A n \in ToSet(down'[f]) : n \in ToSet(down[f]) \/ n.kind \in {"START", "JOINED"}
        /\ /\ Respects(down[f], EndsFirst)
           /\ \A n, m \in Notice : m.kind \in {"START", "JOINED"} => <<n, m>> \in EndsFirst
           => Respects(down'[f], EndsFirst)
    BY <1>1, <2>1, <2>2, JoinerHears
  <2>4. \A n, m \in Notice : m.kind \in {"START", "JOINED"} => <<n, m>> \in EndsFirst
    BY EndsFirstRelation DEF EndOf
  <2>5. /\ \A n \in ToSet(down'[g]) : EndOf(Restore, n) => n \in ToSet(down[g])
        /\ Respects(down[g], EndsFirst) => Respects(down'[g], EndsFirst)
    BY <2>3, <2>4 DEF EndOf
  <2>6. commands' = commands /\ duties' = duties
    BY <2>1 DEF Reads
  <2> QED
    BY <2>5, <2>6, RestoreStays
<1>4. CASE RemoveFederate(f)
  <2> DEFINE n == [kind |-> "RESIGNED"]
  <2>1. Reads(f, Head(up[f])) /\ Reply(f, n)
    BY <1>4, Removed
  <2>2. n \in Notice /\ ~ EndOf(Restore, n)
    BY Notices DEF Replies, EndOf
  <2> HIDE DEF n
  <2> QED
    BY <1>1, <1>2, <2>1, <2>2, OneHears
<1>5. CASE KillFederate(f)
  <2>1. UNCHANGED <<down, commands, duties>>
    BY <1>5 DEF KillFederate, federateVars
  <2> QED
    BY <2>1, RestoreStays
<1>6. CASE RegisterPoint(f) \/ SaveOrRestore(f)
  <2>1. /\ Reads(f, Head(up[f]))
        /\ \/ down' = down \/ Reply(f, Exception)
           \/ \E p : PointBegins(x, p)
    BY <1>1, <1>6, Begun
  <2> HIDE DEF x
  <2>2. CASE down' = down \/ Reply(f, Exception)
    <3>1. Exception \in Notice /\ ~ EndOf(Restore, Exception)
      BY Notices DEF EndOf, Exception
    <3>2. MayHear(g, Exception)
      BY <1>1, <2>2, <3>1, OneHears, Hearing
    <3> QED
      BY <1>2, <2>1, <3>1, <3>2
  <2>3. ASSUME NEW p, PointBegins(x, p) PROVE RestoreHolds(g)'
    <3>1. Start(p) \in Notice /\ Start(p).kind = "START"
      BY <2>3, Notices DEF PointBegins
    <3>2. MayHear(g, Start(p))
      BY <1>1, <2>3, <3>1, MembersHear DEF PointBegins
    <3> QED
      BY <1>2, <2>1, <3>1, <3>2 DEF EndOf
  <2> QED
    BY <2>1, <2>2, <2>3
<1>7. CASE LabelAchieved(f) \/ SaveStatus(f) \/ RestoreStatus(f)
  <2>1. /\ Reads(f, Head(up[f])) /\ Head(up[f]).kind = "ANSWER"
        /\ owed' = [owed EXCEPT ![f] = Answered(owed[f], x)]
        /\ \/ down' = down
           \/ \E q \in owed[f], ok \in BOOLEAN : q.of = x /\ PointCloses(x, q, ok)
    BY <1>1, <1>7, AnswerServed
  <2>2. CASE down' = down
    BY <2>1, <2>2, RestoreStays DEF Reads
  <2>3. ASSUME NEW q \in owed[f], NEW ok \in BOOLEAN, q.of = x, PointCloses(x, q, ok),
               x = Restore
        PROVE  RestoreHolds(g)'
    BY <2>1, <2>3, RestoreEnds
  <2>4. ASSUME NEW q \in owed[f], NEW ok \in BOOLEAN, q.of = x, PointCloses(x, q, ok),
               x # Restore
        PROVE  RestoreHolds(g)'
    <3>1. q \in Point
      BY <1>1, <2>4, Typed
    <3>2. End(q, ok) \in Notice /\ End(q, ok).point = q
      BY <3>1, Notices
    <3>3. MayHear(g, End(q, ok))
      BY <1>1, <2>4, <3>2, MembersHear DEF PointCloses
    <3> QED
      BY <1>2, <2>1, <2>4, <3>2, <3>3 DEF EndOf
  <2> QED
    BY <2>1, <2>2, <2>3, <2>4
<1> QED
  BY <1>3, <1>4, <1>5, <1>6, <1>7 DEF RtigStep

(***************************************************************************)
(* Each answer that is owed can come (AnswersHold).                          *)
(***************************************************************************)

\* AnswersHold, of what a step makes of the streams and the duties.
LEMMA AnswersAfter ==
    ASSUME NEW g,
           \A p \in owed'[g] :
              \/ Start(p) \in ToSet(down'[g]) \cup ToSet(commands'[g])
              \/ p \in duties'[g]
              \/ \E m \in ToSet(up'[g]) : m.kind = "ANSWER" /\ m.of = p.of,
           \A p \in duties'[g] : RtiaAccepts(g, p.of)'
    PROVE  AnswersHold(g)'
BY DEF AnswersHold, InTransit, Start, Answering

\* The RTIA accepts the answers that it accepted.
LEMMA AcceptsStill ==
    ASSUME NEW g, NEW x, RtiaAccepts(g, x),
           x = Save => (my_is_saving[g] => my_is_saving'[g]),
           x = Restore => (my_is_restoring[g] => my_is_restoring'[g]),
           x \in my_synchronization_labels[g] => x \in my_synchronization_labels'[g]
    PROVE  RtiaAccepts(g, x)'
BY DEF RtiaAccepts, Save, Restore

\* The RTIA accepts the answer for a point that is announced to its federate.
LEMMA AcceptsStarted ==
    ASSUME NEW g, NEW x \in Label \cup SavesAndRestores,
           x = Save => my_is_saving'[g], x = Restore => my_is_restoring'[g],
           x \in Label => x \in my_synchronization_labels'[g]
    PROVE  RtiaAccepts(g, x)'
BY DEF RtiaAccepts, Save, Restore, SavesAndRestores

\* Nothing that will answer for what g owes is lost.
LEMMA AnswersStay ==
    ASSUME NEW g, AnswersHold(g), owed'[g] \subseteq owed[g],
           \A n \in InTransit(g) : n.kind = "START" =>
              n \in ToSet(down'[g]) \cup ToSet(commands'[g]),
           \A m \in ToSet(up[g]) : m.kind = "ANSWER" =>
              m \in ToSet(up'[g]) \/ \A p \in owed'[g] : p.of # m.of,
           duties'[g] = duties[g],
           \A x : RtiaAccepts(g, x) => RtiaAccepts(g, x)'
    PROVE  AnswersHold(g)'
<1>1. ASSUME NEW p \in owed'[g]
      PROVE  \/ Start(p) \in ToSet(down'[g]) \cup ToSet(commands'[g])
             \/ p \in duties'[g]
             \/ \E m \in ToSet(up'[g]) : m.kind = "ANSWER" /\ m.of = p.of
  <2>1. p \in owed[g] /\ Start(p).kind = "START"
    BY DEF Start
  <2> QED
    BY <2>1 DEF AnswersHold, Answering
<1>2. \A p \in duties'[g] : RtiaAccepts(g, p.of)'
  BY DEF AnswersHold
<1> QED
  BY <1>1, <1>2, AnswersAfter

\* f answers for one of its duties.
LEMMA AnswersCalled ==
    ASSUME FederationInvariant, NEW f \in Federate, Linked(f), AnswersHold(f),
           NEW m \in Request, CallSends(f, m), owed'[f] = owed[f]
    PROVE  AnswersHold(f)'
<1>1. TypeOK /\ AsksHold(f)
  BY Parts DEF FederateHolds
<1>2. /\ ToSet(up'[f]) = ToSet(up[f]) \cup {m}
      /\ down'[f] = down[f] /\ commands'[f] = commands[f]
      /\ my_is_saving' = my_is_saving /\ my_is_restoring' = my_is_restoring
  BY DEF CallSends, Speaks
<1>3. CASE m.kind # "ANSWER"
  <2>1. duties'[f] = duties[f] /\ my_synchronization_labels[f] \subseteq my_synchronization_labels'[f]
    BY <1>3 DEF CallSends
  <2>2. \A x : RtiaAccepts(f, x) => RtiaAccepts(f, x)'
    BY <1>2, <2>1, AcceptsStill
  <2> QED
    BY <1>2, <2>1, <2>2, AnswersStay DEF InTransit
<1>4. CASE m.kind = "ANSWER"
  <2>1. PICK q \in duties[f] : q.of = m.of /\ duties'[f] = duties[f] \ {q}
    BY <1>4 DEF CallSends
  <2>2. \A p \in duties[f] : p.of = q.of => p = q
    BY <1>1, OneDuty
  <2>3. ASSUME NEW p \in owed'[f]
        PROVE  \/ Start(p) \in ToSet(down'[f]) \cup ToSet(commands'[f])
               \/ p \in duties'[f]
               \/ \E r \in ToSet(up'[f]) : r.kind = "ANSWER" /\ r.of = p.of
    <3>1. Start(p) \in InTransit(f) \/ p \in duties[f] \/ Answering(f, p.of)
      BY DEF AnswersHold
    <3> QED
      BY <1>2, <1>4, <2>1, <3>1 DEF InTransit, Answering
  <2>4. ASSUME NEW p \in duties'[f]
        PROVE  RtiaAccepts(f, p.of)'
    <3>1. p \in duties[f] /\ p.of # m.of
      BY <2>1, <2>2
    <3>2. RtiaAccepts(f, p.of)
      BY <3>1 DEF AnswersHold
    <3>3. p.of \in my_synchronization_labels[f] => p.of \in my_synchronization_labels'[f]
      BY <3>1 DEF CallSends
    <3> QED
      BY <1>2, <3>2, <3>3, AcceptsStill
  <2> QED
    BY <2>3, <2>4, AnswersAfter
<1> QED
  BY <1>3, <1>4

\* A federate is told that a point starts or is over.
LEMMA AnswersGiven ==
    ASSUME FederationInvariant, SaveHolds, NEW f \in Federate, Linked(f), RestoreHolds(f),
           AnswersHold(f), Tick(f), owed'[f] = owed[f]
    PROVE  AnswersHold(f)'
<1> DEFINE n == Head(commands[f])
<1>1. /\ n \in Notice /\ n.kind \in {"START", "END"}
      /\ ToSet(commands[f]) = {n} \cup ToSet(commands'[f])
      /\ duties'[f] = IF n.kind = "START" THEN duties[f] \cup {n.point} ELSE duties[f]
      /\ my_synchronization_labels[f] \subseteq my_synchronization_labels'[f]
      /\ n.kind = "START" /\ n.point.of \in Label =>
            n.point.of \in my_synchronization_labels'[f]
      /\ my_is_saving'[f] = IF n.point.of = Save THEN n.kind = "START" ELSE my_is_saving[f]
      /\ my_is_restoring'[f] =
            IF n.point.of = Restore THEN n.kind = "START" ELSE my_is_restoring[f]
      /\ UNCHANGED <<up, down>>
  BY Ticked
<1> HIDE DEF n
<1>2. TypeOK /\ AsksHold(f)
  BY Parts DEF FederateHolds
<1>3. n.point \in Point
  BY <1>1, Notices
<1>4. ASSUME NEW p \in owed'[f]
      PROVE  \/ Start(p) \in ToSet(down'[f]) \cup ToSet(commands'[f])
             \/ p \in duties'[f]
             \/ \E r \in ToSet(up'[f]) : r.kind = "ANSWER" /\ r.of = p.of
  <2>1. Start(p) \in InTransit(f) \/ p \in duties[f] \/ Answering(f, p.of)
    BY <1>4 DEF AnswersHold
  <2>2. Start(p).kind = "START" /\ Start(p).point = p
    BY DEF Start
  <2> QED
    BY <1>1, <2>1, <2>2 DEF InTransit, Answering
<1>5. ASSUME NEW p \in duties[f]
      PROVE  RtiaAccepts(f, p.of)'
  <2>1. RtiaAccepts(f, p.of) /\ p \in pending /\ Due(f, p.of)
    BY <1>2, OneDuty DEF AnswersHold, Due
  <2>2. ASSUME p.of = Save, n.point.of = Save PROVE n.kind = "START"
    <3>1. IsPending(Save)
      BY <2>1, <2>2 DEF IsPending
    <3>2. ~ Over(Save, commands[f])
      BY <3>1 DEF SaveHolds
    <3> QED
      BY <1>1, <2>2, <3>2 DEF Over, EndOf
  <2>3. ASSUME p.of = Restore, n.point.of = Restore PROVE n.kind = "START"
    <3>1. ~ Over(Restore, commands[f])
      BY <2>1, <2>3 DEF RestoreHolds
    <3> QED
      BY <1>1, <2>3, <3>1 DEF Over, EndOf
  <2>4. /\ p.of = Save => (my_is_saving[f] => my_is_saving'[f])
        /\ p.of = Restore => (my_is_restoring[f] => my_is_restoring'[f])
    BY <1>1, <2>2, <2>3
  <2> QED
    BY <1>1, <2>1, <2>4, AcceptsStill
<1>6. ASSUME NEW p \in {n.point}, n.kind = "START" PROVE RtiaAccepts(f, p.of)'
  <2>1. p = n.point /\ p.of \in Label \cup SavesAndRestores
    BY <1>3, Points
  <2> QED
    BY <1>1, <1>6, <2>1, AcceptsStarted
<1>7. ASSUME NEW p \in duties'[f] PROVE RtiaAccepts(f, p.of)'
  <2>1. p \in duties[f] \/ (n.kind = "START" /\ p \in {n.point})
    BY <1>1, <1>7
  <2> QED
    BY <1>5, <1>6, <2>1
<1> QED
  BY <1>4, <1>7, AnswersAfter

\* The RTIAs keep what will answer for the points, and what their answers take.
LEMMA RtiaAnswers ==
    ASSUME FederationInvariant, unlinked = {}, SaveHolds, NEW f \in Federate, RtiaStep(f),
           NEW g \in Federate, RestoreHolds(g), Serves(g) => AnswersHold(g), Serves(g)'
    PROVE  AnswersHold(g)'
<1>1. TypeOK /\ LinkHolds(f)
  BY Parts DEF FederateHolds
<1>2. members' = members /\ owed' = owed
  BY <1>1, RtiaAlone DEF rtigVars
<1>3. g \in members /\ rtia'[g] \in {"joining", "member"}
  BY <1>2 DEF Serves
<1>4. Linked(g)
  BY <1>3 DEF Linked
<1>5. CASE g # f
  <2>1. Idle(g)
    BY <1>1, <1>5, RtiaAlone
  <2>2. AnswersHold(g)
    BY <1>3, <2>1 DEF Serves, Idle
  <2>3. \A x : RtiaAccepts(g, x) => RtiaAccepts(g, x)'
    BY <2>1, AcceptsStill DEF Idle
  <2> QED
    BY <1>2, <2>1, <2>2, <2>3, AnswersStay DEF Idle, InTransit
<1>6. CASE g = f /\ CallsService(f)
  <2>1. PICK m \in Request : CallSends(f, m)
    BY <1>1, <1>6, Called
  <2>2. rtia[f] = "member"
    <3>1. rtia[f] \notin {"out", "resigned"}
      BY <1>1, <1>3, <1>6 DEF LinkHolds
    <3> QED
      BY <2>1, <3>1 DEF CallSends
  <2> QED
    BY <1>2, <1>3, <1>4, <1>6, <2>1, <2>2, AnswersCalled DEF Serves
<1>7. CASE g = f /\ ProcessNetworkMessage(f)
  <2> DEFINE n == Head(down[f])
  <2>1. /\ rtia[f] = "member" /\ ToSet(down[f]) = {n} \cup ToSet(down'[f])
        /\ UNCHANGED <<duties, my_synchronization_labels, my_is_saving, my_is_restoring>>
        /\ \/ rtia'[f] = "ending"
           \/ up' = up /\ ToSet(commands'[f]) = ToSet(commands[f]) \cup {n}
    BY <1>7, Processed
  <2> HIDE DEF n
  <2>2. up' = up /\ ToSet(commands'[f]) = ToSet(commands[f]) \cup {n}
    BY <1>3, <1>7, <2>1
  <2>3. AnswersHold(f)
    BY <1>3, <1>7, <2>1 DEF Serves
  <2>4. \A x : RtiaAccepts(f, x) => RtiaAccepts(f, x)'
    BY <2>1, AcceptsStill
  <2> QED
    BY <1>2, <1>7, <2>1, <2>2, <2>3, <2>4, AnswersStay DEF InTransit
<1>8. CASE g = f /\ WaitMessage(f)
  <2>1. /\ rtia'[f] \in {"member", "refused", "resigned", "gone"}
        /\ rtia'[f] = "member" => rtia[f] = "joining"
        /\ UNCHANGED <<up, commands, duties, my_synchronization_labels, my_is_saving,
                       my_is_restoring>>
    BY <1>8, Waited
  <2>2. PICK n \in Notice : n.kind \in Replies /\ ToSet(down[f]) = {n} \cup ToSet(down'[f])
    BY <1>8, Waited
  <2>3. AnswersHold(f)
    BY <1>3, <1>8, <2>1 DEF Serves
  <2>4. \A x : RtiaAccepts(f, x) => RtiaAccepts(f, x)'
    BY <2>1, AcceptsStill
  <2>5. \A m \in InTransit(f) : m.kind = "START" => m \in ToSet(down'[f]) \cup ToSet(commands'[f])
    BY <2>1, <2>2 DEF InTransit, Replies
  <2> QED
    BY <1>2, <1>8, <2>1, <2>3, <2>4, <2>5, AnswersStay
<1>9. CASE g = f /\ Tick(f)
  <2>1. rtia[f] = "member"
    BY <1>9 DEF Tick
  <2> QED
    BY <1>2, <1>3, <1>4, <1>9, <2>1, AnswersGiven DEF Serves
<1>10. CASE g = f /\ Die(f)
  BY <1>3, <1>10, Died
<1> QED
  BY <1>5, <1>6, <1>7, <1>8, <1>9, <1>10, RtiaSteps

\* What g owes and has been told of does not change.
LEMMA AnswersUntouched ==
    ASSUME NEW f \in Federate, Reads(f, Head(up[f])), NEW g \in Federate, AnswersHold(g),
           owed'[g] \subseteq owed[g], ToSet(down[g]) \subseteq ToSet(down'[g]),
           g = f /\ Head(up[f]).kind = "ANSWER" => \A p \in owed'[g] : p.of # Head(up[f]).of
    PROVE  AnswersHold(g)'
<1>1. /\ commands' = commands /\ duties' = duties
      /\ \A x : RtiaAccepts(g, x) => RtiaAccepts(g, x)'
  BY AcceptsStill DEF Reads
<1>2. \A m \in ToSet(up[g]) : m.kind = "ANSWER" =>
         m \in ToSet(up'[g]) \/ \A p \in owed'[g] : p.of # m.of
  BY DEF Reads
<1> QED
  BY <1>1, <1>2, AnswersStay DEF InTransit

\* A point that begins is announced to all that will answer for it.
LEMMA AnswersBegin ==
    ASSUME FederationInvariant, NEW f \in Federate, Reads(f, Head(up[f])),
           Head(up[f]).kind \in {"REGISTER", "REQUEST"},
           NEW x, NEW p, PointBegins(x, p),
           NEW g \in Federate, Serves(g), AnswersHold(g)
    PROVE  AnswersHold(g)'
<1>1. TypeOK /\ p \in Point /\ Start(p) \in Notice
  BY Parts, Notices DEF PointBegins
<1>2. ToSet(down[g]) \cup {Start(p)} \subseteq ToSet(down'[g])
  <2>1. /\ MayHear(g, Start(p))
        /\ g \in members /\ rtia[g] \notin {"gone", "lost"} => Start(p) \in ToSet(down'[g])
    BY <1>1, MembersHear DEF PointBegins
  <2> QED
    BY <2>1 DEF Serves, MayHear
<1>3. owed'[g] = owed[g] \cup {p}
  BY DEF Serves, PointBegins
<1>4. commands' = commands /\ duties' = duties
  BY DEF Reads
<1>5. \A m \in ToSet(up[g]) : m.kind = "ANSWER" => m \in ToSet(up'[g])
  BY DEF Reads
<1>6. ASSUME NEW q \in owed'[g]
      PROVE  \/ Start(q) \in ToSet(down'[g]) \cup ToSet(commands'[g])
             \/ q \in duties'[g]
             \/ \E m \in ToSet(up'[g]) : m.kind = "ANSWER" /\ m.of = q.of
  <2>1. CASE q = p
    BY <1>2, <2>1
  <2>2. CASE q \in owed[g]
    <3>1. Start(q) \in InTransit(g) \/ q \in duties[g] \/ Answering(g, q.of)
      BY <2>2 DEF AnswersHold
    <3> QED
      BY <1>2, <1>4, <1>5, <3>1 DEF InTransit, Answering
  <2> QED
    BY <1>3, <2>1, <2>2
<1>7. ASSUME NEW q \in duties'[g] PROVE RtiaAccepts(g, q.of)'
  <2>1. RtiaAccepts(g, q.of)
    BY <1>4 DEF AnswersHold
  <2> QED
    BY <2>1, AcceptsStill DEF Reads
<1> QED
  BY <1>6, <1>7, AnswersAfter

\* A federate that joins is told of the labels that it owes.
LEMMA AnswersJoin ==
    ASSUME FederationInvariant, OnceInvariant, NEW f \in Federate, AddFederate(f),
           Serves(f)'
    PROVE  AnswersHold(f)'
<1>1. TypeOK /\ IsFiniteSet(pending) /\ LinkHolds(f)
  BY Parts DEF FederateHolds, EndsHold
<1> DEFINE points == {p \in pending : p.of \in Label}
<1>2. /\ Reads(f, Head(up[f])) /\ f \notin members /\ f \notin referenced
      /\ owed' = [owed EXCEPT ![f] = points]
      /\ down' = [down EXCEPT ![f] =
           Send(f, IF rtia[f] = "lost" THEN down[f]
                     ELSE down[f] \o SetToSeq({Start(p) : p \in points}),
                [kind |-> "JOINED"])]
  BY Admitted
<1>3. points = {p \in pending : p.of \in Label}
  OBVIOUS
<1> HIDE DEF points
<1>4. rtia[f] \notin {"gone", "lost"}
  BY <1>2 DEF Serves, Reads
<1>5. \A p \in points : Start(p) \in ToSet(down'[f])
  BY <1>1, <1>2, <1>3, <1>4, JoinerHears
<1>6. owed'[f] = points
  BY <1>1, <1>2 DEF TypeOK
<1>7. duties'[f] = {}
  BY <1>1, <1>2 DEF LinkHolds, Reads
<1> QED
  BY <1>5, <1>6, <1>7, AnswersAfter

\* The RTIG asks only for what it has told of, and awaits no answer that it has read.
LEMMA RtigAnswers ==
    ASSUME ForEveryone, FederationInvariant, OnceInvariant, NEW f \in Federate, RtigStep(f),
           NEW g \in Federate, Serves(g) => AnswersHold(g), Serves(g)'
    PROVE  AnswersHold(g)'
<1>1. TypeOK /\ unlinked = {} /\ IsFiniteSet(pending)
  BY Parts DEF OnceInvariant, EndsHold
<1> DEFINE m == Head(up[f])
<1>2. ASSUME Reads(f, Head(up[f])), g \in members
      PROVE  Serves(g) /\ AnswersHold(g)
  BY <1>2 DEF Reads, Serves
<1>3. CASE AddFederate(f) /\ g = f
  BY <1>3, AnswersJoin
<1>4. CASE AddFederate(f) /\ g # f
  <2> DEFINE points == {p \in pending : p.of \in Label}
  <2>1. /\ Reads(f, Head(up[f])) /\ m.kind = "JOIN" /\ members' = members \cup {f}
        /\ owed' = [owed EXCEPT ![f] = points]
        /\ down' = [down EXCEPT ![f] =
             Send(f, IF rtia[f] = "lost" THEN down[f]
                       ELSE down[f] \o SetToSeq({Start(p) : p \in points}),
                  [kind |-> "JOINED"])]
    BY <1>4, Admitted
  <2> HIDE DEF points
  <2>2. owed'[g] = owed[g] /\ down'[g] = down[g]
    BY <1>1, <1>4, <2>1 DEF TypeOK
  <2>3. g \in members
    BY <1>4, <2>1 DEF Serves
  <2> QED
    BY <1>2, <1>4, <2>1, <2>2, <2>3, AnswersUntouched
<1>5. CASE RemoveFederate(f)
  <2> DEFINE n == [kind |-> "RESIGNED"]
  <2>1. /\ Reads(f, Head(up[f])) /\ members' = members \ {f}
        /\ owed' = [owed EXCEPT ![f] = {}] /\ Reply(f, n)
    BY <1>5, Removed
  <2>2. n \in Notice
    BY Notices DEF Replies
  <2> HIDE DEF n
  <2>3. ToSet(down[g]) \subseteq ToSet(down'[g])
    BY <1>1, <2>1, <2>2, OneHears DEF MayHear
  <2>4. g # f /\ g \in members
    BY <2>1 DEF Serves
  <2>5. owed'[g] = owed[g]
    BY <1>1, <2>1, <2>4 DEF TypeOK
  <2> QED
    BY <1>2, <2>1, <2>3, <2>4, <2>5, AnswersUntouched
<1>6. CASE KillFederate(f)
  <2>1. /\ members' = members \ {f} /\ owed' = [owed EXCEPT ![f] = {}]
        /\ UNCHANGED <<rtia, down, up, commands, duties, my_synchronization_labels,
                       my_is_saving, my_is_restoring>>
    BY <1>6 DEF KillFederate, federateVars, rtiaVars
  <2>2. g # f /\ Serves(g)
    BY <2>1 DEF Serves
  <2>3. owed'[g] = owed[g]
    BY <1>1, <2>1, <2>2 DEF TypeOK
  <2>4. \A x : RtiaAccepts(g, x) => RtiaAccepts(g, x)'
    BY <2>1, AcceptsStill
  <2> QED
    BY <2>1, <2>2, <2>3, <2>4, AnswersStay DEF InTransit
<1>7. CASE RegisterPoint(f) \/ SaveOrRestore(f)
  <2> DEFINE x == m.of
  <2>1. /\ Reads(f, Head(up[f])) /\ m.kind \in {"REGISTER", "REQUEST"}
        /\ members' = members
        /\ \/ UNCHANGED <<pending, owed>> /\ (down' = down \/ Reply(f, Exception))
           \/ \E p : PointBegins(x, p)
    BY <1>1, <1>7, Begun
  <2>2. g \in members
    BY <2>1 DEF Serves
  <2>3. CASE UNCHANGED <<pending, owed>> /\ (down' = down \/ Reply(f, Exception))
    <3>1. Exception \in Notice
      BY Notices DEF Exception
    <3>2. ToSet(down[g]) \subseteq ToSet(down'[g])
      BY <1>1, <2>3, <3>1, OneHears DEF MayHear
    <3> QED
      BY <1>2, <2>1, <2>2, <2>3, <3>2, AnswersUntouched
  <2>4. ASSUME NEW p, PointBegins(x, p) PROVE AnswersHold(g)'
    BY <1>2, <2>1, <2>2, <2>4, AnswersBegin
  <2> QED
    BY <2>1, <2>3, <2>4
<1>8. CASE LabelAchieved(f) \/ SaveStatus(f) \/ RestoreStatus(f)
  <2> DEFINE x == m.of
  <2>1. /\ Reads(f, Head(up[f])) /\ m.kind = "ANSWER"
        /\ members' = members /\ f \in members
        /\ owed' = [owed EXCEPT ![f] = Answered(owed[f], x)]
        /\ \/ down' = down
           \/ \E q \in owed[f], ok \in BOOLEAN : q.of = x /\ PointCloses(x, q, ok)
    BY <1>1, <1>8, AnswerServed
  <2>2. g \in members
    BY <2>1 DEF Serves
  <2>3. /\ owed'[g] \subseteq owed[g]
        /\ g = f => \A p \in owed'[g] : p.of # x
    BY <1>1, <2>1 DEF TypeOK, Answered
  <2>4. ASSUME NEW q \in owed[f], NEW ok \in BOOLEAN, PointCloses(x, q, ok)
        PROVE  ToSet(down[g]) \subseteq ToSet(down'[g])
    <3>1. q \in Point
      BY <1>1, <2>4, Typed
    <3>2. End(q, ok) \in Notice
      BY <3>1, Notices
    <3> QED
      BY <1>1, <2>4, <3>2, MembersHear DEF PointCloses, MayHear
  <2>5. ToSet(down[g]) \subseteq ToSet(down'[g])
    BY <2>1, <2>4
  <2> QED
    BY <1>2, <2>1, <2>2, <2>3, <2>5, AnswersUntouched
<1> QED
  BY <1>3, <1>4, <1>5, <1>6, <1>7, <1>8 DEF RtigStep

LEMMA AwaitedInitially ==
    ASSUME Init
    PROVE  AwaitedInvariant
<1>1. \A g \in Federate :
         /\ ToSet(up[g]) = {} /\ ToSet(down[g]) = {} /\ ToSet(commands[g]) = {}
         /\ \A R : Respects(up[g], R) /\ Respects(down[g], R) /\ Respects(commands[g], R)
         /\ owed[g] = {} /\ duties[g] = {}
  BY EmptyStream DEF Init
<1>2. \A s \in Service : calls[s] = 0 /\ calls[s] <= MaxCalls[s]
  BY ConstantsAssumption DEF Init
<1>3. "save" \in Service /\ "timed save" \in Service
  BY DEF Service
<1>4. ~ IsPending(Save)
  BY DEF Init, IsPending
<1>5. \A g \in Federate : /\ ~ AskingSave(g) /\ ~ Over(Save, down[g]) /\ ~ Over(Save, commands[g])
                          /\ RestoreHolds(g) /\ AnswersHold(g)
  BY <1>1 DEF AskingSave, Over, RestoreHolds, Queued, Due, AnswersHold
<1>6. SaveHolds
  BY <1>1, <1>2, <1>3, <1>4, <1>5 DEF SaveHolds
<1> QED
  BY <1>5, <1>6, OnceInitially DEF AwaitedInvariant

LEMMA AwaitedUntouched ==
    ASSUME AwaitedInvariant, UNCHANGED vars
    PROVE  AwaitedInvariant'
<1>1. /\ UNCHANGED <<members, unlinked, referenced, pending, owed>>
      /\ UNCHANGED <<rtia, my_synchronization_labels, my_is_saving, my_is_restoring>>
      /\ UNCHANGED <<commands, up, down, duties, calls>>
  BY DEF vars, rtigVars, rtiaVars, federateVars
<1>2. OnceInvariant'
  BY <1>1, JoinsOnceStays DEF AwaitedInvariant, OnceInvariant
<1>3. SaveHolds'
  BY <1>1 DEF AwaitedInvariant, SaveHolds, AskingSave, Over, IsPending, Respects
<1>4. ASSUME NEW g \in Federate
      PROVE  RestoreHolds(g)' /\ (Serves(g)' => AnswersHold(g)')
  <2>1. RestoreHolds(g)'
    BY <1>1, RestoreStays DEF AwaitedInvariant
  <2>2. \A x : RtiaAccepts(g, x) => RtiaAccepts(g, x)'
    BY <1>1, AcceptsStill
  <2>3. AnswersHold(g) => AnswersHold(g)'
    BY <1>1, <2>2, AnswersStay DEF InTransit
  <2>4. Serves(g)' => Serves(g)
    BY <1>1 DEF Serves
  <2> QED
    BY <2>1, <2>3, <2>4 DEF AwaitedInvariant
<1> QED
  BY <1>2, <1>3, <1>4 DEF AwaitedInvariant

LEMMA AwaitedStep ==
    ASSUME Regular, FederationInvariant, AwaitedInvariant, [Next]_vars
    PROVE  AwaitedInvariant'
<1>1. /\ NoneRejoins /\ ForEveryone /\ OneSave
      /\ OnceInvariant /\ SaveHolds /\ unlinked = {}
      /\ \A g \in Federate : RestoreHolds(g) /\ (Serves(g) => AnswersHold(g))
  BY DEF Regular, AwaitedInvariant, OnceInvariant
<1>2. OnceInvariant'
  BY <1>1, OnceStep
<1>3. CASE UNCHANGED vars
  BY <1>3, AwaitedUntouched
<1>4. ASSUME NEW f \in Federate, RtiaStep(f)
      PROVE  /\ SaveHolds'
             /\ \A g \in Federate : RestoreHolds(g)' /\ (Serves(g)' => AnswersHold(g)')
  BY <1>1, <1>4, RtiaSaves, RtiaRestores, RtiaAnswers
<1>5. ASSUME NEW f \in Federate, RtigStep(f)
      PROVE  /\ SaveHolds'
             /\ \A g \in Federate : RestoreHolds(g)' /\ (Serves(g)' => AnswersHold(g)')
  BY <1>1, <1>5, RtigSaves, RtigRestores, RtigAnswers
<1> QED
  BY <1>2, <1>3, <1>4, <1>5 DEF AwaitedInvariant, Next

\* Every point that a member owes is announced to it, with it, or answered, and its
\* RTIA takes the answer (Federation::addSynchronization, requestFederationSave,
\* requestFederationRestore; saveAndRestoreStatus), whoever resigns or is lost, when
\* none rejoins, each label is for everyone and there is one save.
THEOREM AnswersAreKept ==
    ASSUME Regular
    PROVE  Spec => []AwaitedInvariant
<1>1. Init => AwaitedInvariant
  BY AwaitedInitially
<1>2. FederationInvariant /\ AwaitedInvariant /\ [Next]_vars => AwaitedInvariant'
  BY AwaitedStep
<1> QED
  BY <1>1, <1>2, PointsAreKept, PTL DEF Spec

\* The RTIG waits only for answers that can come (AwaitedCanAnswer), under the same
\* assumptions.
THEOREM AnswersCanCome ==
    ASSUME Regular
    PROVE  Spec => []AwaitedCanAnswer
<1>1. TypeOK /\ AwaitedInvariant => AwaitedCanAnswer
  <2>1. ASSUME TypeOK, AwaitedInvariant, NEW f \in members, NEW p \in owed[f],
               rtia[f] = "member"
        PROVE  \/ Start(p) \in InTransit(f)
               \/ p \in duties[f] /\ RtiaAccepts(f, p.of)
               \/ Answering(f, p.of)
    <3>1. f \in Federate /\ Serves(f)
      BY <2>1 DEF TypeOK, Serves
    <3> QED
      BY <2>1, <3>1 DEF AwaitedInvariant, AnswersHold
  <2> QED
    BY <2>1 DEF AwaitedCanAnswer, Answering
<1>2. FederationInvariant => TypeOK
  BY Parts
<1> QED
  BY <1>1, <1>2, AnswersAreKept, PointsAreKept, PTL
=============================================================================
