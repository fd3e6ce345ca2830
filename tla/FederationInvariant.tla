------------------------- MODULE FederationInvariant -------------------------
(***************************************************************************)
(* Why the points of FederationManagement end well: the invariants that the  *)
(* proofs rest on.                                                           *)
(*                                                                           *)
(* A federate joins and leaves once on its link, and nothing of it is on     *)
(* the streams before the one or after the other (LinkHolds).  A linked      *)
(* member is asked once for each point it owes: the announce is on the       *)
(* stream to its RTIA, in the queue of the RTIA, with the federate, or has   *)
(* become an answer on the stream back, and is at one of these places only   *)
(* (AsksHold).  A point that anybody is told the end of is not pending any   *)
(* more (EndsHold), and its status keeps the failures answered so far        *)
(* (FailuresHold).                                                           *)
(***************************************************************************)
EXTENDS FederationManagement

SavesAndRestores == {Save, Restore}

\* f is a member, and its link refers to it.
Linked(f) == f \in members \ unlinked

\* Every element of s is related by R to those behind it.
Respects(s, R) == \A i, j \in 1 .. Len(s) : i < j => <<s[i], s[j]>> \in R

\* Nothing follows a resignation, nothing goes with a request to join, and no two
\* answers are for the same label, save or restoration.
RequestsFit ==
    {r \in Request \X Request :
        /\ r[1].kind \notin {"JOIN", "RESIGN"} /\ r[2].kind # "JOIN"
        /\ r[1].kind = "ANSWER" /\ r[2].kind = "ANSWER" => r[1].of # r[2].of}

\* What a federate that joins or resigns waits for.
Replies == {"JOINED", "JOIN_REFUSED", "RESIGNED"}

OneReply == {n \in Notice \X Notice : n[1].kind \in Replies => n[2].kind \notin Replies}

\* No two announces are for the same label, save or restoration.
OneStart ==
    {n \in Notice \X Notice :
        n[1].kind = "START" /\ n[2].kind = "START" => n[1].point.of # n[2].point.of}

\* What a request on the stream of f says of f.
UpHolds(f, m) ==
    /\ IF m.kind = "JOIN" THEN f \notin members /\ rtia[f] \in {"joining", "lost"}
                          ELSE Linked(f)
    /\ m.kind = "RESIGN" => rtia[f] \in {"resigning", "ending", "lost"}
    /\ m.kind \in {"JOIN", "RESIGN"} => \A n \in ToSet(down[f]) : n.kind \notin Replies
    /\ m.kind = "REGISTER" => m.of \in Label
    /\ m.kind = "REQUEST" => m.of \in SavesAndRestores

\* What a notice on the stream to f says of f.
DownHolds(f, n) ==
    /\ n.kind = "JOINED" => rtia[f] = "lost" \/ (rtia[f] = "joining" /\ Linked(f))
    /\ n.kind = "JOIN_REFUSED" => rtia[f] \in {"joining", "lost"}
    /\ n.kind = "RESIGNED" =>
          f \notin members /\ up[f] = <<>> /\ rtia[f] \in {"resigning", "ending", "lost"}

LinkHolds(f) ==
    /\ rtia[f] = "member" =>
          Linked(f) /\ \A m \in ToSet(up[f]) : m.kind \notin {"JOIN", "RESIGN"}
    /\ rtia[f] \in {"out", "resigned"} => f \notin members /\ up[f] = <<>>
    /\ \A m \in ToSet(up[f]) : UpHolds(f, m)
    /\ \A n \in ToSet(down[f]) : DownHolds(f, n)
    /\ Respects(up[f], RequestsFit) /\ Respects(down[f], OneReply)
    /\ f \notin referenced => ~ Linked(f)
    /\ f \notin referenced \cup members =>
          /\ duties[f] = {} /\ commands[f] = <<>>
          /\ \A n \in ToSet(down[f]) : n.kind # "START"

\* Where the question whether f is done with the point of x may be.
Told(f, x) == \E n \in ToSet(down[f]) : n.kind = "START" /\ n.point.of = x
Queued(f, x) == \E n \in ToSet(commands[f]) : n.kind = "START" /\ n.point.of = x
Due(f, x) == \E p \in duties[f] : p.of = x
Answering(f, x) == \E m \in ToSet(up[f]) : m.kind = "ANSWER" /\ m.of = x

\* It is at one place at most.
AskedOnce(f, x) ==
    /\ Told(f, x) => ~ Queued(f, x) /\ ~ Due(f, x) /\ ~ Answering(f, x)
    /\ Queued(f, x) => ~ Due(f, x) /\ ~ Answering(f, x)
    /\ Due(f, x) => ~ Answering(f, x)

AsksHold(f) ==
    /\ \A n \in InTransit(f) : n.kind = "START" => n.point \in owed[f]
    /\ duties[f] \subseteq owed[f]
    /\ \A x \in Label \cup SavesAndRestores :
          AskedOnce(f, x) /\ (Answering(f, x) => \E p \in owed[f] : p.of = x)
    /\ Respects(down[f], OneStart) /\ Respects(commands[f], OneStart)

\* Points are numbered as they start, and a point whose end is told is over.
EndsHold ==
    /\ IsFiniteSet(pending) /\ \A p \in pending : p.round <= round
    /\ \A f \in Federate : \A m \in InTransit(f) : m.kind = "END" =>
          /\ m.point.round <= round /\ m.point \notin pending
          /\ m.ok => \A x \in failed : x.point = m.point => rtia[x.by] = "lost"

Status(x) == IF x = Save THEN my_save_status ELSE my_restore_status

\* The status of the save or the restoration in progress, and the answers still to
\* come, keep every failure.
FailuresHold ==
    \A x \in failed :
        /\ x.point.of \in SavesAndRestores /\ x.point.round <= round
        /\ x.point \in pending /\ Status(x.point.of) =>
              \/ rtia[x.by] = "lost"
              \/ \E m \in ToSet(up[x.by]) : m.kind = "ANSWER" /\ m.of = x.point.of /\ ~ m.ok

\* Every federate is asked once for each point it owes and no end is told before
\* the last answer, whatever federates join, resign or are lost (addSynchronization,
\* unregisterSynchronization, federateSaveStatus, federateRestoreStatus, add,
\* remove and kill together).  It is inductive, and gives EndsTogether.
FederationInvariant ==
    /\ TypeOK
    /\ \A f \in Federate : LinkHolds(f) /\ (Linked(f) => AsksHold(f))
    /\ EndsHold
    /\ FailuresHold

-----------------------------------------------------------------------------
(* One federate asks for saves and restorations.                             *)

OneRequester == \A f, g \in Savers \cup Restorers : f = g

EndOfSaveOrRestore(n) == n.kind = "END" /\ n.point.of \in SavesAndRestores

InProgress == {p \in pending : p.of \in SavesAndRestores}

OneRequest == {r \in Request \X Request : r[1].kind = "REQUEST" => r[2].kind # "REQUEST"}
OneEnd == {n \in Notice \X Notice : EndOfSaveOrRestore(n[1]) => ~ EndOfSaveOrRestore(n[2])}

Asking(f) == \E m \in ToSet(up[f]) : m.kind = "REQUEST"
Ending(s) == \E n \in ToSet(s) : EndOfSaveOrRestore(n)

\* What f has asked for is on its stream, in progress, or about to be told as over,
\* and only one of these.
RequesterHolds(f) ==
    /\ Asking(f) => f \in Savers \cup Restorers /\ InProgress = {}
    /\ f \in Savers \cup Restorers =>
          /\ Asking(f) \/ InProgress # {} => ~ Ending(down[f]) /\ ~ Ending(commands[f])
          /\ Asking(f) \/ InProgress # {} \/ Ending(down[f]) \/ Ending(commands[f])
                => waiting[f]
          /\ ~ (Ending(down[f]) /\ Ending(commands[f]))
          /\ Respects(up[f], OneRequest)
          /\ Respects(down[f], OneEnd) /\ Respects(commands[f], OneEnd)

\* With it, no answer is an exception as long as each federate has joined once.
StrayInvariant ==
    unlinked = {} =>
        /\ \A f \in Federate : Exception \notin ToSet(down[f])
        /\ \A p, q \in InProgress : p = q
        /\ \A f \in Federate : RequesterHolds(f)

-----------------------------------------------------------------------------
(* Whoever answers is known to its RTIA. *)

\* A link joins once.
NoneRejoins == MaxCalls["resign"] = 0 \/ MaxCalls["rejoin"] = 0

\* Labels are registered for every member.
ForEveryone == FederateSets \subseteq {Federate}

\* One save is asked for.
OneSave == MaxCalls["save"] + MaxCalls["timed save"] <= 1

\* What it takes for every linked member to be told of each point, and for no save
\* to be announced while the end of another waits in a command queue.
Regular == NoneRejoins /\ ForEveryone /\ OneSave

\* f has not been referenced when it asks to join.
JoinsOnce(f) ==
    /\ rtia[f] = "out" \/ (\E m \in ToSet(up[f]) : m.kind = "JOIN") => f \notin referenced
    /\ rtia[f] \in {"resigning", "resigned"} => MaxCalls["resign"] > 0

\* Every link refers to its federate.
OnceInvariant == unlinked = {} /\ \A f \in Federate : JoinsOnce(f)

SaveRequest(m) == m.kind = "REQUEST" /\ m.of = Save
OneSaveRequest == {r \in Request \X Request : SaveRequest(r[1]) => ~ SaveRequest(r[2])}
AskingSave(f) == \E m \in ToSet(up[f]) : SaveRequest(m)

EndOf(x, n) == n.kind = "END" /\ n.point.of = x
Over(x, s) == \E n \in ToSet(s) : EndOf(x, n)

\* The save is asked for, in progress or over, once.
SaveHolds ==
    /\ \A s \in {"save", "timed save"} : calls[s] <= MaxCalls[s]
    /\ calls["save"] = 0 /\ calls["timed save"] = 0 =>
          /\ \A f \in Federate : ~ AskingSave(f) /\ ~ Over(Save, down[f])
                                                 /\ ~ Over(Save, commands[f])
          /\ ~ IsPending(Save)
    /\ \A f \in Federate : Respects(up[f], OneSaveRequest)
    /\ \A f, g \in Federate : AskingSave(f) /\ AskingSave(g) => f = g
    /\ (\E f \in Federate : AskingSave(f)) => ~ IsPending(Save)
    /\ (\E f \in Federate : AskingSave(f)) \/ IsPending(Save) =>
          \A f \in Federate : ~ Over(Save, down[f]) /\ ~ Over(Save, commands[f])

\* The end of a restoration comes before the start of the next one.
EndsFirst ==
    {n \in Notice \X Notice :
        n[1].kind = "START" /\ n[1].point.of = Restore => ~ EndOf(Restore, n[2])}

RestoreHolds(f) ==
    /\ Respects(down[f], EndsFirst) /\ Respects(commands[f], EndsFirst)
    /\ Queued(f, Restore) => ~ Over(Restore, down[f])
    /\ Due(f, Restore) => ~ Over(Restore, down[f]) /\ ~ Over(Restore, commands[f])

Serves(f) == f \in members /\ rtia[f] \in {"joining", "member"}

\* f will answer for each point it owes, and its RTIA will pass the answer on.
AnswersHold(f) ==
    /\ \A p \in owed[f] :
          \/ Start(p) \in InTransit(f) \/ p \in duties[f] \/ Answering(f, p.of)
    /\ \A p \in duties[f] : RtiaAccepts(f, p.of)

\* No member is left waiting for an announce that does not come, nor with an answer
\* that its RTIA refuses (saveAndRestoreStatus), whoever leaves or is lost.
AwaitedInvariant ==
    /\ OnceInvariant /\ SaveHolds
    /\ \A f \in Federate : RestoreHolds(f) /\ (Serves(f) => AnswersHold(f))

-----------------------------------------------------------------------------
(* Nobody leaves. *)

NobodyLeaves == Mortal = {} /\ MaxCalls["resign"] = 0

\* A point in progress always has a member whose answer is awaited, and no federate
\* is leaving (remove and kill look at nothing again, Federation.cc).
OwedInvariant ==
    /\ \A f \in Federate :
          /\ rtia[f] \in {"out", "joining", "refused", "member"}
          /\ \A m \in ToSet(up[f]) : m.kind # "RESIGN"
    /\ PendingIsOwed
=============================================================================
