------------------------ MODULE FederationManagement ------------------------
(***************************************************************************)
(* Federation management of one CERTI federation: joining, resigning and     *)
(* being lost, synchronization points, and the save and the restoration of   *)
(* the federation.  The RTIG part is src/RTIG/Federation.cc and its          *)
(* MessageProcessor.cc, the RTIA part src/RTIA/FederationManagement.cc with  *)
(* the dispatch of RTIA_network.cc, RTIA_federate.cc and the command queue   *)
(* of Files.cc; the FOM has no management object model.                      *)
(*                                                                           *)
(* The three protocols have one shape.  A request starts a point: a label,   *)
(* the save or the restoration.  The RTIG notes which members owe an answer  *)
(* and tells them that it started; each federate answers; the last answer    *)
(* ends the point, and every member is told.  Points are numbered here so    *)
(* that the properties can tell one round from the next: the code compares   *)
(* labels and flags only, and so do the actions.  Callbacks that change      *)
(* nothing (confirmations, synchronizationPointRegistration..., restore      *)
(* request succeeded, restore begun, save begun) are left out.               *)
(***************************************************************************)
EXTENDS Integers, SequencesExt

CONSTANTS
    Federate,       \* the federates, one RTIA and one link each
    Founders,       \* those that have joined in the initial state
    Label,          \* the labels of synchronization points
    FederateSets,   \* the federate sets labels are registered on
    Savers,         \* the federates that request a save
    Restorers,      \* the federates that request a restoration
    Mortal,         \* the federates that may be lost
    MaxCalls,       \* bound: the calls of each service, all federates together
    MaxServices     \* bound: the services one behaviour makes use of, but for rejoining

Save == "save"
Restore == "restore"

Service == {"register", "resign", "rejoin", "save", "timed save", "restore"}

ASSUME ConstantsAssumption ==
    /\ Founders \subseteq Federate
    /\ Save \notin Label /\ Restore \notin Label
    /\ FederateSets \subseteq SUBSET Federate
    /\ MaxCalls \in [Service -> Nat] /\ MaxServices \in Nat

VARIABLES
    \* the RTIG: Federation and its Federates
    members,        \* my_federates
    unlinked,       \* members whose handle no link of the SocketServer refers to
    referenced,     \* the federates whose link has been given its references
    pending,        \* the labels pending, the save and the restoration in progress
    owed,           \* what each member has yet to answer
    my_save_status, my_restore_status,
    rtigUp,         \* the RTIG process runs
    \* the RTIAs: FederationManagement and Queues
    rtia,           \* the state of each RTIA
    my_synchronization_labels, my_is_saving, my_is_restoring,
    commands,       \* the callbacks waiting for tick
    \* the TCP streams from each RTIA to the RTIG and back
    up, down,
    \* the federates
    duties,         \* the points each was told of and has not answered
    waiting,        \* whether each waits for the end of a save or restoration
    calls,          \* how often each service has been called
    \* kept for the properties only
    round,          \* the number of points started
    failed          \* who has answered which point with a failure

rtigVars     == <<members, unlinked, referenced, pending, owed, my_save_status,
                  my_restore_status, rtigUp, round>>
rtiaVars     == <<rtia, my_synchronization_labels, my_is_saving, my_is_restoring>>
federateVars == <<duties, waiting, calls, failed>>
vars == <<rtigVars, rtiaVars, commands, up, down, federateVars>>

Point == [of : Label \cup {Save, Restore}, round : Nat]

Request ==
    [kind : {"JOIN", "RESIGN", "REGISTER", "REQUEST"}, of : Label \cup {Save, Restore},
     to : FederateSets \cup {Federate}, dated : BOOLEAN]
      \cup [kind : {"ANSWER"}, of : Label \cup {Save, Restore}, ok : BOOLEAN]

\* A START is an announcement or an initiate, an END a federation synchronized,
\* (not) saved or (not) restored; an EXCEPTION answers a request that expects no
\* answer.
Notice == [kind : {"START", "END"}, point : Point, ok : BOOLEAN]
            \cup [kind : {"JOINED", "JOIN_REFUSED", "RESIGNED", "EXCEPTION"}]

\* The members that have not answered for a label, the save or the restoration.
Owing(owing, x) == {f \in Federate : \E p \in owing[f] : p.of = x}

PendingPoint(x) == CHOOSE p \in pending \cup {[of |-> x, round |-> 0]} :
                     p.of = x /\ (p \in pending \/ \A q \in pending : q.of # x)

IsPending(x) == \E p \in pending : p.of = x

Answered(points, x) == {p \in points : p.of # x}

Start(p) == [kind |-> "START", point |-> p, ok |-> TRUE]

End(p, ok) == [kind |-> "END", point |-> p, ok |-> ok]

Exception == [kind |-> "EXCEPTION"]

\* A link that is closed is skipped.
Send(f, queue, m) == IF rtia[f] \in {"gone", "lost"} THEN queue ELSE Append(queue, m)

(***************************************************************************)
(* What the federates and their RTIAs do.                                    *)
(***************************************************************************)
Init ==
    /\ members = Founders
    /\ unlinked = {}
    /\ referenced = Founders
    /\ pending = {}
    /\ owed = [f \in Federate |-> {}]
    /\ my_save_status = TRUE /\ my_restore_status = TRUE
    /\ rtigUp = TRUE
    /\ rtia = [f \in Federate |-> IF f \in Founders THEN "member" ELSE "out"]
    /\ my_synchronization_labels = [f \in Federate |-> {}]
    /\ my_is_saving = [f \in Federate |-> FALSE]
    /\ my_is_restoring = [f \in Federate |-> FALSE]
    /\ commands = [f \in Federate |-> <<>>]
    /\ up = [f \in Federate |-> <<>>]
    /\ down = [f \in Federate |-> <<>>]
    /\ duties = [f \in Federate |-> {}]
    /\ waiting = [f \in Federate |-> FALSE]
    /\ calls = [s \in Service |-> 0]
    /\ round = 0
    /\ failed = {}

SendMessage(f, m) == up' = [up EXCEPT ![f] = Append(@, m)]

Ask(kind, x, S, dated) == [kind |-> kind, of |-> x, to |-> S, dated |-> dated]

Spend(service) ==
    /\ calls[service] < MaxCalls[service]
    /\ Cardinality({s \in Service : s # "rejoin" /\ (s = service \/ calls[s] > 0)})
         <= MaxServices
    /\ calls' = [calls EXCEPT ![service] = @ + 1]

\* saveAndRestoreStatus: what each kind of request is refused for.
CheckFederationSaving(f) == ~my_is_saving[f]
CheckFederationRestoring(f) == ~my_is_restoring[f]

\* join waits for its answer.  Only a federate that rejoins has been out before.
JoinFederationExecution(f) ==
    /\ \/ rtia[f] = "out" /\ UNCHANGED calls
       \/ rtia[f] = "resigned" /\ Spend("rejoin")
    /\ rtia' = [rtia EXCEPT ![f] = "joining"]
    /\ SendMessage(f, Ask("JOIN", Save, Federate, FALSE))
    /\ UNCHANGED <<rtigVars, my_synchronization_labels, my_is_saving, my_is_restoring,
                   commands, down, duties, waiting, failed>>

ResignFederationExecution(f) ==
    /\ rtia[f] = "member" /\ Spend("resign")
    /\ rtia' = [rtia EXCEPT ![f] = "resigning"]
    /\ SendMessage(f, Ask("RESIGN", Save, Federate, FALSE))
    /\ UNCHANGED <<rtigVars, my_synchronization_labels, my_is_saving, my_is_restoring,
                   commands, down, duties, waiting, failed>>

\* The label is noted whatever becomes of the registration.
RegisterSynchronization(f, label, S) ==
    /\ rtia[f] = "member" /\ Spend("register")
    /\ CheckFederationSaving(f) /\ CheckFederationRestoring(f)
    /\ label \notin my_synchronization_labels[f]
    /\ my_synchronization_labels' = [my_synchronization_labels EXCEPT ![f] = @ \cup {label}]
    /\ SendMessage(f, Ask("REGISTER", label, S, FALSE))
    /\ UNCHANGED <<rtigVars, rtia, my_is_saving, my_is_restoring, commands, down,
                   duties, waiting, failed>>

UnregisterSynchronization(f, p) ==
    /\ rtia[f] = "member"
    /\ CheckFederationSaving(f) /\ CheckFederationRestoring(f)
    /\ p \in duties[f] /\ p.of \in Label
    /\ p.of \in my_synchronization_labels[f]
    /\ my_synchronization_labels' = [my_synchronization_labels EXCEPT ![f] = @ \ {p.of}]
    /\ duties' = [duties EXCEPT ![f] = @ \ {p}]
    /\ SendMessage(f, [kind |-> "ANSWER", of |-> p.of, ok |-> TRUE])
    /\ UNCHANGED <<rtigVars, rtia, my_is_saving, my_is_restoring, commands, down,
                   waiting, calls, failed>>

\* The federate that asks for a save or a restoration waits for its end before it
\* asks for another.
RequestFederationSaveOrRestore(f, x, dated) ==
    /\ rtia[f] = "member" /\ ~waiting[f]
    /\ \/ x = Save /\ f \in Savers /\ Spend(IF dated THEN "timed save" ELSE "save")
       \/ x = Restore /\ f \in Restorers /\ Spend("restore") /\ ~dated
    /\ CheckFederationSaving(f) /\ CheckFederationRestoring(f)
    /\ waiting' = [waiting EXCEPT ![f] = TRUE]
    /\ SendMessage(f, Ask("REQUEST", x, Federate, dated))
    /\ UNCHANGED <<rtigVars, rtiaVars, commands, down, duties, failed>>

\* Mutant: a save is not over before the synchronizations are.
FederateSaveStatusLast(f, p, ok) ==
    /\ rtia[f] = "member"
    /\ p \in duties[f] /\ p.of = Save
    /\ my_synchronization_labels[f] = {} /\ my_is_saving[f] /\ CheckFederationRestoring(f)
    /\ duties' = [duties EXCEPT ![f] = @ \ {p}]
    /\ failed' = IF ok THEN failed ELSE failed \cup {[by |-> f, point |-> p]}
    /\ SendMessage(f, [kind |-> "ANSWER", of |-> Save, ok |-> ok])
    /\ UNCHANGED <<rtigVars, rtiaVars, commands, down, waiting, calls>>

\* federateSaveStatus: refused unless saving, and while restoring.
FederateSaveStatus(f, p, ok) ==
    /\ rtia[f] = "member"
    /\ p \in duties[f] /\ p.of = Save
    /\ my_is_saving[f] /\ CheckFederationRestoring(f)
    /\ duties' = [duties EXCEPT ![f] = @ \ {p}]
    /\ failed' = IF ok THEN failed ELSE failed \cup {[by |-> f, point |-> p]}
    /\ SendMessage(f, [kind |-> "ANSWER", of |-> Save, ok |-> ok])
    /\ UNCHANGED <<rtigVars, rtiaVars, commands, down, waiting, calls>>

FederateRestoreStatus(f, p, ok) ==
    /\ rtia[f] = "member"
    /\ p \in duties[f] /\ p.of = Restore
    /\ my_is_restoring[f] /\ CheckFederationSaving(f)
    /\ duties' = [duties EXCEPT ![f] = @ \ {p}]
    /\ failed' = IF ok THEN failed ELSE failed \cup {[by |-> f, point |-> p]}
    /\ SendMessage(f, [kind |-> "ANSWER", of |-> Restore, ok |-> ok])
    /\ UNCHANGED <<rtigVars, rtiaVars, commands, down, waiting, calls>>

\* Mutant: every callback is given before those that wait.
InsertCommandFirst(queue, m) == <<m>> \o queue

\* insertBeginCommand for the messages of a save, insertLastCommand for the others.
InsertCommand(queue, m) ==
    IF m.point.of = Save THEN <<m>> \o queue ELSE Append(queue, m)

\* processNetworkMessage: a notice is queued; an answer that no request waits for
\* is of no known type, and ends the RTIA, which resigns on its way out.
ProcessNetworkMessage(f) ==
    /\ rtia[f] = "member" /\ down[f] # <<>>
    /\ LET m == Head(down[f]) IN
       IF m.kind = "EXCEPTION"
         THEN /\ rtia' = [rtia EXCEPT ![f] = "ending"]
              /\ SendMessage(f, Ask("RESIGN", Save, Federate, FALSE))
              /\ UNCHANGED commands
         ELSE /\ commands' = [commands EXCEPT ![f] = InsertCommand(@, m)]
              /\ UNCHANGED <<rtia, up>>
    /\ down' = [down EXCEPT ![f] = Tail(@)]
    /\ UNCHANGED <<rtigVars, my_synchronization_labels, my_is_saving, my_is_restoring,
                   federateVars>>

\* What the RTIA is after the answer it waits for.
StateAfter(state, kind) ==
    CASE kind = "JOINED" -> "member"
      [] kind = "JOIN_REFUSED" -> "refused"
      [] kind = "RESIGNED" /\ state = "resigning" -> "resigned"
      [] OTHER -> "gone"

\* Mutant: what comes before the answer is not kept.
WaitMessageDrops(f) ==
    /\ rtia[f] \in {"joining", "resigning", "ending"}
    /\ \E i \in 1 .. Len(down[f]) :
         LET kind == down[f][i].kind IN
         /\ kind \in (IF rtia[f] = "joining" THEN {"JOINED", "JOIN_REFUSED"}
                                             ELSE {"RESIGNED"})
         /\ down' = [down EXCEPT ![f] = SubSeq(@, i + 1, Len(@))]
         /\ rtia' = [rtia EXCEPT ![f] = StateAfter(@, kind)]
    /\ UNCHANGED <<rtigVars, my_synchronization_labels, my_is_saving, my_is_restoring,
                   commands, up, federateVars>>

\* waitMessage: the answer is taken out of the stream, what came before it is kept.
WaitMessage(f) ==
    /\ rtia[f] \in {"joining", "resigning", "ending"}
    /\ \E i \in 1 .. Len(down[f]) :
         LET kind == down[f][i].kind IN
         /\ kind \in (IF rtia[f] = "joining" THEN {"JOINED", "JOIN_REFUSED"}
                                             ELSE {"RESIGNED"})
         /\ down' = [down EXCEPT ![f] = RemoveAt(@, i)]
         /\ rtia' = [rtia EXCEPT ![f] = StateAfter(@, kind)]
    /\ UNCHANGED <<rtigVars, my_synchronization_labels, my_is_saving, my_is_restoring,
                   commands, up, federateVars>>

\* tick: one command is given to the federate.
Tick(f) ==
    /\ rtia[f] = "member" /\ commands[f] # <<>>
    /\ LET m == Head(commands[f])
           p == m.point
           start == m.kind = "START"
       IN /\ my_synchronization_labels' = [my_synchronization_labels EXCEPT ![f] =
                IF start /\ p.of \in Label THEN @ \cup {p.of} ELSE @]
          /\ my_is_saving' = [my_is_saving EXCEPT ![f] = IF p.of = Save THEN start ELSE @]
          /\ my_is_restoring' = [my_is_restoring EXCEPT ![f] =
                IF p.of = Restore THEN start ELSE @]
          /\ duties' = [duties EXCEPT ![f] = IF start THEN @ \cup {p} ELSE @]
          /\ waiting' = [waiting EXCEPT ![f] = @ /\ (start \/ p.of \in Label)]
    /\ commands' = [commands EXCEPT ![f] = Tail(@)]
    /\ UNCHANGED <<rtigVars, rtia, up, down, calls, failed>>

\* The federate or its RTIA is lost, and what the RTIG had not read with it.
Die(f) ==
    /\ f \in Mortal /\ rtia[f] \in {"member", "joining", "resigning"}
    /\ rtia' = [rtia EXCEPT ![f] = "lost"]
    /\ \E k \in 0 .. Len(up[f]) : up' = [up EXCEPT ![f] = SubSeq(@, 1, k)]
    /\ UNCHANGED <<rtigVars, my_synchronization_labels, my_is_saving, my_is_restoring,
                   commands, down, federateVars>>

(***************************************************************************)
(* What the RTIG does with the head of a stream.                             *)
(***************************************************************************)
Serving(f, kind) ==
    /\ rtigUp /\ up[f] # <<>> /\ Head(up[f]).kind = kind
    /\ up' = [up EXCEPT ![f] = Tail(@)]
    /\ UNCHANGED <<rtiaVars, commands, federateVars>>

Reply(f, m) == down' = [down EXCEPT ![f] = Send(f, @, m)]

\* respondToSome
RespondToSome(S, m) ==
    down' = [g \in Federate |-> IF g \in S THEN Send(g, down[g], m) ELSE down[g]]

\* Mutant: the caller is not told.
RespondToOthers(f, m) ==
    IF unlinked = {} THEN RespondToSome(members \ {f}, m) ELSE Reply(f, Exception)

\* respondToAll: the link of every member is looked up before anything is sent.
RespondToAll(f, m) ==
    IF unlinked = {} THEN RespondToSome(members, m) ELSE Reply(f, Exception)

\* Mutant: the pending labels are announced but not noted.
AddFederateUnowed(f) ==
    /\ Serving(f, "JOIN")
    /\ IF f \in members
         THEN /\ Reply(f, [kind |-> "JOIN_REFUSED"])
              /\ UNCHANGED <<members, unlinked, referenced, owed>>
         ELSE LET points == {p \in pending : p.of \in Label}
                  announces == SetToSeq({Start(p) : p \in points})
              IN /\ members' = members \cup {f}
                 /\ UNCHANGED owed
                 /\ IF f \in referenced \/ unlinked # {}
                      THEN /\ unlinked' = unlinked \cup {f}
                           /\ Reply(f, [kind |-> "JOIN_REFUSED"])
                           /\ UNCHANGED referenced
                      ELSE /\ referenced' = referenced \cup {f}
                           /\ down' = [down EXCEPT ![f] =
                                Send(f, IF rtia[f] = "lost" THEN @ ELSE @ \o announces,
                                     [kind |-> "JOINED"])]
                           /\ UNCHANGED unlinked
    /\ UNCHANGED <<pending, my_save_status, my_restore_status, rtigUp, round>>

\* add: the federate is a member before its link is given its references, which
\* may be done only once.
AddFederate(f) ==
    /\ Serving(f, "JOIN")
    /\ IF f \in members
         THEN /\ Reply(f, [kind |-> "JOIN_REFUSED"])
              /\ UNCHANGED <<members, unlinked, referenced, owed>>
         ELSE LET points == {p \in pending : p.of \in Label}
                  announces == SetToSeq({Start(p) : p \in points})
              IN /\ members' = members \cup {f}
                 /\ owed' = [owed EXCEPT ![f] = points]
                 /\ IF f \in referenced \/ unlinked # {}
                      THEN /\ unlinked' = unlinked \cup {f}
                           /\ Reply(f, [kind |-> "JOIN_REFUSED"])
                           /\ UNCHANGED referenced
                      ELSE /\ referenced' = referenced \cup {f}
                           /\ down' = [down EXCEPT ![f] =
                                Send(f, IF rtia[f] = "lost" THEN @ ELSE @ \o announces,
                                     [kind |-> "JOINED"])]
                           /\ UNCHANGED unlinked
    /\ UNCHANGED <<pending, my_save_status, my_restore_status, rtigUp, round>>

\* Mutant: what the federate owed is kept.
RemoveFederateKeepsLabels(f) ==
    /\ Serving(f, "RESIGN")
    /\ IF f \in members
         THEN /\ members' = members \ {f}
              /\ UNCHANGED owed
              /\ Reply(f, [kind |-> "RESIGNED"])
         ELSE Reply(f, Exception) /\ UNCHANGED <<members, owed>>
    /\ UNCHANGED <<unlinked, referenced, pending, my_save_status, my_restore_status,
                   rtigUp, round>>

\* remove: nothing is looked at again without the federate that leaves.
RemoveFederate(f) ==
    /\ Serving(f, "RESIGN")
    /\ IF f \in members
         THEN /\ members' = members \ {f}
              /\ owed' = [owed EXCEPT ![f] = {}]
              /\ Reply(f, [kind |-> "RESIGNED"])
         ELSE Reply(f, Exception) /\ UNCHANGED <<members, owed>>
    /\ UNCHANGED <<unlinked, referenced, pending, my_save_status, my_restore_status,
                   rtigUp, round>>

\* kill, once the end of the stream of a lost federate is read, of the member that
\* the link refers to.
KillFederate(f) ==
    /\ rtigUp /\ rtia[f] = "lost" /\ up[f] = <<>> /\ f \in members \ unlinked
    /\ members' = members \ {f}
    /\ owed' = [owed EXCEPT ![f] = {}]
    /\ UNCHANGED <<unlinked, referenced, pending, my_save_status, my_restore_status,
                   rtigUp, round, rtiaVars, commands, up, down, federateVars>>

NewPoint(x) == [of |-> x, round |-> round + 1]

\* A label for every member.
RegisterForAll(f, label) ==
    /\ pending' = pending \cup {NewPoint(label)}
    /\ owed' = [g \in Federate |->
                  IF g \in members THEN owed[g] \cup {NewPoint(label)} ELSE owed[g]]
    /\ RespondToAll(f, Start(NewPoint(label)))
    /\ UNCHANGED rtigUp

\* A label for a set: for the caller too, unless the set is empty.  A caller that is
\* in the set is refused for having the label already, at the rank it has in the
\* list; a federate of the set that has left ends the RTIG with an exception that
\* nobody catches.
RegisterForSet(f, label, S) ==
    /\ pending' = pending \cup {NewPoint(label)}
    /\ LET Give(T) == owed' = [g \in Federate |->
                        IF g \in T THEN owed[g] \cup {NewPoint(label)} ELSE owed[g]]
       IN IF S = {}
            THEN Give({}) /\ UNCHANGED <<rtigUp, down>>
          ELSE IF f \notin S /\ S \subseteq members
            THEN /\ Give(S \cup {f})
                 /\ RespondToSome(S, Start(NewPoint(label)))
                 /\ UNCHANGED rtigUp
          ELSE \E T \in SUBSET ((S \cap members) \ {f}) :
                 /\ Give(T \cup {f})
                 /\ rtigUp' \in {r \in BOOLEAN : (r => f \in S)
                                   /\ (~r => S \ members # {})}
                 /\ UNCHANGED down

RegisterPoint(f) ==
    /\ Serving(f, "REGISTER")
    /\ LET label == Head(up[f]).of
           S == Head(up[f]).to
       IN IF f \notin members \/ IsPending(label)
            THEN UNCHANGED <<pending, owed, down, rtigUp, round>>
            ELSE /\ round' = round + 1
                 /\ IF S = Federate THEN RegisterForAll(f, label)
                                    ELSE RegisterForSet(f, label, S)
    /\ UNCHANGED <<members, unlinked, referenced, my_save_status, my_restore_status>>

\* synchronizationPointAchieved, federate (not) saved, federate (not) restored: the
\* last one to answer ends the point.
LabelAchieved(f) ==
    /\ Serving(f, "ANSWER") /\ Head(up[f]).of \in Label
    /\ LET label == Head(up[f]).of
           owing == [owed EXCEPT ![f] = Answered(@, label)]
       IN IF f \notin members \/ f \notin Owing(owed, label)
            THEN Reply(f, Exception) /\ UNCHANGED <<owed, pending>>
            ELSE /\ owed' = owing
                 /\ IF Owing(owing, label) = {}
                      THEN /\ pending' = Answered(pending, label)
                           /\ RespondToAll(f, End(PendingPoint(label), TRUE))
                      ELSE UNCHANGED <<pending, down>>
    /\ UNCHANGED <<members, unlinked, referenced, my_save_status, my_restore_status,
                   rtigUp, round>>

\* Mutant: a save that failed is not over.
SaveStatusStuck(f) ==
    /\ Serving(f, "ANSWER") /\ Head(up[f]).of = Save
    /\ LET owing == [owed EXCEPT ![f] = Answered(@, Save)]
           status == my_save_status /\ Head(up[f]).ok
       IN IF f \notin members
            THEN Reply(f, Exception) /\ UNCHANGED <<owed, pending, my_save_status>>
          ELSE IF Owing(owing, Save) # {}
            THEN owed' = owing /\ my_save_status' = status /\ UNCHANGED <<pending, down>>
          ELSE \E written \in BOOLEAN :
                 /\ owed' = owing
                 /\ RespondToAll(f, End(PendingPoint(Save), status /\ written))
                 /\ IF unlinked = {}
                      THEN /\ pending' = IF status THEN Answered(pending, Save) ELSE pending
                           /\ my_save_status' = TRUE
                      ELSE my_save_status' = (status /\ written) /\ UNCHANGED pending
    /\ UNCHANGED <<members, unlinked, referenced, my_restore_status, rtigUp, round>>

\* saveXmlData may fail, and then the federation is not saved.
SaveStatus(f) ==
    /\ Serving(f, "ANSWER") /\ Head(up[f]).of = Save
    /\ LET owing == [owed EXCEPT ![f] = Answered(@, Save)]
           status == my_save_status /\ Head(up[f]).ok
       IN IF f \notin members
            THEN Reply(f, Exception) /\ UNCHANGED <<owed, pending, my_save_status>>
          ELSE IF Owing(owing, Save) # {}
            THEN owed' = owing /\ my_save_status' = status /\ UNCHANGED <<pending, down>>
          ELSE \E written \in BOOLEAN :
                 /\ owed' = owing
                 /\ RespondToAll(f, End(PendingPoint(Save), status /\ written))
                 /\ IF unlinked = {}
                      THEN /\ pending' = Answered(pending, Save)
                           /\ my_save_status' = TRUE
                      ELSE my_save_status' = (status /\ written) /\ UNCHANGED pending
    /\ UNCHANGED <<members, unlinked, referenced, my_restore_status, rtigUp, round>>

RestoreStatus(f) ==
    /\ Serving(f, "ANSWER") /\ Head(up[f]).of = Restore
    /\ LET owing == [owed EXCEPT ![f] = Answered(@, Restore)]
           status == my_restore_status /\ Head(up[f]).ok
       IN IF f \notin members
            THEN Reply(f, Exception) /\ UNCHANGED <<owed, pending, my_restore_status>>
          ELSE IF Owing(owing, Restore) # {}
            THEN owed' = owing /\ my_restore_status' = status /\ UNCHANGED <<pending, down>>
          ELSE /\ owed' = owing
               /\ RespondToAll(f, End(PendingPoint(Restore), status))
               /\ IF unlinked = {}
                    THEN /\ pending' = Answered(pending, Restore)
                         /\ my_restore_status' = TRUE
                    ELSE my_restore_status' = status /\ UNCHANGED pending
    /\ UNCHANGED <<members, unlinked, referenced, my_save_status, rtigUp, round>>

\* requestFederationSave and requestFederationRestore look at their own flag only.
\* The timed save adds the broadcast to its responses twice, the second time empty,
\* and the RTIG dies when it comes to send that.
SaveOrRestore(f) ==
    /\ Serving(f, "REQUEST")
    /\ LET x == Head(up[f]).of IN
       IF f \notin members \/ IsPending(x)
         THEN /\ Reply(f, Exception)
              /\ UNCHANGED <<pending, owed, my_save_status, my_restore_status, rtigUp,
                             round>>
         ELSE /\ round' = round + 1
              /\ pending' = pending \cup {NewPoint(x)}
              /\ owed' = [g \in Federate |->
                   IF g \in members THEN owed[g] \cup {NewPoint(x)} ELSE owed[g]]
              /\ my_save_status' = (my_save_status \/ x = Save)
              /\ my_restore_status' = (my_restore_status \/ x = Restore)
              /\ RespondToAll(f, Start(NewPoint(x)))
              /\ rtigUp' = ~(Head(up[f]).dated /\ unlinked = {})
    /\ UNCHANGED <<members, unlinked, referenced>>

RtiaStep(f) ==
    \/ JoinFederationExecution(f)
    \/ ResignFederationExecution(f)
    \/ \E label \in Label, S \in FederateSets \cup {Federate} :
         RegisterSynchronization(f, label, S)
    \/ \E p \in duties[f] : UnregisterSynchronization(f, p)
    \/ \E x \in {Save, Restore}, dated \in BOOLEAN :
         RequestFederationSaveOrRestore(f, x, dated)
    \/ \E p \in duties[f], ok \in BOOLEAN :
         FederateSaveStatus(f, p, ok) \/ FederateRestoreStatus(f, p, ok)
    \/ ProcessNetworkMessage(f)
    \/ WaitMessage(f)
    \/ Tick(f)
    \/ Die(f)

RtigStep(f) ==
    \/ AddFederate(f) \/ RemoveFederate(f) \/ KillFederate(f)
    \/ RegisterPoint(f) \/ LabelAchieved(f)
    \/ SaveOrRestore(f) \/ SaveStatus(f) \/ RestoreStatus(f)

Next == \E f \in Federate : RtiaStep(f) \/ RtigStep(f)

Spec == Init /\ [][Next]_vars

(***************************************************************************)
(* A federate that is told of a point answers for it, and ticks; RTIGs and   *)
(* RTIAs read what reaches them.                                             *)
(***************************************************************************)
Fairness ==
    \A f \in Federate :
        /\ WF_vars(RtigStep(f))
        /\ WF_vars(JoinFederationExecution(f))
        /\ WF_vars(ProcessNetworkMessage(f))
        /\ WF_vars(WaitMessage(f))
        /\ WF_vars(Tick(f))
        /\ WF_vars(\E p \in duties[f] : UnregisterSynchronization(f, p))
        /\ WF_vars(\E p \in duties[f], ok \in BOOLEAN : FederateSaveStatus(f, p, ok))
        /\ WF_vars(\E p \in duties[f], ok \in BOOLEAN : FederateRestoreStatus(f, p, ok))

FairSpec == Spec /\ Fairness

(***************************************************************************)
(* Properties.                                                               *)
(***************************************************************************)
InTransit(f) == ToSet(down[f]) \cup ToSet(commands[f])

\* What the variables hold.  At most one point is pending for a label, the save and
\* the restoration, only members owe answers, and only for pending points
\* (Federation::my_synchronization_labels, Federate::my_syncLabels, isSaving).
TypeOK ==
    /\ members \subseteq Federate /\ unlinked \subseteq members
    /\ referenced \subseteq Federate
    /\ pending \subseteq Point
    /\ \A p, q \in pending : p.of = q.of => p = q
    /\ owed \in [Federate -> SUBSET pending]
    /\ \A f \in Federate \ members : owed[f] = {}
    /\ my_save_status \in BOOLEAN /\ my_restore_status \in BOOLEAN
    /\ rtigUp \in BOOLEAN
    /\ rtia \in [Federate -> {"out", "joining", "member", "refused", "resigning",
                              "resigned", "ending", "gone", "lost"}]
    /\ my_synchronization_labels \in [Federate -> SUBSET Label]
    /\ my_is_saving \in [Federate -> BOOLEAN]
    /\ my_is_restoring \in [Federate -> BOOLEAN]
    /\ up \in [Federate -> Seq(Request)]
    /\ down \in [Federate -> Seq(Notice)]
    /\ commands \in [Federate -> Seq({m \in Notice : m.kind \in {"START", "END"}})]
    /\ duties \in [Federate -> SUBSET Point]
    /\ waiting \in [Federate -> BOOLEAN]
    /\ calls \in [Service -> Nat]
    /\ round \in Nat
    /\ failed \subseteq [by : Federate, point : Point]

\* When anyone is told that a point is over (unregisterSynchronization,
\* federateSaveStatus, federateRestoreStatus), every member that was told of it has
\* answered, late joiners included (but for a federate that joined twice on one
\* link, which is never told of anything); and a success is reported only of a point that
\* nobody has answered with a failure, as long as its answer was not lost with it.
EndsTogether ==
    \A f \in Federate : \A m \in InTransit(f) :
        m.kind = "END" =>
            /\ m.ok => \A x \in failed : x.point = m.point => rtia[x.by] = "lost"
            /\ \A g \in members \ unlinked :
                 /\ m.point \notin duties[g]
                 /\ Start(m.point) \notin InTransit(g)

\* The RTIG answers no request of a federate that follows the protocol with an
\* exception, which would end its RTIA (processNetworkMessage knows no such type),
\* unless a federate has joined twice on one link.
NoStrayAnswer ==
    \A f \in Federate : Exception \in ToSet(down[f]) => unlinked # {}

\* What the RTIA of a federate needs to know to pass its answer on.
RtiaAccepts(f, x) ==
    CASE x = Save    -> my_is_saving[f]
      [] x = Restore -> my_is_restoring[f]
      [] OTHER       -> x \in my_synchronization_labels[f]

\* The RTIG waits only for an answer that can come: it is on its way, or the
\* federate is about to be told, or it has been told and its RTIA will accept it.
AwaitedCanAnswer ==
    \A f \in members : \A p \in owed[f] :
        \/ Start(p) \in InTransit(f)
        \/ p \in duties[f] /\ RtiaAccepts(f, p.of)
        \/ \E m \in ToSet(up[f]) : m.kind = "ANSWER" /\ m.of = p.of
        \/ rtia[f] # "member"

\* A point that is pending is owed by a member, whose answer will end it.
PendingIsOwed == \A p \in pending : \E f \in members : p \in owed[f]

\* Every synchronization, save and restoration comes to its end.
Resolved ==
    \A x \in Label \cup {Save, Restore} : IsPending(x) ~> ~IsPending(x)

\* A federate that waits for the end of the save or the restoration it has asked for
\* is told of it.
RequesterIsTold == \A f \in Federate : waiting[f] ~> ~waiting[f]
=============================================================================
