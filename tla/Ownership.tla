----------------------------- MODULE Ownership -----------------------------
(***************************************************************************)
(* Ownership management of the attributes of one object instance: the        *)
(* requests of the federates (src/RTIA/OwnershipManagement.cc), the RTIG     *)
(* that serves them (src/RTIG/Federation.cc, libCERTI ObjectClass.cc,        *)
(* ObjectAttribute.cc, ObjectSet.cc and Object.cc), the callbacks it sends   *)
(* to the federates concerned, and what the resignation or the loss of a     *)
(* federate does to the attributes it owns or is a candidate for.            *)
(*                                                                           *)
(* A request is synchronous: the federate and its RTIA wait for the reply.   *)
(* The RTIG serves one request at a time and writes its callbacks before the *)
(* reply; a federate is given them, in order, when it calls tick.            *)
(***************************************************************************)
EXTENDS Integers, Sequences

CONSTANTS
    Federate,          \* the federate handles, all joined
    Attribute,         \* the attributes of the class of the object
    PrivilegeToDelete, \* the one that every class inherits from the root
    Creator,           \* the federate that registered the object
    Publishes,         \* the attributes that each federate publishes
    Services,          \* the services the federates of an instance call
    Lists,             \* the attribute lists they call them with
    Mortal,            \* the federates that may be lost
    MaxRequests        \* bound: the requests of all the federates together

ASSUME FederateAssumption == Federate \subseteq Nat \ {0} /\ Creator \in Federate
ASSUME AttributeAssumption ==
    /\ PrivilegeToDelete \in Attribute
    /\ Publishes \in [Federate -> SUBSET Attribute]
    /\ Publishes[Creator] # {}
    /\ Lists \subseteq (SUBSET Attribute) \ {{}}
    /\ MaxRequests \in Nat

NoOwner == 0

VARIABLES
    \* the RTIG
    exists,         \* the object is registered
    objectOwner,    \* Object::Owner, who may delete the object
    owner,          \* ObjectAttribute::owner of each attribute
    divesting,      \* ObjectAttribute::divesting
    candidates,     \* ObjectAttribute::ownerCandidates
    members,        \* the federates that have joined and not resigned
    rtigUp,         \* the RTIG process runs
    \* the federates and their RTIAs
    link,           \* whether each is still there
    request, reply, \* the service each waits for, and its answer
    callbacks,      \* the callbacks sent to each and not delivered
    requests,       \* how much of MaxRequests is used
    \* kept for the properties only
    believes,       \* what each federate takes itself for the owner of
    wants,          \* what each waits to acquire
    doubt           \* the attributes of a divestiture answered by an error

attributeVars == <<owner, divesting, candidates, objectOwner>>
federateVars  == <<link, request, requests, believes, wants>>
vars == <<attributeVars, exists, members, rtigUp, reply, callbacks,
          federateVars, doubt>>

(***************************************************************************)
(* Messages.                                                                 *)
(***************************************************************************)
AcquiringServices == {"acquisition", "acquisitionIfAvailable"}

GivingServices == {"unconditionalDivestiture", "releaseResponse"}

AttributeServices ==
    AcquiringServices \cup GivingServices
      \cup {"negotiatedDivestiture", "cancelDivestiture", "cancelAcquisition",
            "query"}

Request == [service : AttributeServices \cup {"none", "delete", "resign"},
            attributes : SUBSET Attribute]

NoRequest == [service |-> "none", attributes |-> {}]

Callback ==
    [kind : {"acquired", "unavailable", "release", "divested", "cancelled",
             "informed", "unowned"},
     attributes : SUBSET Attribute]

\* One message for the attributes of S, none when there are none.
Batch(kind, S) ==
    IF S = {} THEN <<>> ELSE <<[kind |-> kind, attributes |-> S]>>

\* sendToFederate: a send to a federate whose link is closed is ignored.
SendToFederate(f, queue, kind, S) ==
    IF link[f] = "open" THEN queue \o Batch(kind, S) ELSE queue

(***************************************************************************)
(* What the federates do.  They give away only what they own, as far as they *)
(* know, and ask only for what they do not.                                  *)
(***************************************************************************)
Init ==
    /\ exists = TRUE
    /\ objectOwner = Creator
    /\ owner = [a \in Attribute |->
                  IF a \in Publishes[Creator] \/ a = PrivilegeToDelete
                    THEN Creator ELSE NoOwner]
    /\ divesting = [a \in Attribute |-> FALSE]
    /\ candidates = [a \in Attribute |-> {}]
    /\ members = Federate
    /\ rtigUp = TRUE
    /\ link = [f \in Federate |-> "open"]
    /\ request = [f \in Federate |-> NoRequest]
    /\ reply = [f \in Federate |-> "none"]
    /\ callbacks = [f \in Federate |-> <<>>]
    /\ requests = 0
    /\ believes = [f \in Federate |-> {a \in Attribute : owner[a] = f}]
    /\ wants = [f \in Federate |-> {}]
    /\ doubt = {}

Idle(f) == link[f] = "open" /\ request[f] = NoRequest

Call(f, service, S) ==
    /\ Idle(f) /\ service \in Services
    /\ requests < MaxRequests
    /\ requests' = requests + 1
    /\ request' = [request EXCEPT ![f] = [service |-> service, attributes |-> S]]
    /\ UNCHANGED <<attributeVars, exists, members, rtigUp, reply, callbacks, link,
                   wants, doubt>>

\* The federate stops using what it gives before it calls the service.
Give(f) ==
    \E service \in GivingServices, S \in Lists :
        /\ S \subseteq believes[f]
        /\ Call(f, service, S)
        /\ believes' = [believes EXCEPT ![f] = @ \ S]

Offer(f) ==
    \E service \in {"negotiatedDivestiture", "cancelDivestiture"}, S \in Lists :
        /\ S \subseteq believes[f]
        /\ Call(f, service, S)
        /\ UNCHANGED believes

Acquire(f) ==
    \E service \in AcquiringServices \cup {"cancelAcquisition"}, S \in Lists :
        /\ S \cap believes[f] = {}
        /\ Call(f, service, S)
        /\ UNCHANGED believes

Query(f) ==
    \E a \in Attribute :
        {a} \in Lists /\ Call(f, "query", {a}) /\ UNCHANGED believes

Leave(f) ==
    \E service \in {"delete", "resign"} :
        Call(f, service, {}) /\ UNCHANGED believes

\* The reply ends the call.  A federate that is refused keeps what it has.
Return(f) ==
    /\ link[f] = "open" /\ reply[f] # "none"
    /\ LET q == request[f] IN
       /\ believes' = [believes EXCEPT ![f] =
             IF reply[f] = "refused" /\ q.service \in GivingServices
               THEN @ \cup q.attributes ELSE @]
       /\ wants' = [wants EXCEPT ![f] =
             IF reply[f] = "ok" /\ q.service \in AcquiringServices
               THEN @ \cup q.attributes ELSE @]
       /\ link' = [link EXCEPT ![f] =
             IF reply[f] = "ok" /\ q.service = "resign" THEN "resigned" ELSE @]
    /\ request' = [request EXCEPT ![f] = NoRequest]
    /\ reply' = [reply EXCEPT ![f] = "none"]
    /\ UNCHANGED <<attributeVars, exists, members, rtigUp, callbacks, requests, doubt>>

\* tick: the RTIA gives the oldest callback to its federate.
Deliver(f) ==
    /\ Idle(f) /\ callbacks[f] # <<>>
    /\ LET m == Head(callbacks[f]) IN
       /\ believes' = [believes EXCEPT ![f] =
             IF m.kind = "acquired" THEN @ \cup m.attributes
             ELSE IF m.kind = "divested" THEN @ \ m.attributes ELSE @]
       /\ wants' = [wants EXCEPT ![f] =
             IF m.kind \in {"acquired", "unavailable", "cancelled"}
               THEN @ \ m.attributes ELSE @]
    /\ callbacks' = [callbacks EXCEPT ![f] = Tail(@)]
    /\ UNCHANGED <<attributeVars, exists, members, rtigUp, link, request, reply,
                   requests, doubt>>

\* The federate, or its RTIA, is lost; the RTIG does not know it yet.
Die(f) ==
    /\ f \in Mortal /\ link[f] # "lost"
    /\ link' = [link EXCEPT ![f] = "lost"]
    /\ UNCHANGED <<attributeVars, exists, members, rtigUp, reply, callbacks, request,
                   requests, believes, wants, doubt>>

(***************************************************************************)
(* What the RTIG does with a request.                                        *)
(***************************************************************************)
Serving(f, service) ==
    /\ rtigUp
    /\ request[f].service = service /\ reply[f] = "none"

Answer(f, answer) == reply' = [reply EXCEPT ![f] = answer]

\* An exception goes back to the caller as the reply.
Refuse(f) ==
    /\ Answer(f, "refused")
    /\ UNCHANGED <<attributeVars, callbacks, exists, members, rtigUp, doubt>>

\* check and getObject: the caller is a member and the object exists.
Known(f) == f \in members /\ exists

IsFederatePublisher(f) == Publishes[f] # {}

MayPublish(f, a) == a \in Publishes[f] \/ a = PrivilegeToDelete

\* Mutant: the state of the attribute is not looked at.
AvailableAnyway(S) == S

\* Attributes nobody owns, or that their owner offers.
Available(S) == {a \in S : owner[a] = NoOwner \/ divesting[a]}

Owns(f, S) == \A a \in S : owner[a] = f

\* ownerCandidates is ordered by handle: the first one is the smallest.
GetFirstCandidate(a) ==
    CHOOSE f \in candidates[a] : \A g \in candidates[a] : f <= g

HasCandidates(S) == {a \in S : candidates[a] # {}}

\* Mutant: the handover empties the list of candidates.
HandOverClears(S) ==
    /\ owner' = [a \in Attribute |->
                   IF a \in S THEN GetFirstCandidate(a) ELSE owner[a]]
    /\ candidates' = [a \in Attribute |-> IF a \in S THEN {} ELSE candidates[a]]
    /\ objectOwner' = IF PrivilegeToDelete \in S
                        THEN GetFirstCandidate(PrivilegeToDelete) ELSE objectOwner

\* Mutant: the handover forgets that the object follows privilegeToDelete.
HandOverAttributes(S) ==
    /\ owner' = [a \in Attribute |->
                   IF a \in S THEN GetFirstCandidate(a) ELSE owner[a]]
    /\ candidates' = [a \in Attribute |->
                   IF a \in S THEN candidates[a] \ {GetFirstCandidate(a)}
                              ELSE candidates[a]]
    /\ UNCHANGED objectOwner

\* Attributes that have candidates go to the first of them.
HandOver(S) ==
    /\ owner' = [a \in Attribute |->
                   IF a \in S THEN GetFirstCandidate(a) ELSE owner[a]]
    /\ candidates' = [a \in Attribute |->
                   IF a \in S THEN candidates[a] \ {GetFirstCandidate(a)}
                              ELSE candidates[a]]
    /\ objectOwner' = IF PrivilegeToDelete \in S
                        THEN GetFirstCandidate(PrivilegeToDelete) ELSE objectOwner

\* Mutant: the notification goes to the candidate that came last in the list.
HandedToLast(f, S) == {a \in S : f \in candidates[a]
                                   /\ \A g \in candidates[a] : g <= f}

HandedTo(f, S) == {a \in S : GetFirstCandidate(a) = f}

\* sendToOwners, with the acquisition notifications.
SendToNewOwners(S) ==
    callbacks' = [f \in Federate |->
                    SendToFederate(f, callbacks[f], "acquired", HandedTo(f, S))]

\* A federate becomes the owner of available attributes.
TakeOver(f, S) ==
    /\ owner' = [a \in Attribute |-> IF a \in S THEN f ELSE owner[a]]
    /\ divesting' = [a \in Attribute |-> divesting[a] /\ a \notin S]
    /\ objectOwner' = IF PrivilegeToDelete \in S THEN f ELSE objectOwner

DivestedOf(f, S) == {a \in S : divesting[a] /\ owner[a] = f}

AttributeOwnershipAcquisition(f) ==
    /\ Serving(f, "acquisition")
    /\ LET S == request[f].attributes
           taken == Available(S)
           asked == S \ taken
       IN IF /\ Known(f) /\ IsFederatePublisher(f)
             /\ \A a \in S : owner[a] # f /\ MayPublish(f, a)
            THEN /\ TakeOver(f, taken)
                 /\ candidates' = [a \in Attribute |->
                        IF a \in taken THEN candidates[a] \ {f}
                        ELSE IF a \in asked THEN candidates[a] \cup {f}
                        ELSE candidates[a]]
                 /\ callbacks' = [g \in Federate |->
                        SendToFederate(g,
                          SendToFederate(g,
                            SendToFederate(g, callbacks[g], "acquired",
                                           IF g = f THEN taken ELSE {}),
                            "divested", DivestedOf(g, taken)),
                          "release", {a \in asked : owner[a] = g})]
                 /\ Answer(f, "ok")
                 /\ UNCHANGED <<exists, members, rtigUp, doubt>>
            ELSE Refuse(f)
    /\ UNCHANGED federateVars

\* The caller of an unavailable attribute becomes a candidate all the same.
AttributeOwnershipAcquisitionIfAvailable(f) ==
    /\ Serving(f, "acquisitionIfAvailable")
    /\ LET S == request[f].attributes
           taken == Available(S)
           missed == S \ taken
       IN IF /\ Known(f) /\ IsFederatePublisher(f)
             /\ \A a \in S : /\ MayPublish(f, a)
                             /\ owner[a] # f /\ f \notin candidates[a]
            THEN /\ TakeOver(f, taken)
                 /\ candidates' = [a \in Attribute |->
                        IF a \in missed THEN candidates[a] \cup {f}
                        ELSE candidates[a]]
                 /\ callbacks' = [g \in Federate |->
                        SendToFederate(g,
                          SendToFederate(g,
                            SendToFederate(g, callbacks[g], "acquired",
                                           IF g = f THEN taken ELSE {}),
                            "divested", DivestedOf(g, taken)),
                          "unavailable", IF g = f THEN missed ELSE {})]
                 /\ Answer(f, "ok")
                 /\ UNCHANGED <<exists, members, rtigUp, doubt>>
            ELSE Refuse(f)
    /\ UNCHANGED federateVars

\* The broadcast list refuses a message of this type: when an attribute has no
\* candidate the handler is left there, the changes made, nobody told, and the
\* caller is answered an internal error.
UnconditionalAttributeOwnershipDivestiture(f) ==
    /\ Serving(f, "unconditionalDivestiture")
    /\ LET S == request[f].attributes
           given == HasCandidates(S)
           freed == S \ given
       IN IF Known(f) /\ Owns(f, S)
            THEN /\ owner' = [a \in Attribute |->
                        IF a \in given THEN GetFirstCandidate(a)
                        ELSE IF a \in freed THEN NoOwner ELSE owner[a]]
                 /\ candidates' = [a \in Attribute |->
                        IF a \in given THEN candidates[a] \ {GetFirstCandidate(a)}
                                       ELSE candidates[a]]
                 /\ objectOwner' = IF PrivilegeToDelete \in given
                        THEN GetFirstCandidate(PrivilegeToDelete) ELSE objectOwner
                 /\ divesting' = [a \in Attribute |-> divesting[a] /\ a \notin S]
                 /\ IF freed # {}
                      THEN /\ Answer(f, "refused")
                           /\ doubt' = doubt \cup S
                           /\ UNCHANGED callbacks
                      ELSE /\ Answer(f, "ok")
                           /\ SendToNewOwners(given)
                           /\ UNCHANGED doubt
                 /\ UNCHANGED <<exists, members, rtigUp>>
            ELSE Refuse(f)
    /\ UNCHANGED federateVars

\* The broadcast of the offer reads the message of another type, or no message
\* at all, through a null pointer: the RTIG dies once the handover is done.
NegotiatedAttributeOwnershipDivestiture(f) ==
    /\ Serving(f, "negotiatedDivestiture")
    /\ LET S == request[f].attributes
           given == HasCandidates(S)
       IN IF Known(f) /\ Owns(f, S) /\ \A a \in S : ~divesting[a]
            THEN /\ HandOver(given)
                 /\ divesting' = [a \in Attribute |->
                        IF a \in S THEN a \notin given ELSE divesting[a]]
                 /\ callbacks' = [g \in Federate |->
                        SendToFederate(g,
                          SendToFederate(g, callbacks[g], "acquired",
                                         HandedTo(g, given)),
                          "divested", IF g = f THEN given ELSE {})]
                 /\ rtigUp' = FALSE
                 /\ UNCHANGED <<exists, members, reply, doubt>>
            ELSE Refuse(f)
    /\ UNCHANGED federateVars

CancelNegotiatedAttributeOwnershipDivestiture(f) ==
    /\ Serving(f, "cancelDivestiture")
    /\ LET S == request[f].attributes IN
       IF Known(f) /\ Owns(f, S) /\ \A a \in S : divesting[a]
         THEN /\ divesting' = [a \in Attribute |-> divesting[a] /\ a \notin S]
              /\ Answer(f, "ok")
              /\ UNCHANGED <<owner, candidates, objectOwner, callbacks, exists,
                             members, rtigUp, doubt>>
         ELSE Refuse(f)
    /\ UNCHANGED federateVars

AttributeOwnershipReleaseResponse(f) ==
    /\ Serving(f, "releaseResponse")
    /\ LET S == request[f].attributes IN
       IF Known(f) /\ Owns(f, S) /\ HasCandidates(S) = S
         THEN /\ HandOver(S)
              /\ divesting' = [a \in Attribute |-> divesting[a] /\ a \notin S]
              /\ SendToNewOwners(S)
              /\ Answer(f, "ok")
              /\ UNCHANGED <<exists, members, rtigUp, doubt>>
         ELSE Refuse(f)
    /\ UNCHANGED federateVars

CancelAttributeOwnershipAcquisition(f) ==
    /\ Serving(f, "cancelAcquisition")
    /\ LET S == request[f].attributes IN
       IF Known(f) /\ \A a \in S : owner[a] # f /\ f \in candidates[a]
         THEN /\ candidates' = [a \in Attribute |->
                   IF a \in S THEN candidates[a] \ {f} ELSE candidates[a]]
              /\ callbacks' = [callbacks EXCEPT ![f] =
                   SendToFederate(f, @, "cancelled", S)]
              /\ Answer(f, "ok")
              /\ UNCHANGED <<owner, divesting, objectOwner, exists, members, rtigUp,
                             doubt>>
         ELSE Refuse(f)
    /\ UNCHANGED federateVars

QueryAttributeOwnership(f) ==
    /\ Serving(f, "query")
    /\ LET S == request[f].attributes
           free == {a \in S : owner[a] = NoOwner}
       IN IF Known(f)
            THEN /\ callbacks' = [callbacks EXCEPT ![f] =
                      SendToFederate(f, SendToFederate(f, @, "informed", S \ free),
                                     "unowned", free)]
                 /\ Answer(f, "ok")
                 /\ UNCHANGED <<attributeVars, exists, members, rtigUp, doubt>>
            ELSE Refuse(f)
    /\ UNCHANGED federateVars

\* deleteObject looks at Object::Owner, not at the owner of the attribute.  The
\* removals it sends are in Objects; callbacks holds those about ownership only.
DeleteObject(f) ==
    /\ Serving(f, "delete")
    /\ IF Known(f) /\ objectOwner = f
         THEN /\ exists' = FALSE
              /\ Answer(f, "ok")
              /\ UNCHANGED <<attributeVars, callbacks, members, rtigUp, doubt>>
         ELSE Refuse(f)
    /\ UNCHANGED federateVars

\* remove: the attributes of a federate that resigns stay its own.
Resign(f) ==
    /\ Serving(f, "resign")
    /\ IF f \in members
         THEN /\ members' = members \ {f}
              /\ Answer(f, "ok")
              /\ UNCHANGED <<attributeVars, callbacks, exists, rtigUp, doubt>>
         ELSE Refuse(f)
    /\ UNCHANGED federateVars

\* Mutant: the killed federate is erased from Object::Owner too, the object kept.
KillFederateKeepsObject(f) ==
    /\ rtigUp /\ link[f] = "lost" /\ f \in members
    /\ members' = members \ {f}
    /\ objectOwner' = IF objectOwner = f THEN NoOwner ELSE objectOwner
    /\ owner' = [a \in Attribute |-> IF owner[a] = f THEN NoOwner ELSE owner[a]]
    /\ UNCHANGED <<exists, divesting, candidates, rtigUp, reply, callbacks,
                   federateVars, doubt>>

\* The RTIG reads the end of the stream of a lost federate: its object is
\* deleted, or its attributes become free; it stays a candidate.
KillFederate(f) ==
    /\ rtigUp /\ link[f] = "lost" /\ f \in members
    /\ members' = members \ {f}
    /\ exists' = (exists /\ objectOwner # f)
    /\ owner' = [a \in Attribute |->
                   IF owner[a] = f /\ exists' THEN NoOwner ELSE owner[a]]
    /\ UNCHANGED <<divesting, candidates, objectOwner, rtigUp, reply, callbacks,
                   federateVars, doubt>>

FederateStep(f) ==
    \/ Give(f) \/ Offer(f) \/ Acquire(f) \/ Query(f) \/ Leave(f)
    \/ Return(f) \/ Deliver(f) \/ Die(f)

RtigStep(f) ==
    \/ AttributeOwnershipAcquisition(f)
    \/ AttributeOwnershipAcquisitionIfAvailable(f)
    \/ UnconditionalAttributeOwnershipDivestiture(f)
    \/ NegotiatedAttributeOwnershipDivestiture(f)
    \/ CancelNegotiatedAttributeOwnershipDivestiture(f)
    \/ AttributeOwnershipReleaseResponse(f)
    \/ CancelAttributeOwnershipAcquisition(f)
    \/ QueryAttributeOwnership(f)
    \/ DeleteObject(f)
    \/ Resign(f)
    \/ KillFederate(f)

Next == \E f \in Federate : FederateStep(f) \/ RtigStep(f)

Spec == Init /\ [][Next]_vars

(***************************************************************************)
(* Properties.                                                               *)
(***************************************************************************)
\* What the variables hold; the owner of the object is always a federate
\* (Object::setOwner, ObjectSet::killFederate).
TypeOK ==
    /\ exists \in BOOLEAN /\ rtigUp \in BOOLEAN
    /\ objectOwner \in Federate
    /\ owner \in [Attribute -> Federate \cup {NoOwner}]
    /\ divesting \in [Attribute -> BOOLEAN]
    /\ candidates \in [Attribute -> SUBSET Federate]
    /\ members \subseteq Federate
    /\ link \in [Federate -> {"open", "resigned", "lost"}]
    /\ request \in [Federate -> Request]
    /\ reply \in [Federate -> {"none", "ok", "refused"}]
    /\ callbacks \in [Federate -> Seq(Callback)]
    /\ requests \in 0 .. MaxRequests
    /\ believes \in [Federate -> SUBSET Attribute]
    /\ wants \in [Federate -> SUBSET Attribute]
    /\ doubt \subseteq Attribute

\* The attributes of the callbacks of one kind that a federate will be given.
InFlight(f, kind) ==
    {a \in Attribute : \E i \in 1 .. Len(callbacks[f]) :
        callbacks[f][i].kind = kind /\ a \in callbacks[f][i].attributes}

\* What a giving service will leave with its caller if it is refused.
Giving(f) ==
    IF request[f].service \in GivingServices /\ reply[f] # "ok"
      THEN request[f].attributes ELSE {}

\* What a federate owns, as far as it knows or will know once its reply and its
\* callbacks are delivered.
Holds(f) == believes[f] \cup InFlight(f, "acquired") \cup Giving(f)

Present(f) == f \in members /\ link[f] = "open"

\* The RTIG and the federates agree on who owns an attribute, whatever requests
\* and notifications cross: the owner recorded at the RTIG is the one federate
\* that believes it, or is being told, or has asked to give it away and not yet
\* been answered.  The attributes of a divestiture that ended in an internal error
\* are left out: there the code itself loses the agreement.
OwnersAgree ==
    rtigUp /\ exists =>
        \A f \in Federate, a \in Attribute \ doubt :
            Present(f) => (owner[a] = f <=> a \in Holds(f))

\* An acquisition that was accepted is not lost: until its notification is given
\* to the federate, the federate is a candidate or the notification is on its way.
NoLostAcquisition ==
    rtigUp /\ exists =>
        \A f \in Federate : Present(f) =>
            \A a \in wants[f] \ doubt :
                \/ f \in candidates[a]
                \/ \E kind \in {"acquired", "unavailable", "cancelled"} :
                     a \in InFlight(f, kind)

\* The deleting privilege and its attribute do not part: the federate that
\* deleteObject and killFederate look at is the owner of privilegeToDelete,
\* through every handover, unless nobody owns the attribute.
DeleterOwnsPrivilege ==
    exists => owner[PrivilegeToDelete] \in {objectOwner, NoOwner}

\* An attribute changes hands with the consent of its owner: only while a service
\* by which the owner gives it away is being served, or when the owner is lost.
OnlyGivenAway ==
    [][\A a \in Attribute :
         owner[a] # NoOwner /\ owner'[a] # owner[a] =>
            \/ /\ request[owner[a]].service
                     \in GivingServices \cup {"negotiatedDivestiture"}
               /\ a \in request[owner[a]].attributes
            \/ link[owner[a]] = "lost"]_vars

\* "Ce service ne doit pas ajouter le federe demandeur a la liste des candidats":
\* a federate told that an attribute is unavailable is not given it later, unless
\* it asked again.
AcquiredAsAsked ==
    [][\A f \in Federate :
         LET new == InFlight(f, "acquired")' \ InFlight(f, "acquired") IN
         new \subseteq wants[f] \cup request[f].attributes]_vars
=============================================================================
