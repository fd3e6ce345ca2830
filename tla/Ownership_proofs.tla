-------------------------- MODULE Ownership_proofs --------------------------
(***************************************************************************)
(* Theorems about Ownership, for every set of federates and attributes,      *)
(* every publication and every loss: types, the privilege to delete, who may *)
(* give an attribute away; then that the RTIG and the federates agree on who *)
(* owns it (OwnersAgree), that an acquisition that was accepted is not lost  *)
(* (NoLostAcquisition), and that all of it implements ExclusiveOwnership.    *)
(*                                                                           *)
(* Agreement counts what makes a federate own an attribute: it believes it,  *)
(* or one notification tells it, or it has asked to give it away and waits   *)
(* for the answer; there is exactly one of these for the owner the RTIG has  *)
(* recorded, and none for any other federate.  What is not lost is counted   *)
(* from the answer of the RTIG on, when the federate becomes a candidate or  *)
(* is sent the outcome: the federate waits only from the delivery of the     *)
(* reply.                                                                    *)
(***************************************************************************)
EXTENDS OwnershipRefinement, SequenceTheorems, WellFoundedInduction, TLAPS

-----------------------------------------------------------------------------
(* Helpers: candidates, callbacks and their queues. *)

\* The first candidate of an attribute that has candidates is one of them.
LEMMA FirstCandidate ==
    ASSUME NEW a \in Attribute, candidates[a] \subseteq Federate, candidates[a] # {}
    PROVE  GetFirstCandidate(a) \in candidates[a]
<1> DEFINE C == candidates[a]
<1>1. C \subseteq Nat
    BY FederateAssumption
<1> DEFINE R == {p \in Nat \X Nat : p[1] < p[2]}
<1>2. PICK f \in C : \A g \in C : <<g, f>> \notin R
    <2>1. IsWellFoundedOn(R, Nat)
        BY NatLessThanWellFounded DEF OpToRel
    <2> HIDE DEF C, R
    <2> QED BY <1>1, <2>1, WFMin DEF C
<1>3. ASSUME NEW g \in C PROVE f <= g
    <2>1. <<g, f>> \in Nat \X Nat /\ f \in Nat /\ g \in Nat
        BY <1>1
    <2>2. ~ (g < f)
        BY <1>2, <2>1
    <2> QED BY <2>1, <2>2
<1> QED
    BY <1>3 DEF GetFirstCandidate

Kinds == {"acquired", "unavailable", "release", "divested", "cancelled", "informed",
          "unowned"}

\* A message for a set of attributes is a sequence of callbacks.
LEMMA BatchType ==
    ASSUME NEW kind \in Kinds, NEW S \in SUBSET Attribute
    PROVE  Batch(kind, S) \in Seq(Callback)
<1>1. [kind |-> kind, attributes |-> S] \in Callback
    BY DEF Callback, Kinds
<1>2. CASE S = {}
    BY <1>2 DEF Batch
<1>3. CASE S # {}
    BY <1>1, <1>3 DEF Batch
<1> QED
    BY <1>2, <1>3

\* Sending keeps a queue of callbacks one.
LEMMA SendType ==
    ASSUME NEW f, NEW q \in Seq(Callback), NEW kind \in Kinds, NEW S \in SUBSET Attribute
    PROVE  SendToFederate(f, q, kind, S) \in Seq(Callback)
<1>1. q \o Batch(kind, S) \in Seq(Callback)
    BY BatchType, ConcatProperties
<1> QED
    BY <1>1 DEF SendToFederate

\* The messages of a queue that say that its federate has acquired an attribute.
Holding(q, a) ==
    {i \in 1 .. Len(q) : q[i].kind = "acquired" /\ a \in q[i].attributes}

\* The messages of a queue of one kind.
OfKind(q, kind) == {i \in 1 .. Len(q) : q[i].kind = kind}

\* A queue after a message: the message has the last place, if it is sent at all.
Sent(f, q, kind, S, r) ==
    \/ r = q /\ (link[f] # "open" \/ S = {})
    \/ /\ r \in Seq(Callback) /\ Len(r) = Len(q) + 1
       /\ \A i \in 1 .. Len(q) : r[i] = q[i]
       /\ r[Len(q) + 1] = [kind |-> kind, attributes |-> S]
       /\ link[f] = "open" /\ S # {}

\* Sending adds a message to a queue.
LEMMA SendPlaces ==
    ASSUME NEW f, NEW q \in Seq(Callback), NEW kind \in Kinds, NEW S \in SUBSET Attribute
    PROVE  Sent(f, q, kind, S, SendToFederate(f, q, kind, S))
<1> USE DEF Sent
<1> DEFINE m == [kind |-> kind, attributes |-> S]
<1>1. CASE link[f] # "open"
    BY <1>1 DEF SendToFederate
<1>2. CASE link[f] = "open" /\ S = {}
    <2>1. q \o <<>> = q
        BY ConcatEmptySeq
    <2> QED
        BY <1>2, <2>1 DEF SendToFederate, Batch
<1>3. CASE link[f] = "open" /\ S # {}
    <2>1. m \in Callback
        BY DEF Callback, Kinds
    <2> HIDE DEF m
    <2>2. SendToFederate(f, q, kind, S) = q \o <<m>>
        BY <1>3 DEF SendToFederate, Batch, m
    <2>3. <<m>> \in Seq(Callback) /\ Len(<<m>>) = 1 /\ <<m>>[1] = m
        BY <2>1
    <2>4. /\ q \o <<m>> \in Seq(Callback) /\ Len(q \o <<m>>) = Len(q) + 1
          /\ \A i \in 1 .. Len(q) : (q \o <<m>>)[i] = q[i]
          /\ (q \o <<m>>)[Len(q) + 1] = m
        BY <2>1
    <2> QED
        BY <1>3, <2>2, <2>4 DEF m
<1> QED
    BY <1>1, <1>2, <1>3

-----------------------------------------------------------------------------
(* Type correctness. *)

\* The steps of the federates keep the types.
LEMMA FederateType ==
    ASSUME TypeOK, NEW f \in Federate, FederateStep(f)
    PROVE  TypeOK'
<1> USE DEF federateVars, attributeVars
<1>1. ASSUME NEW service, NEW S \in Lists, Call(f, service, S),
             service \in AttributeServices
      PROVE  /\ request' \in [Federate -> Request]
             /\ requests' \in 0 .. MaxRequests
             /\ UNCHANGED <<attributeVars, exists, members, rtigUp, reply, callbacks,
                            link, wants, doubt>>
    <2>1. [service |-> service, attributes |-> S] \in Request
        BY <1>1, AttributeAssumption DEF Request
    <2>2. request' \in [Federate -> Request]
        BY <1>1, <2>1 DEF Call, TypeOK
    <2>3. requests' \in 0 .. MaxRequests
        BY <1>1, AttributeAssumption DEF Call, TypeOK
    <2> QED
        BY <1>1, <2>2, <2>3 DEF Call
<1>2. CASE Give(f)
    <2>1. PICK service \in GivingServices, S \in Lists :
             Call(f, service, S) /\ believes' = [believes EXCEPT ![f] = @ \ S]
        BY <1>2 DEF Give
    <2>2. service \in AttributeServices
        BY DEF AttributeServices
    <2>3. believes' \in [Federate -> SUBSET Attribute]
        BY <2>1 DEF TypeOK
    <2> QED
        BY <1>1, <2>1, <2>2, <2>3 DEF TypeOK
<1>3. CASE Offer(f)
    <2>1. PICK service \in {"negotiatedDivestiture", "cancelDivestiture"}, S \in Lists :
             Call(f, service, S) /\ UNCHANGED believes
        BY <1>3 DEF Offer
    <2>2. service \in AttributeServices
        BY DEF AttributeServices
    <2> QED
        BY <1>1, <2>1, <2>2 DEF TypeOK
<1>4. CASE Acquire(f)
    <2>1. PICK service \in AcquiringServices \cup {"cancelAcquisition"}, S \in Lists :
             Call(f, service, S) /\ UNCHANGED believes
        BY <1>4 DEF Acquire
    <2>2. service \in AttributeServices
        BY DEF AttributeServices
    <2> QED
        BY <1>1, <2>1, <2>2 DEF TypeOK
<1>5. CASE Query(f)
    <2>1. PICK a \in Attribute :
             {a} \in Lists /\ Call(f, "query", {a}) /\ UNCHANGED believes
        BY <1>5 DEF Query
    <2>2. "query" \in AttributeServices
        BY DEF AttributeServices
    <2> QED
        BY <1>1, <2>1, <2>2 DEF TypeOK
<1>6. CASE Leave(f)
    <2>1. PICK service \in {"delete", "resign"} : Call(f, service, {}) /\ UNCHANGED believes
        BY <1>6 DEF Leave
    <2>2. [service |-> service, attributes |-> {}] \in Request
        BY DEF Request
    <2>3. request' \in [Federate -> Request]
        BY <2>1, <2>2 DEF Call, TypeOK
    <2>4. requests' \in 0 .. MaxRequests
        BY <2>1, AttributeAssumption DEF Call, TypeOK
    <2> QED
        BY <2>1, <2>3, <2>4 DEF Call, TypeOK
<1>7. CASE Return(f)
    <2>1. request[f] \in Request /\ request[f].attributes \subseteq Attribute
        BY DEF TypeOK, Request
    <2>2. believes' \in [Federate -> SUBSET Attribute]
        BY <1>7, <2>1 DEF Return, TypeOK
    <2>3. wants' \in [Federate -> SUBSET Attribute]
        BY <1>7, <2>1 DEF Return, TypeOK
    <2>4. NoRequest \in Request
        BY DEF NoRequest, Request
    <2>5. /\ link' \in [Federate -> {"open", "resigned", "lost"}]
          /\ request' \in [Federate -> Request]
          /\ reply' \in [Federate -> {"none", "ok", "refused"}]
        BY <1>7, <2>4 DEF Return, TypeOK
    <2> QED
        BY <1>7, <2>2, <2>3, <2>5 DEF Return, TypeOK
<1>8. CASE Deliver(f)
    <2>1. Head(callbacks[f]) \in Callback /\ Tail(callbacks[f]) \in Seq(Callback)
        BY <1>8, HeadTailProperties DEF Deliver, TypeOK
    <2>2. Head(callbacks[f]).attributes \subseteq Attribute
        BY <2>1 DEF Callback
    <2>3. believes' \in [Federate -> SUBSET Attribute]
        BY <1>8, <2>2 DEF Deliver, TypeOK
    <2>4. wants' \in [Federate -> SUBSET Attribute]
        BY <1>8, <2>2 DEF Deliver, TypeOK
    <2>5. callbacks' \in [Federate -> Seq(Callback)]
        BY <1>8, <2>1 DEF Deliver, TypeOK
    <2> QED
        BY <1>8, <2>3, <2>4, <2>5 DEF Deliver, TypeOK
<1>9. CASE Die(f)
    BY <1>9 DEF Die, TypeOK
<1> QED
    BY <1>2, <1>3, <1>4, <1>5, <1>6, <1>7, <1>8, <1>9 DEF FederateStep

\* Three messages sent in a row keep a queue one.
LEMMA SendThreeType ==
    ASSUME NEW f, NEW q \in Seq(Callback),
           NEW k1 \in Kinds, NEW k2 \in Kinds, NEW k3 \in Kinds,
           NEW S1 \in SUBSET Attribute, NEW S2 \in SUBSET Attribute,
           NEW S3 \in SUBSET Attribute
    PROVE  SendToFederate(f, SendToFederate(f, SendToFederate(f, q, k1, S1), k2, S2),
                          k3, S3) \in Seq(Callback)
<1>1. SendToFederate(f, q, k1, S1) \in Seq(Callback)
    BY SendType
<1>2. SendToFederate(f, SendToFederate(f, q, k1, S1), k2, S2) \in Seq(Callback)
    BY <1>1, SendType
<1> QED
    BY <1>2, SendType

\* An attribute handed over goes to a federate.
LEMMA HandOverType ==
    ASSUME TypeOK, NEW S \in SUBSET Attribute, HasCandidates(S) = S,
           NEW a \in S
    PROVE  GetFirstCandidate(a) \in Federate /\ GetFirstCandidate(a) \in candidates[a]
<1>1. a \in Attribute /\ candidates[a] \subseteq Federate /\ candidates[a] # {}
    BY DEF TypeOK, HasCandidates
<1> QED
    BY <1>1, FirstCandidate

\* The steps by which attributes are asked for keep the types.
LEMMA AcquiringType ==
    ASSUME TypeOK, NEW f \in Federate,
           \/ AttributeOwnershipAcquisition(f)
           \/ AttributeOwnershipAcquisitionIfAvailable(f)
    PROVE  TypeOK'
<1> DEFINE S == request[f].attributes
<1> USE DEF federateVars, attributeVars
<1>1. S \in SUBSET Attribute
    BY DEF TypeOK, Request
<1>2. Available(S) \in SUBSET Attribute
    BY <1>1 DEF Available
<1> HIDE DEF S
<1>3. ASSUME TakeOver(f, Available(S))
      PROVE  /\ owner' \in [Attribute -> Federate \cup {NoOwner}]
             /\ divesting' \in [Attribute -> BOOLEAN]
             /\ objectOwner' \in Federate
    BY <1>2, <1>3 DEF TakeOver, TypeOK
<1>4. ASSUME NEW g \in Federate, NEW k \in Kinds, NEW S1 \in SUBSET Attribute,
             NEW S3 \in SUBSET Attribute
      PROVE  SendToFederate(g,
               SendToFederate(g, SendToFederate(g, callbacks[g], "acquired", S1),
                              "divested", DivestedOf(g, Available(S))), k, S3)
             \in Seq(Callback)
    <2>1. DivestedOf(g, Available(S)) \in SUBSET Attribute
        BY <1>2 DEF DivestedOf
    <2>2. callbacks[g] \in Seq(Callback) /\ "acquired" \in Kinds /\ "divested" \in Kinds
        BY DEF TypeOK, Kinds
    <2> QED
        BY <2>1, <2>2, SendThreeType
<1>5. CASE AttributeOwnershipAcquisition(f)
    <2>1. CASE Refuse(f)
        BY <1>5, <2>1 DEF AttributeOwnershipAcquisition, Refuse, Answer, TypeOK
    <2>2. CASE ~ Refuse(f)
        <3> DEFINE Asked(g) == {a \in S \ Available(S) : owner[a] = g}
                   Taken(g) == IF g = f THEN Available(S) ELSE {}
        <3>1. /\ TakeOver(f, Available(S))
              /\ candidates' = [a \in Attribute |->
                        IF a \in Available(S) THEN candidates[a] \ {f}
                        ELSE IF a \in S \ Available(S) THEN candidates[a] \cup {f}
                        ELSE candidates[a]]
              /\ callbacks' = [g \in Federate |->
                        SendToFederate(g,
                          SendToFederate(g,
                            SendToFederate(g, callbacks[g], "acquired", Taken(g)),
                            "divested", DivestedOf(g, Available(S))),
                          "release", Asked(g))]
              /\ Answer(f, "ok")
              /\ UNCHANGED <<exists, members, rtigUp, doubt, federateVars>>
            BY <1>5, <2>2 DEF AttributeOwnershipAcquisition, S
        <3>2. \A g \in Federate : /\ Asked(g) \in SUBSET Attribute
                                  /\ Taken(g) \in SUBSET Attribute
            BY <1>1, <1>2
        <3>3. "release" \in Kinds
            BY DEF Kinds
        <3> HIDE DEF Asked, Taken
        <3>4. callbacks' \in [Federate -> Seq(Callback)]
            BY <1>4, <3>1, <3>2, <3>3
        <3>5. candidates' \in [Attribute -> SUBSET Federate]
            BY <3>1 DEF TypeOK
        <3>6. reply' \in [Federate -> {"none", "ok", "refused"}]
            BY <3>1 DEF Answer, TypeOK
        <3> QED
            BY <1>3, <3>1, <3>4, <3>5, <3>6 DEF TypeOK
    <2> QED BY <2>1, <2>2
<1>6. CASE AttributeOwnershipAcquisitionIfAvailable(f)
    <2>1. CASE Refuse(f)
        BY <1>6, <2>1 DEF AttributeOwnershipAcquisitionIfAvailable, Refuse, Answer, TypeOK
    <2>2. CASE ~ Refuse(f)
        <3> DEFINE Missed(g) == IF g = f THEN S \ Available(S) ELSE {}
                   Taken(g) == IF g = f THEN Available(S) ELSE {}
        <3>1. /\ TakeOver(f, Available(S))
              /\ candidates' = [a \in Attribute |->
                        IF a \in S \ Available(S) THEN candidates[a] \cup {f}
                        ELSE candidates[a]]
              /\ callbacks' = [g \in Federate |->
                        SendToFederate(g,
                          SendToFederate(g,
                            SendToFederate(g, callbacks[g], "acquired", Taken(g)),
                            "divested", DivestedOf(g, Available(S))),
                          "unavailable", Missed(g))]
              /\ Answer(f, "ok")
              /\ UNCHANGED <<exists, members, rtigUp, doubt, federateVars>>
            BY <1>6, <2>2 DEF AttributeOwnershipAcquisitionIfAvailable, S
        <3>2. \A g \in Federate : /\ Missed(g) \in SUBSET Attribute
                                  /\ Taken(g) \in SUBSET Attribute
            BY <1>1, <1>2
        <3>3. "unavailable" \in Kinds
            BY DEF Kinds
        <3> HIDE DEF Missed, Taken
        <3>4. callbacks' \in [Federate -> Seq(Callback)]
            BY <1>4, <3>1, <3>2, <3>3
        <3>5. candidates' \in [Attribute -> SUBSET Federate]
            BY <3>1 DEF TypeOK
        <3>6. reply' \in [Federate -> {"none", "ok", "refused"}]
            BY <3>1 DEF Answer, TypeOK
        <3> QED
            BY <1>3, <3>1, <3>4, <3>5, <3>6 DEF TypeOK
    <2> QED BY <2>1, <2>2
<1> QED BY <1>5, <1>6

\* The notifications to the new owners keep the queues.
LEMMA NewOwnersType ==
    ASSUME TypeOK, NEW S \in SUBSET Attribute, SendToNewOwners(S)
    PROVE  callbacks' \in [Federate -> Seq(Callback)]
<1>1. ASSUME NEW g \in Federate
      PROVE  SendToFederate(g, callbacks[g], "acquired", HandedTo(g, S)) \in Seq(Callback)
    <2>1. HandedTo(g, S) \in SUBSET Attribute
        BY DEF HandedTo
    <2>2. callbacks[g] \in Seq(Callback) /\ "acquired" \in Kinds
        BY DEF TypeOK, Kinds
    <2> QED
        BY <2>1, <2>2, SendType
<1> QED
    BY <1>1 DEF SendToNewOwners

\* A handover of attributes that have candidates keeps the types.
LEMMA HandOverKeepsType ==
    ASSUME TypeOK, NEW S \in SUBSET Attribute, HasCandidates(S) = S, HandOver(S)
    PROVE  /\ owner' \in [Attribute -> Federate \cup {NoOwner}]
           /\ candidates' \in [Attribute -> SUBSET Federate]
           /\ objectOwner' \in Federate
<1>1. \A a \in S : GetFirstCandidate(a) \in Federate
    BY HandOverType
<1>2. owner' \in [Attribute -> Federate \cup {NoOwner}]
    BY <1>1 DEF HandOver, TypeOK
<1>3. candidates' \in [Attribute -> SUBSET Federate]
    BY DEF HandOver, TypeOK
<1>4. objectOwner' \in Federate
    BY <1>1 DEF HandOver, TypeOK
<1> QED
    BY <1>2, <1>3, <1>4

\* The steps by which attributes are given away keep the types.
LEMMA GivingType ==
    ASSUME TypeOK, NEW f \in Federate,
           \/ UnconditionalAttributeOwnershipDivestiture(f)
           \/ NegotiatedAttributeOwnershipDivestiture(f)
           \/ AttributeOwnershipReleaseResponse(f)
    PROVE  TypeOK'
<1> DEFINE S == request[f].attributes
           given == HasCandidates(S)
<1> USE DEF federateVars, attributeVars
<1>1. S \in SUBSET Attribute
    BY DEF TypeOK, Request
<1>2. given \in SUBSET Attribute /\ HasCandidates(given) = given
    BY <1>1 DEF HasCandidates
<1>3. \A a \in given : GetFirstCandidate(a) \in Federate
    BY <1>2, HandOverType
<1> HIDE DEF S, given
<1>4. ASSUME Answer(f, "ok") \/ Answer(f, "refused")
      PROVE  reply' \in [Federate -> {"none", "ok", "refused"}]
    BY <1>4 DEF Answer, TypeOK
<1>5. CASE Refuse(f)
    BY <1>5 DEF UnconditionalAttributeOwnershipDivestiture,
                NegotiatedAttributeOwnershipDivestiture,
                AttributeOwnershipReleaseResponse, Refuse, Answer, TypeOK
<1>6. CASE UnconditionalAttributeOwnershipDivestiture(f) /\ ~ Refuse(f)
    <2>1. /\ owner' = [a \in Attribute |->
                IF a \in given THEN GetFirstCandidate(a)
                ELSE IF a \in S \ given THEN NoOwner ELSE owner[a]]
          /\ candidates' = [a \in Attribute |->
                IF a \in given THEN candidates[a] \ {GetFirstCandidate(a)}
                               ELSE candidates[a]]
          /\ objectOwner' = IF PrivilegeToDelete \in given
                THEN GetFirstCandidate(PrivilegeToDelete) ELSE objectOwner
          /\ divesting' = [a \in Attribute |-> divesting[a] /\ a \notin S]
          /\ \/ Answer(f, "refused") /\ doubt' = doubt \cup S /\ UNCHANGED callbacks
             \/ Answer(f, "ok") /\ SendToNewOwners(given) /\ UNCHANGED doubt
          /\ UNCHANGED <<exists, members, rtigUp, federateVars>>
        BY <1>6 DEF UnconditionalAttributeOwnershipDivestiture, S, given
    <2>2. owner' \in [Attribute -> Federate \cup {NoOwner}]
        BY <1>3, <2>1 DEF TypeOK
    <2>3. candidates' \in [Attribute -> SUBSET Federate]
        BY <2>1 DEF TypeOK
    <2>4. objectOwner' \in Federate
        BY <1>3, <2>1 DEF TypeOK
    <2>5. divesting' \in [Attribute -> BOOLEAN]
        BY <2>1 DEF TypeOK
    <2>6. doubt' \subseteq Attribute /\ callbacks' \in [Federate -> Seq(Callback)]
        BY <1>1, <1>2, <2>1, NewOwnersType DEF TypeOK
    <2> QED
        BY <1>4, <2>1, <2>2, <2>3, <2>4, <2>5, <2>6 DEF TypeOK
<1>7. CASE NegotiatedAttributeOwnershipDivestiture(f) /\ ~ Refuse(f)
    <2> DEFINE Divested(g) == IF g = f THEN given ELSE {}
    <2>1. /\ HandOver(given)
          /\ divesting' = [a \in Attribute |->
                IF a \in S THEN a \notin given ELSE divesting[a]]
          /\ callbacks' = [g \in Federate |->
                SendToFederate(g,
                  SendToFederate(g, callbacks[g], "acquired", HandedTo(g, given)),
                  "divested", Divested(g))]
          /\ rtigUp' = FALSE
          /\ UNCHANGED <<exists, members, reply, doubt, federateVars>>
        BY <1>7 DEF NegotiatedAttributeOwnershipDivestiture, S, given
    <2>2. divesting' \in [Attribute -> BOOLEAN]
        BY <2>1 DEF TypeOK
    <2>3. ASSUME NEW g \in Federate
          PROVE  SendToFederate(g,
                   SendToFederate(g, callbacks[g], "acquired", HandedTo(g, given)),
                   "divested", Divested(g)) \in Seq(Callback)
        <3>1. HandedTo(g, given) \in SUBSET Attribute /\ Divested(g) \in SUBSET Attribute
            BY <1>2 DEF HandedTo
        <3>2. /\ callbacks[g] \in Seq(Callback)
              /\ "acquired" \in Kinds /\ "divested" \in Kinds
            BY DEF TypeOK, Kinds
        <3> HIDE DEF Divested
        <3>3. SendToFederate(g, callbacks[g], "acquired", HandedTo(g, given))
                \in Seq(Callback)
            BY <3>1, <3>2, SendType
        <3> QED
            BY <3>1, <3>2, <3>3, SendType
    <2> HIDE DEF Divested
    <2>4. callbacks' \in [Federate -> Seq(Callback)]
        BY <2>1, <2>3
    <2> QED
        BY <1>2, <2>1, <2>2, <2>4, HandOverKeepsType DEF TypeOK
<1>8. CASE AttributeOwnershipReleaseResponse(f) /\ ~ Refuse(f)
    <2>1. /\ HasCandidates(S) = S
          /\ HandOver(S)
          /\ divesting' = [a \in Attribute |-> divesting[a] /\ a \notin S]
          /\ SendToNewOwners(S)
          /\ Answer(f, "ok")
          /\ UNCHANGED <<exists, members, rtigUp, doubt, federateVars>>
        BY <1>8 DEF AttributeOwnershipReleaseResponse, S
    <2>2. divesting' \in [Attribute -> BOOLEAN]
        BY <2>1 DEF TypeOK
    <2>3. callbacks' \in [Federate -> Seq(Callback)]
        BY <1>1, <2>1, NewOwnersType
    <2> QED
        BY <1>1, <1>4, <2>1, <2>2, <2>3, HandOverKeepsType DEF TypeOK
<1> QED
    BY <1>5, <1>6, <1>7, <1>8

\* The other steps of the RTIG keep the types.
LEMMA OtherServiceType ==
    ASSUME TypeOK, NEW f \in Federate,
           \/ CancelNegotiatedAttributeOwnershipDivestiture(f)
           \/ CancelAttributeOwnershipAcquisition(f)
           \/ QueryAttributeOwnership(f)
           \/ DeleteObject(f) \/ Resign(f) \/ KillFederate(f)
    PROVE  TypeOK'
<1> DEFINE S == request[f].attributes
<1> USE DEF federateVars, attributeVars
<1>1. S \in SUBSET Attribute
    BY DEF TypeOK, Request
<1> HIDE DEF S
<1>2. ASSUME Answer(f, "ok")
      PROVE  reply' \in [Federate -> {"none", "ok", "refused"}]
    BY <1>2 DEF Answer, TypeOK
<1>3. CASE Refuse(f)
    BY <1>3 DEF CancelNegotiatedAttributeOwnershipDivestiture,
                CancelAttributeOwnershipAcquisition, QueryAttributeOwnership,
                DeleteObject, Resign, KillFederate, Refuse, Answer, TypeOK
<1>4. CASE CancelNegotiatedAttributeOwnershipDivestiture(f) /\ ~ Refuse(f)
    <2>1. /\ divesting' = [a \in Attribute |-> divesting[a] /\ a \notin S]
          /\ Answer(f, "ok")
          /\ UNCHANGED <<owner, candidates, objectOwner, callbacks, exists, members,
                         rtigUp, doubt, federateVars>>
        BY <1>4 DEF CancelNegotiatedAttributeOwnershipDivestiture, S
    <2> QED
        BY <1>2, <2>1 DEF TypeOK
<1>5. CASE CancelAttributeOwnershipAcquisition(f) /\ ~ Refuse(f)
    <2>1. /\ candidates' = [a \in Attribute |->
                IF a \in S THEN candidates[a] \ {f} ELSE candidates[a]]
          /\ callbacks' = [callbacks EXCEPT ![f] = SendToFederate(f, @, "cancelled", S)]
          /\ Answer(f, "ok")
          /\ UNCHANGED <<owner, divesting, objectOwner, exists, members, rtigUp, doubt,
                         federateVars>>
        BY <1>5 DEF CancelAttributeOwnershipAcquisition, S
    <2>2. SendToFederate(f, callbacks[f], "cancelled", S) \in Seq(Callback)
        <3>1. "cancelled" \in Kinds /\ callbacks[f] \in Seq(Callback)
            BY DEF Kinds, TypeOK
        <3> QED BY <1>1, <3>1, SendType
    <2>3. callbacks' \in [Federate -> Seq(Callback)]
        BY <2>1, <2>2 DEF TypeOK
    <2>4. candidates' \in [Attribute -> SUBSET Federate]
        BY <2>1 DEF TypeOK
    <2> QED
        BY <1>2, <2>1, <2>3, <2>4 DEF TypeOK
<1>6. CASE QueryAttributeOwnership(f) /\ ~ Refuse(f)
    <2> DEFINE free == {a \in S : owner[a] = NoOwner}
    <2>1. /\ callbacks' = [callbacks EXCEPT ![f] =
                SendToFederate(f, SendToFederate(f, @, "informed", S \ free),
                               "unowned", free)]
          /\ Answer(f, "ok")
          /\ UNCHANGED <<attributeVars, exists, members, rtigUp, doubt, federateVars>>
        BY <1>6 DEF QueryAttributeOwnership, S
    <2>2. /\ "informed" \in Kinds /\ "unowned" \in Kinds
          /\ callbacks[f] \in Seq(Callback)
          /\ free \in SUBSET Attribute /\ S \ free \in SUBSET Attribute
        BY <1>1 DEF Kinds, TypeOK
    <2> HIDE DEF free
    <2>3. SendToFederate(f, callbacks[f], "informed", S \ free) \in Seq(Callback)
        BY <2>2, SendType
    <2>4. SendToFederate(f, SendToFederate(f, callbacks[f], "informed", S \ free),
                         "unowned", free) \in Seq(Callback)
        BY <2>2, <2>3, SendType
    <2>5. callbacks' \in [Federate -> Seq(Callback)]
        BY <2>1, <2>4 DEF TypeOK
    <2> QED
        BY <1>2, <2>1, <2>5 DEF TypeOK
<1>7. CASE DeleteObject(f) /\ ~ Refuse(f)
    BY <1>2, <1>7 DEF DeleteObject, TypeOK
<1>8. CASE Resign(f) /\ ~ Refuse(f)
    BY <1>2, <1>8 DEF Resign, TypeOK
<1>9. CASE KillFederate(f)
    <2>1. exists' \in BOOLEAN
        BY <1>9 DEF KillFederate, TypeOK
    <2>2. owner' \in [Attribute -> Federate \cup {NoOwner}]
        BY <1>9 DEF KillFederate, TypeOK
    <2> QED
        BY <1>9, <2>1, <2>2 DEF KillFederate, TypeOK
<1> QED
    BY <1>3, <1>4, <1>5, <1>6, <1>7, <1>8, <1>9

\* Every step keeps the types.
LEMMA StepType ==
    ASSUME TypeOK, [Next]_vars
    PROVE  TypeOK'
<1>1. CASE UNCHANGED vars
    BY <1>1 DEF vars, attributeVars, federateVars, TypeOK, Callback, Request
<1>2. ASSUME NEW f \in Federate, FederateStep(f) \/ RtigStep(f)
      PROVE  TypeOK'
    BY <1>2, FederateType, AcquiringType, GivingType, OtherServiceType DEF RtigStep
<1> QED
    BY <1>1, <1>2 DEF Next

\* The types hold at the start.
LEMMA InitType ==
    ASSUME Init
    PROVE  TypeOK
<1>1. NoRequest \in Request
    BY DEF NoRequest, Request
<1>2. owner \in [Attribute -> Federate \cup {NoOwner}]
    BY FederateAssumption DEF Init
<1>3. believes \in [Federate -> SUBSET Attribute]
    BY DEF Init
<1>4. requests \in 0 .. MaxRequests
    <2>1. MaxRequests \in Nat
        BY AttributeAssumption
    <2>2. requests = 0
        BY DEF Init
    <2> QED BY <2>1, <2>2
<1>5. callbacks \in [Federate -> Seq(Callback)]
    BY DEF Init
<1> QED
    BY <1>1, <1>2, <1>3, <1>4, <1>5, FederateAssumption DEF Init, TypeOK

\* Types are kept for ever, whatever the federates ask and whoever is lost.
THEOREM OwnershipTypeCorrect == Spec => []TypeOK
<1>1. Init => TypeOK
    BY InitType
<1>2. TypeOK /\ [Next]_vars => TypeOK'
    BY StepType
<1> QED
    BY <1>1, <1>2, PTL DEF Spec

-----------------------------------------------------------------------------
(* The owner of the object and the owner of privilegeToDelete. *)

\* Every step keeps them together.
LEMMA DeleterStep ==
    ASSUME DeleterOwnsPrivilege, [Next]_vars
    PROVE  DeleterOwnsPrivilege'
<1> USE AttributeAssumption, FederateAssumption DEF DeleterOwnsPrivilege
<1>1. CASE UNCHANGED <<exists, owner, objectOwner>>
    BY <1>1
<1>2. ASSUME NEW f \in Federate, FederateStep(f)
      PROVE  UNCHANGED <<exists, owner, objectOwner>>
    BY <1>2 DEF FederateStep, Give, Offer, Acquire, Query, Leave, Call, Return, Deliver,
                Die, attributeVars
<1>3. ASSUME NEW f, Refuse(f)
      PROVE  UNCHANGED <<exists, owner, objectOwner>>
    BY <1>3 DEF Refuse, attributeVars
<1>4. ASSUME NEW f, NEW S, TakeOver(f, S), UNCHANGED exists
      PROVE  DeleterOwnsPrivilege'
    BY <1>4 DEF TakeOver
<1>5. ASSUME NEW S, HandOver(S), UNCHANGED exists
      PROVE  DeleterOwnsPrivilege'
    BY <1>5 DEF HandOver
<1>6. ASSUME NEW f \in Federate, RtigStep(f)
      PROVE  DeleterOwnsPrivilege'
    <2>1. CASE AttributeOwnershipAcquisition(f)
        BY <2>1, <1>1, <1>3, <1>4 DEF AttributeOwnershipAcquisition
    <2>2. CASE AttributeOwnershipAcquisitionIfAvailable(f)
        BY <2>2, <1>1, <1>3, <1>4 DEF AttributeOwnershipAcquisitionIfAvailable
    <2>3. CASE UnconditionalAttributeOwnershipDivestiture(f) /\ ~ Refuse(f)
        BY <2>3 DEF UnconditionalAttributeOwnershipDivestiture
    <2>4. CASE NegotiatedAttributeOwnershipDivestiture(f) /\ ~ Refuse(f)
        BY <2>4, <1>5 DEF NegotiatedAttributeOwnershipDivestiture
    <2>5. CASE CancelNegotiatedAttributeOwnershipDivestiture(f)
        BY <2>5, <1>1, <1>3 DEF CancelNegotiatedAttributeOwnershipDivestiture
    <2>6. CASE AttributeOwnershipReleaseResponse(f)
        BY <2>6, <1>1, <1>3, <1>5 DEF AttributeOwnershipReleaseResponse
    <2>7. CASE CancelAttributeOwnershipAcquisition(f)
        BY <2>7, <1>1, <1>3 DEF CancelAttributeOwnershipAcquisition
    <2>8. CASE QueryAttributeOwnership(f)
        BY <2>8, <1>1, <1>3 DEF QueryAttributeOwnership, attributeVars
    <2>9. CASE DeleteObject(f)
        BY <2>9, <1>1, <1>3 DEF DeleteObject, attributeVars
    <2>10. CASE Resign(f)
        BY <2>10, <1>1, <1>3 DEF Resign, attributeVars
    <2>11. CASE KillFederate(f)
        BY <2>11 DEF KillFederate
    <2>12. CASE Refuse(f)
        BY <2>12, <1>1, <1>3
    <2> QED
        BY <1>6, <2>1, <2>2, <2>3, <2>4, <2>5, <2>6, <2>7, <2>8, <2>9, <2>10, <2>11,
           <2>12 DEF RtigStep
<1> QED
    BY <1>1, <1>2, <1>6 DEF Next, vars, attributeVars

\* While the object exists, the federate that deleteObject and killFederate look
\* at is the owner of privilegeToDelete, if the attribute has an owner.
THEOREM DeleterAlwaysOwnsPrivilege == Spec => []DeleterOwnsPrivilege
<1>1. Init => DeleterOwnsPrivilege
    BY AttributeAssumption DEF Init, DeleterOwnsPrivilege
<1>2. DeleterOwnsPrivilege /\ [Next]_vars => DeleterOwnsPrivilege'
    BY DeleterStep
<1> QED
    BY <1>1, <1>2, PTL DEF Spec

-----------------------------------------------------------------------------
(* Nothing is taken from its owner. *)

\* The RTIG does not survive the offer of an attribute that nobody asked for: as
\* long as it runs, no attribute is offered.
NothingOffered == rtigUp => \A a \in Attribute : ~ divesting[a]

\* Every step keeps it so.
LEMMA NothingOfferedStep ==
    ASSUME NothingOffered, [Next]_vars
    PROVE  NothingOffered'
<1> USE DEF NothingOffered
<1>1. CASE UNCHANGED <<rtigUp, divesting>>
    BY <1>1
<1>2. ASSUME NEW f \in Federate, FederateStep(f)
      PROVE  UNCHANGED <<rtigUp, divesting>>
    BY <1>2 DEF FederateStep, Give, Offer, Acquire, Query, Leave, Call, Return, Deliver,
                Die, attributeVars
<1>3. ASSUME NEW f, Refuse(f)
      PROVE  UNCHANGED <<rtigUp, divesting>>
    BY <1>3 DEF Refuse, attributeVars
<1>4. ASSUME NEW S, divesting' = [a \in Attribute |-> divesting[a] /\ a \notin S],
             UNCHANGED rtigUp
      PROVE  NothingOffered'
    BY <1>4
<1>5. ASSUME NEW f \in Federate, RtigStep(f)
      PROVE  NothingOffered'
    <2>1. CASE AttributeOwnershipAcquisition(f)
        BY <2>1, <1>1, <1>3, <1>4 DEF AttributeOwnershipAcquisition, TakeOver
    <2>2. CASE AttributeOwnershipAcquisitionIfAvailable(f)
        BY <2>2, <1>1, <1>3, <1>4 DEF AttributeOwnershipAcquisitionIfAvailable, TakeOver
    <2>3. CASE UnconditionalAttributeOwnershipDivestiture(f)
        BY <2>3, <1>1, <1>3, <1>4 DEF UnconditionalAttributeOwnershipDivestiture
    <2>4. CASE NegotiatedAttributeOwnershipDivestiture(f)
        BY <2>4, <1>1, <1>3 DEF NegotiatedAttributeOwnershipDivestiture
    <2>5. CASE CancelNegotiatedAttributeOwnershipDivestiture(f)
        BY <2>5, <1>1, <1>3, <1>4 DEF CancelNegotiatedAttributeOwnershipDivestiture
    <2>6. CASE AttributeOwnershipReleaseResponse(f)
        BY <2>6, <1>1, <1>3, <1>4 DEF AttributeOwnershipReleaseResponse
    <2>7. CASE CancelAttributeOwnershipAcquisition(f)
        BY <2>7, <1>1, <1>3 DEF CancelAttributeOwnershipAcquisition
    <2>8. CASE QueryAttributeOwnership(f)
        BY <2>8, <1>1, <1>3 DEF QueryAttributeOwnership, attributeVars
    <2>9. CASE DeleteObject(f)
        BY <2>9, <1>1, <1>3 DEF DeleteObject, attributeVars
    <2>10. CASE Resign(f)
        BY <2>10, <1>1, <1>3 DEF Resign, attributeVars
    <2>11. CASE KillFederate(f)
        BY <2>11, <1>1 DEF KillFederate
    <2> QED
        BY <1>5, <2>1, <2>2, <2>3, <2>4, <2>5, <2>6, <2>7, <2>8, <2>9, <2>10, <2>11
           DEF RtigStep
<1> QED
    BY <1>1, <1>2, <1>5 DEF Next, vars, attributeVars

\* What a step may do to the owner of an attribute.
Consented(a) ==
    owner[a] # NoOwner /\ owner'[a] # owner[a] =>
        \/ /\ request[owner[a]].service
                 \in GivingServices \cup {"negotiatedDivestiture"}
           /\ a \in request[owner[a]].attributes
        \/ link[owner[a]] = "lost"

\* No step takes an attribute from its owner.
LEMMA ConsentedStep ==
    ASSUME NothingOffered, [Next]_vars, NEW a \in Attribute
    PROVE  Consented(a)
<1> USE DEF Consented
<1>1. CASE UNCHANGED owner
    BY <1>1
<1>2. ASSUME NEW f \in Federate, FederateStep(f)
      PROVE  UNCHANGED owner
    BY <1>2 DEF FederateStep, Give, Offer, Acquire, Query, Leave, Call, Return, Deliver,
                Die, attributeVars
<1>3. ASSUME NEW f, Refuse(f)
      PROVE  UNCHANGED owner
    BY <1>3 DEF Refuse, attributeVars
<1>4. ASSUME NEW f, NEW S, TakeOver(f, Available(S)), rtigUp
      PROVE  Consented(a)
    BY <1>4 DEF TakeOver, Available, NothingOffered
<1>5. ASSUME NEW f \in Federate, Owns(f, request[f].attributes),
             request[f].service \in GivingServices \cup {"negotiatedDivestiture"},
             a \notin request[f].attributes => owner'[a] = owner[a]
      PROVE  Consented(a)
    BY <1>5 DEF Owns
<1>6. ASSUME NEW f \in Federate, RtigStep(f)
      PROVE  Consented(a)
    <2> USE DEF Serving, GivingServices
    <2>1. CASE AttributeOwnershipAcquisition(f)
        BY <2>1, <1>1, <1>3, <1>4 DEF AttributeOwnershipAcquisition
    <2>2. CASE AttributeOwnershipAcquisitionIfAvailable(f)
        BY <2>2, <1>1, <1>3, <1>4 DEF AttributeOwnershipAcquisitionIfAvailable
    <2>3. CASE UnconditionalAttributeOwnershipDivestiture(f) /\ ~ Refuse(f)
        BY <2>3, <1>5 DEF UnconditionalAttributeOwnershipDivestiture, HasCandidates
    <2>4. CASE NegotiatedAttributeOwnershipDivestiture(f) /\ ~ Refuse(f)
        BY <2>4, <1>5 DEF NegotiatedAttributeOwnershipDivestiture, HandOver, HasCandidates
    <2>5. CASE CancelNegotiatedAttributeOwnershipDivestiture(f)
        BY <2>5, <1>1, <1>3 DEF CancelNegotiatedAttributeOwnershipDivestiture
    <2>6. CASE AttributeOwnershipReleaseResponse(f) /\ ~ Refuse(f)
        BY <2>6, <1>5 DEF AttributeOwnershipReleaseResponse, HandOver
    <2>7. CASE CancelAttributeOwnershipAcquisition(f)
        BY <2>7, <1>1, <1>3 DEF CancelAttributeOwnershipAcquisition
    <2>8. CASE QueryAttributeOwnership(f)
        BY <2>8, <1>1, <1>3 DEF QueryAttributeOwnership, attributeVars
    <2>9. CASE DeleteObject(f)
        BY <2>9, <1>1, <1>3 DEF DeleteObject, attributeVars
    <2>10. CASE Resign(f)
        BY <2>10, <1>1, <1>3 DEF Resign, attributeVars
    <2>11. CASE KillFederate(f)
        BY <2>11 DEF KillFederate
    <2>12. CASE Refuse(f)
        BY <2>12, <1>1, <1>3
    <2> QED
        BY <1>6, <2>1, <2>2, <2>3, <2>4, <2>5, <2>6, <2>7, <2>8, <2>9, <2>10, <2>11,
           <2>12 DEF RtigStep
<1> QED
    BY <1>1, <1>2, <1>6 DEF Next, vars, attributeVars

\* An attribute changes hands with the consent of its owner, or when its owner is
\* lost.
THEOREM AttributesAreGivenAway == Spec => OnlyGivenAway
<1>1. Init => NothingOffered
    BY DEF Init, NothingOffered
<1>2. NothingOffered /\ [Next]_vars => NothingOffered'
    BY NothingOfferedStep
<1>3. NothingOffered /\ [Next]_vars =>
         [\A a \in Attribute : Consented(a)]_vars
    BY ConsentedStep
<1> QED
    BY <1>1, <1>2, <1>3, PTL DEF Spec, OnlyGivenAway, Consented

-----------------------------------------------------------------------------
(* The owners agree. *)

\* Nothing makes f the owner of a.
Free(f, a) ==
    a \notin believes[f] /\ Holding(callbacks[f], a) = {} /\ a \notin Giving(f)

\* Exactly one thing makes f the owner of a.
Once(f, a) ==
    \/ a \in believes[f] /\ Holding(callbacks[f], a) = {} /\ a \notin Giving(f)
    \/ /\ a \notin believes[f] /\ a \notin Giving(f)
       /\ \E i \in Nat : Holding(callbacks[f], a) = {i}
    \/ a \notin believes[f] /\ Holding(callbacks[f], a) = {} /\ a \in Giving(f)

AgreeAt(f, a) == IF owner[a] = f THEN Once(f, a) ELSE Free(f, a)

Agreement ==
    rtigUp /\ exists =>
        \A f \in Federate, a \in Attribute \ doubt : Present(f) => AgreeAt(f, a)

\* No attribute is offered, so none is taken from its owner unasked.
NoneDivested ==
    rtigUp => \A f \in Federate : OfKind(callbacks[f], "divested") = {}

\* The owner of an attribute is not a candidate for it.
OwnerIsNoCandidate ==
    rtigUp => \A a \in Attribute : owner[a] \notin candidates[a]

\* A reply is the reply to a request.
ReplyIsAwaited ==
    \A f \in Federate : request[f] = NoRequest => reply[f] = "none"

AgreementInv ==
    /\ TypeOK
    /\ NothingOffered
    /\ NoneDivested
    /\ OwnerIsNoCandidate
    /\ ReplyIsAwaited
    /\ Agreement

-----------------------------------------------------------------------------
(* Queues. *)

\* The notifications of an attribute once a message is sent.
HoldingAfter(q, kind, S, a) ==
    IF kind = "acquired" /\ a \in S
      THEN Holding(q, a) \cup {Len(q) + 1} ELSE Holding(q, a)

\* What a message adds to the notifications of an attribute.
LEMMA SendHolding ==
    ASSUME NEW f, link[f] = "open", NEW q \in Seq(Callback), NEW kind \in Kinds,
           NEW S \in SUBSET Attribute, NEW a
    PROVE  Holding(SendToFederate(f, q, kind, S), a) = HoldingAfter(q, kind, S, a)
<1> USE DEF HoldingAfter
<1> DEFINE r == SendToFederate(f, q, kind, S)
<1>0. Sent(f, q, kind, S, r)
    BY SendPlaces, Zenon
<1> HIDE DEF r
<1>1. CASE S = {}
    <2>1. Holding(r, a) = Holding(q, a)
        BY <1>0, <1>1 DEF Sent
    <2> QED BY <1>1, <2>1 DEF r
<1>2. CASE S # {}
    <2>1. /\ Len(r) = Len(q) + 1
          /\ \A i \in 1 .. Len(q) : r[i] = q[i]
          /\ r[Len(q) + 1] = [kind |-> kind, attributes |-> S]
        BY <1>0, <1>2 DEF Sent
    <2>2. Len(q) \in Nat
        BY LenProperties
    <2>3. 1 .. Len(r) = (1 .. Len(q)) \cup {Len(q) + 1}
        BY <2>1, <2>2
    <2>4. r[Len(q) + 1].kind = kind /\ r[Len(q) + 1].attributes = S
        BY <2>1
    <2>5. Holding(r, a) = IF kind = "acquired" /\ a \in S
                            THEN Holding(q, a) \cup {Len(q) + 1} ELSE Holding(q, a)
        BY <2>1, <2>3, <2>4 DEF Holding
    <2> QED BY <2>5 DEF r
<1> QED
    BY <1>1, <1>2

\* A message of another kind leaves the messages of a kind alone.
LEMMA SendOfKind ==
    ASSUME NEW f, NEW q \in Seq(Callback), NEW kind \in Kinds,
           NEW S \in SUBSET Attribute, NEW other, kind # other \/ S = {}
    PROVE  OfKind(SendToFederate(f, q, kind, S), other) = OfKind(q, other)
<1> DEFINE r == SendToFederate(f, q, kind, S)
<1>0. Sent(f, q, kind, S, r)
    BY SendPlaces, Zenon
<1> HIDE DEF r
<1>1. CASE r = q
    <2>1. OfKind(r, other) = OfKind(q, other)
        BY <1>1
    <2> QED BY <2>1 DEF r
<1>2. CASE r # q
    <2>1. /\ Len(r) = Len(q) + 1
          /\ \A i \in 1 .. Len(q) : r[i] = q[i]
          /\ r[Len(q) + 1] = [kind |-> kind, attributes |-> S]
          /\ S # {}
        BY <1>0, <1>2 DEF Sent
    <2>2. Len(q) \in Nat
        BY LenProperties
    <2>3. 1 .. Len(r) = (1 .. Len(q)) \cup {Len(q) + 1}
        BY <2>1, <2>2
    <2>4. r[Len(q) + 1].kind # other
        BY <2>1
    <2>5. OfKind(r, other) = OfKind(q, other)
        BY <2>1, <2>3, <2>4 DEF OfKind
    <2> QED BY <2>5 DEF r
<1> QED
    BY <1>1, <1>2

\* The tail of a queue has the notifications of the queue, but for the first.
LEMMA TailHolding ==
    ASSUME NEW q \in Seq(Callback), q # <<>>, NEW a
    PROVE  Holding(Tail(q), a) = {i - 1 : i \in Holding(q, a) \ {1}}
<1>1. /\ Len(Tail(q)) = Len(q) - 1 /\ Len(q) \in Nat /\ Len(q) > 0
      /\ \A i \in 1 .. Len(Tail(q)) : Tail(q)[i] = q[i + 1]
    BY HeadTailProperties, EmptySeq, LenProperties
<1>2. ASSUME NEW j \in Holding(Tail(q), a)
      PROVE  j \in {i - 1 : i \in Holding(q, a) \ {1}}
    <2>1. j \in 1 .. Len(Tail(q)) /\ q[j + 1].kind = "acquired"
            /\ a \in q[j + 1].attributes
        BY <1>1 DEF Holding
    <2>2. j + 1 \in Holding(q, a) \ {1} /\ j = (j + 1) - 1
        BY <1>1, <2>1 DEF Holding
    <2> QED BY <2>2
<1>3. ASSUME NEW i \in Holding(q, a) \ {1}
      PROVE  i - 1 \in Holding(Tail(q), a)
    <2>1. i \in 2 .. Len(q) /\ q[i].kind = "acquired" /\ a \in q[i].attributes
        BY <1>1 DEF Holding
    <2>2. i - 1 \in 1 .. Len(Tail(q)) /\ (i - 1) + 1 = i
        BY <1>1, <2>1
    <2>3. Tail(q)[i - 1] = q[i]
        BY <1>1, <2>2
    <2> QED BY <2>1, <2>2, <2>3 DEF Holding
<1> QED
    BY <1>2, <1>3

\* The tail of a queue has no message of a kind the queue has none of.
LEMMA TailOfKind ==
    ASSUME NEW q \in Seq(Callback), q # <<>>, NEW kind, OfKind(q, kind) = {}
    PROVE  OfKind(Tail(q), kind) = {} /\ Head(q).kind # kind
<1>1. /\ Len(Tail(q)) = Len(q) - 1 /\ Len(q) \in Nat /\ Len(q) > 0
      /\ \A i \in 1 .. Len(Tail(q)) : Tail(q)[i] = q[i + 1]
      /\ Head(q) = q[1]
    BY HeadTailProperties, EmptySeq, LenProperties
<1>2. \A i \in 1 .. Len(q) : q[i].kind # kind
    BY DEF OfKind
<1>3. \A i \in 1 .. Len(Tail(q)) : Tail(q)[i].kind # kind
    BY <1>1, <1>2
<1> QED
    BY <1>1, <1>2, <1>3 DEF OfKind

-----------------------------------------------------------------------------
(* The steps of the federates. *)

\* Nothing changes for f and a.
LEMMA AgreeKept ==
    ASSUME NEW f, NEW a, AgreeAt(f, a),
           a \in believes'[f] <=> a \in believes[f],
           Holding(callbacks'[f], a) = Holding(callbacks[f], a),
           a \in Giving(f)' <=> a \in Giving(f),
           owner'[a] = f <=> owner[a] = f
    PROVE  AgreeAt(f, a)'
BY DEF AgreeAt, Once, Free

\* A call by which f does not give a away changes nothing for f and a.
LEMMA CallAgreement ==
    ASSUME TypeOK, ReplyIsAwaited, NEW f \in Federate, NEW a \in Attribute,
           AgreeAt(f, a), NEW service, NEW S, Call(f, service, S),
           service \notin GivingServices \/ a \notin S,
           a \in believes'[f] <=> a \in believes[f]
    PROVE  AgreeAt(f, a)'
<1>1. request[f] = NoRequest /\ request'[f] = [service |-> service, attributes |-> S]
    BY DEF Call, Idle, TypeOK
<1>2. a \notin Giving(f)
    BY <1>1 DEF Giving, NoRequest
<1>3. a \notin Giving(f)'
    BY <1>1 DEF Giving
<1>4. UNCHANGED <<callbacks, owner>>
    BY DEF Call, attributeVars
<1> QED
    BY <1>2, <1>3, <1>4, AgreeKept

\* A step of f changes nothing for another federate.
LEMMA OtherAgreement ==
    ASSUME TypeOK, NEW f \in Federate, FederateStep(f), NEW g \in Federate, g # f,
           NEW a, AgreeAt(g, a)
    PROVE  AgreeAt(g, a)'
<1>1. /\ believes'[g] = believes[g] /\ callbacks'[g] = callbacks[g]
      /\ request'[g] = request[g] /\ reply'[g] = reply[g] /\ owner' = owner
    BY DEF TypeOK, FederateStep, Give, Offer, Acquire, Query, Leave, Call, Return, Deliver,
           Die, attributeVars
<1>2. a \in Giving(g)' <=> a \in Giving(g)
    BY <1>1 DEF Giving
<1> QED
    BY <1>1, <1>2, AgreeKept

\* A federate that gives an attribute away stops believing it is its own.
LEMMA GiveAgreement ==
    ASSUME TypeOK, ReplyIsAwaited, NEW f \in Federate, NEW a \in Attribute,
           AgreeAt(f, a), Give(f)
    PROVE  AgreeAt(f, a)'
<1>1. PICK service \in GivingServices, S \in Lists :
         /\ S \subseteq believes[f]
         /\ Call(f, service, S)
         /\ believes' = [believes EXCEPT ![f] = @ \ S]
    BY DEF Give
<1>2. believes'[f] = believes[f] \ S
    BY <1>1 DEF TypeOK
<1>3. CASE a \notin S
    BY <1>1, <1>2, <1>3, CallAgreement
<1>4. CASE a \in S
    <2>1. /\ request[f] = NoRequest /\ reply[f] = "none" /\ reply' = reply
          /\ request'[f] = [service |-> service, attributes |-> S]
          /\ UNCHANGED <<callbacks, owner>>
        BY <1>1 DEF Call, Idle, TypeOK, ReplyIsAwaited, attributeVars
    <2>2. a \in Giving(f)'
        BY <1>4, <2>1 DEF Giving
    <2>3. a \in believes[f] /\ a \notin believes'[f]
        BY <1>1, <1>2, <1>4
    <2> QED
        BY <2>1, <2>2, <2>3 DEF AgreeAt, Once, Free
<1> QED
    BY <1>3, <1>4

\* A federate that is refused takes back what it was giving away.
LEMMA ReturnAgreement ==
    ASSUME TypeOK, NEW f \in Federate, NEW a \in Attribute, AgreeAt(f, a), Return(f)
    PROVE  AgreeAt(f, a)'
<1>1. /\ reply[f] # "none" /\ request'[f] = NoRequest
      /\ believes'[f] = IF reply[f] = "refused" /\ request[f].service \in GivingServices
                          THEN believes[f] \cup request[f].attributes ELSE believes[f]
      /\ UNCHANGED <<callbacks, owner>>
    BY DEF Return, TypeOK, attributeVars
<1>2. a \notin Giving(f)'
    BY <1>1 DEF Giving, NoRequest
<1>3. CASE a \notin Giving(f)
    <2>1. believes'[f] = believes[f] \/ a \notin request[f].attributes
        BY <1>1, <1>3 DEF Giving
    <2> QED
        BY <1>1, <1>2, <1>3, <2>1, AgreeKept
<1>4. CASE a \in Giving(f)
    <2>1. a \in believes'[f]
        BY <1>1, <1>4 DEF Giving, TypeOK
    <2> QED
        BY <1>1, <1>2, <1>4, <2>1 DEF AgreeAt, Once, Free
<1> QED
    BY <1>3, <1>4

\* A notification that is delivered is believed.
LEMMA DeliverAgreement ==
    ASSUME TypeOK, NEW f \in Federate, NEW a \in Attribute, AgreeAt(f, a), Deliver(f),
           OfKind(callbacks[f], "divested") = {}
    PROVE  AgreeAt(f, a)'
<1> DEFINE q == callbacks[f]
           m == Head(q)
<1>1. q \in Seq(Callback) /\ q # <<>>
    BY DEF Deliver, TypeOK
<1>2. /\ believes'[f] = IF m.kind = "acquired" THEN believes[f] \cup m.attributes
                        ELSE IF m.kind = "divested" THEN believes[f] \ m.attributes
                        ELSE believes[f]
      /\ callbacks'[f] = Tail(q)
      /\ UNCHANGED <<owner, request, reply>>
    BY DEF Deliver, TypeOK, attributeVars
<1>3. m.kind # "divested"
    BY <1>1, TailOfKind
<1>4. Holding(callbacks'[f], a) = {i - 1 : i \in Holding(q, a) \ {1}}
    BY <1>1, <1>2, TailHolding
<1>5. a \in Giving(f)' <=> a \in Giving(f)
    BY <1>2 DEF Giving
<1>6. 1 \in Holding(q, a) <=> m.kind = "acquired" /\ a \in m.attributes
    <2>1. Len(q) \in Nat /\ Len(q) > 0 /\ m = q[1]
        BY <1>1, HeadTailProperties, EmptySeq, LenProperties
    <2> HIDE DEF q, m
    <2> QED BY <2>1 DEF Holding
<1> HIDE DEF q, m
<1>7. CASE 1 \in Holding(q, a)
    <2>1. Holding(q, a) = {1} /\ owner[a] = f /\ a \notin Giving(f)
        BY <1>7 DEF AgreeAt, Once, Free, q
    <2>2. Holding(callbacks'[f], a) = {}
        BY <1>4, <2>1
    <2>3. a \in believes'[f]
        BY <1>2, <1>6, <1>7
    <2> QED
        BY <1>2, <1>5, <2>1, <2>2, <2>3 DEF AgreeAt, Once
<1>8. CASE 1 \notin Holding(q, a)
    <2>1. a \in believes'[f] <=> a \in believes[f]
        BY <1>2, <1>3, <1>6, <1>8
    <2>2. Holding(q, a) = {} => Holding(callbacks'[f], a) = {}
        BY <1>4
    <2>3. ASSUME NEW i \in Nat, Holding(q, a) = {i}
          PROVE  i - 1 \in Nat /\ Holding(callbacks'[f], a) = {i - 1}
        <3>1. i # 1 /\ i \in 1 .. Len(q)
            BY <1>8, <2>3 DEF Holding
        <3>2. Holding(callbacks'[f], a) = {i - 1}
            BY <1>4, <2>3, <3>1
        <3> QED BY <3>1, <3>2
    <2> QED
        BY <1>2, <1>5, <2>1, <2>2, <2>3 DEF AgreeAt, Once, Free, q
<1> QED
    BY <1>7, <1>8

\* The steps of a federate keep the agreement.
LEMMA FederateAgreement ==
    ASSUME AgreementInv, rtigUp, NEW f \in Federate, FederateStep(f),
           NEW g \in Federate, Present(g)', NEW a \in Attribute, AgreeAt(g, a)
    PROVE  AgreeAt(g, a)'
<1> USE DEF AgreementInv
<1>1. CASE g # f
    BY <1>1, OtherAgreement
<1>2. CASE g = f /\ Give(f)
    BY <1>2, GiveAgreement
<1>3. CASE g = f /\ (Offer(f) \/ Acquire(f) \/ Query(f) \/ Leave(f))
    <2>1. PICK service, S : /\ Call(f, service, S) /\ service \notin GivingServices
                            /\ UNCHANGED believes
        BY <1>3 DEF Offer, Acquire, Query, Leave, GivingServices, AcquiringServices
    <2> QED
        BY <1>3, <2>1, CallAgreement
<1>4. CASE g = f /\ Return(f)
    BY <1>4, ReturnAgreement
<1>5. CASE g = f /\ Deliver(f)
    <2>1. OfKind(callbacks[f], "divested") = {}
        BY DEF NoneDivested
    <2> QED
        BY <1>5, <2>1, DeliverAgreement
<1>6. CASE g = f /\ Die(f)
    BY <1>6 DEF Die, Present, TypeOK
<1> QED
    BY <1>1, <1>2, <1>3, <1>4, <1>5, <1>6 DEF FederateStep

-----------------------------------------------------------------------------
(* The steps of the RTIG. *)

\* A request of f that is not one to give a away may be answered.
LEMMA AnswerAgreement ==
    ASSUME NEW f \in Federate, NEW g \in Federate, NEW a \in Attribute,
           reply \in [Federate -> {"none", "ok", "refused"}], reply[f] = "none",
           UNCHANGED request,
           \/ reply' = reply \/ Answer(f, "refused")
           \/ Answer(f, "ok") /\ request[f].service \notin GivingServices
           \/ Answer(f, "ok") /\ a \notin request[f].attributes
    PROVE  a \in Giving(g)' <=> a \in Giving(g)
BY DEF Giving, Answer

\* A federate that is not the owner takes an attribute over and is told.
LEMMA TakenAgreement ==
    ASSUME NEW f \in Federate, NEW g \in Federate, NEW a \in Attribute, AgreeAt(g, a),
           owner[a] # g, UNCHANGED believes, a \notin Giving(g)', owner'[a] = f,
           g # f => Holding(callbacks'[g], a) = Holding(callbacks[g], a),
           g = f => \E i \in Nat : Holding(callbacks'[g], a)
                                   = Holding(callbacks[g], a) \cup {i}
    PROVE  AgreeAt(g, a)'
BY DEF AgreeAt, Once, Free

\* The callbacks that an acquisition sends: the caller is told what it takes.
LEMMA AcquiringHolding ==
    ASSUME TypeOK, NEW g \in Federate, link[g] = "open", NEW a \in Attribute,
           NEW taken \in SUBSET Attribute, NEW S2 \in SUBSET Attribute,
           NEW S3 \in SUBSET Attribute, NEW kind \in Kinds \ {"acquired"},
           callbacks'[g] = SendToFederate(g,
               SendToFederate(g, SendToFederate(g, callbacks[g], "acquired", taken),
                              "divested", S2), kind, S3)
    PROVE  Holding(callbacks'[g], a) = HoldingAfter(callbacks[g], "acquired", taken, a)
<1> DEFINE q1 == SendToFederate(g, callbacks[g], "acquired", taken)
           q2 == SendToFederate(g, q1, "divested", S2)
<1>1. /\ callbacks[g] \in Seq(Callback)
      /\ "acquired" \in Kinds /\ "divested" \in Kinds
    BY DEF TypeOK, Kinds
<1>2. q1 \in Seq(Callback)
    BY <1>1, SendType
<1>3. Holding(q1, a) = HoldingAfter(callbacks[g], "acquired", taken, a)
    BY <1>1, SendHolding
<1> HIDE DEF q1
<1>4. q2 \in Seq(Callback)
    BY <1>1, <1>2, SendType
<1>5. Holding(q2, a) = Holding(q1, a)
    BY <1>1, <1>2, SendHolding DEF HoldingAfter
<1>6. callbacks'[g] = SendToFederate(g, q2, kind, S3)
    BY DEF q1
<1> HIDE DEF q2
<1>7. Holding(callbacks'[g], a) = Holding(q2, a)
    BY <1>4, <1>6, SendHolding DEF HoldingAfter
<1> QED
    BY <1>3, <1>5, <1>7

\* The steps by which attributes are asked for keep the agreement.
LEMMA AcquiringAgreement ==
    ASSUME AgreementInv, rtigUp, NEW f \in Federate,
           \/ AttributeOwnershipAcquisition(f)
           \/ AttributeOwnershipAcquisitionIfAvailable(f),
           ~ Refuse(f),
           NEW g \in Federate, Present(g), NEW a \in Attribute, AgreeAt(g, a)
    PROVE  AgreeAt(g, a)'
<1> DEFINE S == request[f].attributes
           taken == Available(S)
           Taken(h) == IF h = f THEN taken ELSE {}
<1> USE DEF AgreementInv
<1>1. S \in SUBSET Attribute /\ taken \in SUBSET Attribute /\ taken \subseteq S
    BY DEF TypeOK, Request, Available
<1>2. \A b \in taken : owner[b] = NoOwner
    BY <1>1 DEF Available, NothingOffered
<1>3. /\ Serving(f, "acquisition") \/ Serving(f, "acquisitionIfAvailable")
      /\ TakeOver(f, taken) /\ Answer(f, "ok") /\ UNCHANGED <<request, believes>>
    BY DEF AttributeOwnershipAcquisition, AttributeOwnershipAcquisitionIfAvailable,
           federateVars
<1>4. \E kind \in Kinds \ {"acquired"}, S2, S3 \in SUBSET Attribute :
         callbacks'[g] = SendToFederate(g,
             SendToFederate(g, SendToFederate(g, callbacks[g], "acquired", Taken(g)),
                            "divested", S2), kind, S3)
    <2>1. DivestedOf(g, taken) \in SUBSET Attribute
        BY <1>1 DEF DivestedOf
    <2>2. CASE AttributeOwnershipAcquisition(f)
        <3> DEFINE Asked(h) == {b \in S \ taken : owner[b] = h}
        <3>1. callbacks' = [h \in Federate |->
                 SendToFederate(h,
                   SendToFederate(h,
                     SendToFederate(h, callbacks[h], "acquired", Taken(h)),
                     "divested", DivestedOf(h, taken)),
                   "release", Asked(h))]
            BY <2>2 DEF AttributeOwnershipAcquisition
        <3>2. Asked(g) \in SUBSET Attribute /\ "release" \in Kinds \ {"acquired"}
            BY <1>1 DEF Kinds
        <3> HIDE DEF Asked, Taken, taken, S
        <3> QED
            BY <2>1, <3>1, <3>2
    <2>3. CASE AttributeOwnershipAcquisitionIfAvailable(f)
        <3> DEFINE Missed(h) == IF h = f THEN S \ taken ELSE {}
        <3>1. callbacks' = [h \in Federate |->
                 SendToFederate(h,
                   SendToFederate(h,
                     SendToFederate(h, callbacks[h], "acquired", Taken(h)),
                     "divested", DivestedOf(h, taken)),
                   "unavailable", Missed(h))]
            BY <2>3 DEF AttributeOwnershipAcquisitionIfAvailable
        <3>2. Missed(g) \in SUBSET Attribute /\ "unavailable" \in Kinds \ {"acquired"}
            BY <1>1 DEF Kinds
        <3> HIDE DEF Missed, Taken, taken, S
        <3> QED
            BY <2>1, <3>1, <3>2
    <2> QED BY <2>2, <2>3
<1> HIDE DEF S, taken
<1>5. Taken(g) \in SUBSET Attribute /\ link[g] = "open"
    BY <1>1 DEF Present
<1> HIDE DEF Taken
<1>5a. PICK kind \in Kinds \ {"acquired"}, S2 \in SUBSET Attribute,
            S3 \in SUBSET Attribute :
         callbacks'[g] = SendToFederate(g,
             SendToFederate(g, SendToFederate(g, callbacks[g], "acquired", Taken(g)),
                            "divested", S2), kind, S3)
    BY <1>4
<1>5b. Holding(callbacks'[g], a) = HoldingAfter(callbacks[g], "acquired", Taken(g), a)
    BY <1>5, <1>5a, AcquiringHolding
<1>6. Holding(callbacks'[g], a) =
         IF a \in Taken(g) THEN Holding(callbacks[g], a) \cup {Len(callbacks[g]) + 1}
                           ELSE Holding(callbacks[g], a)
    BY <1>5b DEF HoldingAfter
<1>7. a \in Giving(g)' <=> a \in Giving(g)
    <2>1. request[f].service \notin GivingServices /\ reply[f] = "none"
        BY <1>3 DEF Serving, GivingServices
    <2> QED
        BY <1>3, <2>1, AnswerAgreement DEF TypeOK
<1>8. CASE a \in taken
    <2>1. owner[a] # g /\ owner'[a] = f
        BY <1>2, <1>3, <1>8, FederateAssumption DEF TakeOver, NoOwner
    <2>2. a \notin Giving(g)'
        BY <1>7, <2>1 DEF AgreeAt, Free
    <2>3. Len(callbacks[g]) + 1 \in Nat
        BY LenProperties DEF TypeOK
    <2>4. a \in Taken(g) <=> g = f
        BY <1>8 DEF Taken
    <2> QED
        BY <1>3, <1>6, <2>1, <2>2, <2>3, <2>4, TakenAgreement
<1>9. CASE a \notin taken
    <2>1. owner'[a] = owner[a]
        BY <1>3, <1>9 DEF TakeOver, TypeOK
    <2>2. a \notin Taken(g)
        BY <1>9 DEF Taken
    <2> QED
        BY <1>3, <1>6, <1>7, <2>1, <2>2, AgreeKept
<1> QED
    BY <1>8, <1>9

\* An attribute is handed over to another federate, which is told.
LEMMA HandOverAgreement ==
    ASSUME AgreementInv, rtigUp, NEW f \in Federate, NEW S \in SUBSET Attribute,
           S = request[f].attributes, HasCandidates(S) = S, Owns(f, S),
           request[f].service \in GivingServices, reply[f] = "none",
           owner' = [b \in Attribute |->
                       IF b \in S THEN GetFirstCandidate(b) ELSE owner[b]],
           SendToNewOwners(S), Answer(f, "ok"), UNCHANGED <<request, believes>>,
           NEW g \in Federate, Present(g), NEW a \in Attribute, AgreeAt(g, a)
    PROVE  AgreeAt(g, a)'
<1> USE DEF AgreementInv
<1>1. /\ callbacks[g] \in Seq(Callback) /\ "acquired" \in Kinds
      /\ HandedTo(g, S) \in SUBSET Attribute /\ link[g] = "open"
    BY DEF TypeOK, Kinds, HandedTo, Present
<1>2. callbacks'[g] = SendToFederate(g, callbacks[g], "acquired", HandedTo(g, S))
    BY DEF SendToNewOwners
<1>2a. Holding(callbacks'[g], a)
         = HoldingAfter(callbacks[g], "acquired", HandedTo(g, S), a)
    BY <1>1, <1>2, SendHolding
<1>3. Holding(callbacks'[g], a) =
         IF a \in HandedTo(g, S)
           THEN Holding(callbacks[g], a) \cup {Len(callbacks[g]) + 1}
           ELSE Holding(callbacks[g], a)
    BY <1>2a DEF HoldingAfter
<1>4. CASE a \notin S
    <2>1. a \in Giving(g)' <=> a \in Giving(g)
        BY <1>4, AnswerAgreement DEF TypeOK
    <2>2. owner'[a] = owner[a] /\ a \notin HandedTo(g, S)
        BY <1>4 DEF HandedTo
    <2> QED
        BY <1>3, <2>1, <2>2, AgreeKept
<1>5. CASE a \in S
    <2> DEFINE c == GetFirstCandidate(a)
    <2>1. c \in Federate /\ c \in candidates[a] /\ owner[a] = f /\ owner'[a] = c
        BY <1>5, HandOverType DEF Owns
    <2>2. c # f
        BY <2>1 DEF OwnerIsNoCandidate
    <2>3. a \in HandedTo(g, S) <=> g = c
        BY <1>5 DEF HandedTo
    <2> HIDE DEF c
    <2>4. CASE g = f
        <3>1. a \in Giving(g) /\ a \notin Giving(g)'
            BY <1>5, <2>4 DEF Giving, Answer, TypeOK
        <3> QED
            BY <1>3, <2>1, <2>2, <2>3, <2>4, <3>1 DEF AgreeAt, Once, Free
    <2>5. CASE g # f
        <3>1. a \notin Giving(g)' /\ owner[a] # g
            BY <2>1, <2>5 DEF AgreeAt, Free, Giving, Answer
        <3>2. Len(callbacks[g]) + 1 \in Nat
            BY LenProperties DEF TypeOK
        <3> QED
            BY <1>3, <2>1, <2>3, <3>1, <3>2, TakenAgreement
    <2> QED BY <2>4, <2>5
<1> QED
    BY <1>4, <1>5

\* A message about something else changes no notification of the federates.
LEMMA SentAgreement ==
    ASSUME TypeOK, NEW f \in Federate, NEW kind \in Kinds \ {"acquired"},
           NEW S \in SUBSET Attribute, NEW q \in Seq(Callback), NEW a,
           link[f] = "open"
    PROVE  Holding(SendToFederate(f, q, kind, S), a) = Holding(q, a)
BY SendHolding DEF HoldingAfter

\* The other steps of the RTIG keep the agreement.
LEMMA OtherServiceAgreement ==
    ASSUME AgreementInv, rtigUp, NEW f \in Federate,
           \/ CancelNegotiatedAttributeOwnershipDivestiture(f)
           \/ CancelAttributeOwnershipAcquisition(f)
           \/ QueryAttributeOwnership(f)
           \/ Resign(f)
           \/ KillFederate(f)
           \/ Refuse(f) /\ UNCHANGED federateVars,
           reply[f] = "none" \/ KillFederate(f), exists',
           NEW g \in Federate, Present(g), Present(g)', NEW a \in Attribute, AgreeAt(g, a)
    PROVE  AgreeAt(g, a)'
<1> USE DEF AgreementInv, federateVars, attributeVars
<1>1. ASSUME UNCHANGED <<believes, callbacks>>, owner'[a] = g <=> owner[a] = g,
             a \in Giving(g)' <=> a \in Giving(g)
      PROVE  AgreeAt(g, a)'
    BY <1>1, AgreeKept
<1>2. ASSUME UNCHANGED request,
             \/ reply' = reply
             \/ Answer(f, "refused") /\ reply[f] = "none"
             \/ /\ Answer(f, "ok") /\ reply[f] = "none"
                /\ request[f].service \notin GivingServices
      PROVE  a \in Giving(g)' <=> a \in Giving(g)
    <2>1. CASE reply' = reply
        BY <1>2, <2>1 DEF Giving
    <2>2. CASE reply' # reply
        BY <1>2, <2>2, AnswerAgreement DEF TypeOK
    <2> QED BY <2>1, <2>2
<1>3. CASE Refuse(f) /\ UNCHANGED federateVars
    <2>1. reply[f] = "none"
        BY <1>3, FederateAssumption DEF KillFederate, Refuse, Answer, TypeOK
    <2> QED
        BY <1>1, <1>2, <1>3, <2>1 DEF Refuse
<1>4. CASE CancelNegotiatedAttributeOwnershipDivestiture(f) /\ ~ Refuse(f)
    <2>1. /\ UNCHANGED <<believes, callbacks, owner, request>>
          /\ Answer(f, "ok") /\ request[f].service \notin GivingServices
          /\ reply[f] = "none"
        BY <1>4 DEF CancelNegotiatedAttributeOwnershipDivestiture, Serving, GivingServices
    <2> QED
        BY <1>1, <1>2, <2>1
<1>5. CASE CancelAttributeOwnershipAcquisition(f) /\ ~ Refuse(f)
    <2>1. /\ UNCHANGED <<believes, owner, request>>
          /\ Answer(f, "ok") /\ request[f].service \notin GivingServices
          /\ reply[f] = "none"
          /\ callbacks' = [callbacks EXCEPT ![f] =
                 SendToFederate(f, @, "cancelled", request[f].attributes)]
        BY <1>5 DEF CancelAttributeOwnershipAcquisition, Serving, GivingServices
    <2>2. Holding(callbacks'[g], a) = Holding(callbacks[g], a)
        <3>1. CASE g # f
            BY <2>1, <3>1 DEF TypeOK
        <3>2. CASE g = f
            <4>1. /\ "cancelled" \in Kinds \ {"acquired"}
                  /\ request[f].attributes \in SUBSET Attribute
                  /\ callbacks[f] \in Seq(Callback) /\ link[f] = "open"
                BY <3>2 DEF Kinds, TypeOK, Request, Present
            <4>2. callbacks'[f]
                    = SendToFederate(f, callbacks[f], "cancelled", request[f].attributes)
                BY <2>1 DEF TypeOK
            <4> QED
                BY <3>2, <4>1, <4>2, SentAgreement
        <3> QED BY <3>1, <3>2
    <2> QED
        BY <1>2, <2>1, <2>2, AgreeKept
<1>6. CASE QueryAttributeOwnership(f) /\ ~ Refuse(f)
    <2> DEFINE S == request[f].attributes
               free == {b \in S : owner[b] = NoOwner}
    <2>1. /\ UNCHANGED <<believes, owner, request>>
          /\ Answer(f, "ok") /\ request[f].service \notin GivingServices
          /\ reply[f] = "none"
          /\ callbacks' = [callbacks EXCEPT ![f] =
                 SendToFederate(f, SendToFederate(f, @, "informed", S \ free),
                                "unowned", free)]
        BY <1>6 DEF QueryAttributeOwnership, Serving, GivingServices
    <2>2. S \ free \in SUBSET Attribute /\ free \in SUBSET Attribute
        BY DEF TypeOK, Request
    <2> HIDE DEF S, free
    <2>3. Holding(callbacks'[g], a) = Holding(callbacks[g], a)
        <3>1. CASE g # f
            BY <2>1, <3>1 DEF TypeOK
        <3>2. CASE g = f
            <4> DEFINE q == SendToFederate(f, callbacks[f], "informed", S \ free)
            <4>1. /\ "informed" \in Kinds \ {"acquired"} /\ "unowned" \in Kinds \ {"acquired"}
                  /\ callbacks[f] \in Seq(Callback) /\ link[f] = "open"
                BY <3>2 DEF Kinds, TypeOK, Present
            <4>2. callbacks'[f] = SendToFederate(f, q, "unowned", free)
                BY <2>1 DEF TypeOK
            <4>3. q \in Seq(Callback) /\ Holding(q, a) = Holding(callbacks[f], a)
                BY <2>2, <4>1, SentAgreement, SendType
            <4> HIDE DEF q
            <4>4. Holding(SendToFederate(f, q, "unowned", free), a) = Holding(q, a)
                BY <2>2, <4>1, <4>3, SentAgreement
            <4> QED
                BY <3>2, <4>2, <4>3, <4>4
        <3> QED BY <3>1, <3>2
    <2> QED
        BY <1>2, <2>1, <2>3, AgreeKept
<1>7. CASE Resign(f) /\ ~ Refuse(f)
    <2>1. /\ UNCHANGED <<believes, callbacks, owner, request>>
          /\ Answer(f, "ok") /\ request[f].service \notin GivingServices
          /\ reply[f] = "none"
        BY <1>7 DEF Resign, Serving, GivingServices
    <2> QED
        BY <1>1, <1>2, <2>1
<1>8. CASE KillFederate(f)
    <2>1. UNCHANGED <<believes, callbacks, request, reply>> /\ g # f
        BY <1>8 DEF KillFederate, Present
    <2>2. owner'[a] = g <=> owner[a] = g
        BY <1>8, <2>1, FederateAssumption DEF KillFederate, NoOwner, TypeOK
    <2>3. a \in Giving(g)' <=> a \in Giving(g)
        BY <2>1 DEF Giving
    <2> QED
        BY <2>1, <2>2, <2>3, AgreeKept
<1> QED
    BY <1>3, <1>4, <1>5, <1>6, <1>7, <1>8 DEF CancelNegotiatedAttributeOwnershipDivestiture,
       CancelAttributeOwnershipAcquisition, QueryAttributeOwnership, Resign, KillFederate

-----------------------------------------------------------------------------
(* The invariant. *)

\* What is lost stays lost.
LEMMA NothingComesBack ==
    ASSUME TypeOK, [Next]_vars
    PROVE  /\ rtigUp' => rtigUp
           /\ exists' => exists
           /\ doubt \subseteq doubt'
           /\ \A g \in Federate : Present(g)' => Present(g)
<1> USE DEF Present, attributeVars, federateVars
<1>1. CASE UNCHANGED vars
    BY <1>1 DEF vars
<1>2. ASSUME NEW f \in Federate, FederateStep(f)
      PROVE  /\ UNCHANGED <<rtigUp, exists, doubt, members>>
             /\ \A g \in Federate : link'[g] = "open" => link[g] = "open"
    <2>1. CASE Give(f) \/ Offer(f) \/ Acquire(f) \/ Query(f) \/ Leave(f)
        BY <2>1 DEF Give, Offer, Acquire, Query, Leave, Call
    <2>2. CASE Return(f)
        BY <2>2 DEF Return, TypeOK
    <2>3. CASE Deliver(f)
        BY <2>3 DEF Deliver
    <2>4. CASE Die(f)
        BY <2>4 DEF Die, TypeOK
    <2> QED
        BY <1>2, <2>1, <2>2, <2>3, <2>4 DEF FederateStep
<1>3. ASSUME NEW f \in Federate, RtigStep(f)
      PROVE  /\ rtigUp' => rtigUp
             /\ exists' => exists
             /\ doubt \subseteq doubt'
             /\ members' \subseteq members
             /\ link' = link
    <2>1. CASE AttributeOwnershipAcquisition(f) \/ AttributeOwnershipAcquisitionIfAvailable(f)
        BY <2>1 DEF AttributeOwnershipAcquisition, AttributeOwnershipAcquisitionIfAvailable,
                    Refuse
    <2>2. CASE \/ UnconditionalAttributeOwnershipDivestiture(f)
               \/ NegotiatedAttributeOwnershipDivestiture(f)
               \/ AttributeOwnershipReleaseResponse(f)
        BY <2>2 DEF UnconditionalAttributeOwnershipDivestiture,
                    NegotiatedAttributeOwnershipDivestiture,
                    AttributeOwnershipReleaseResponse, Refuse
    <2>3. CASE \/ CancelNegotiatedAttributeOwnershipDivestiture(f)
               \/ CancelAttributeOwnershipAcquisition(f)
               \/ QueryAttributeOwnership(f)
        BY <2>3 DEF CancelNegotiatedAttributeOwnershipDivestiture,
                    CancelAttributeOwnershipAcquisition, QueryAttributeOwnership, Refuse
    <2>4. CASE DeleteObject(f) \/ Resign(f) \/ KillFederate(f)
        BY <2>4 DEF DeleteObject, Resign, KillFederate, Refuse
    <2> QED
        BY <1>3, <2>1, <2>2, <2>3, <2>4 DEF RtigStep
<1> QED
    BY <1>1, <1>2, <1>3 DEF Next

\* Every step keeps the agreement.
LEMMA AgreementStep ==
    ASSUME AgreementInv, [Next]_vars
    PROVE  Agreement'
<1> SUFFICES ASSUME rtigUp', exists', NEW g \in Federate, NEW a \in Attribute \ doubt',
                    Present(g)'
             PROVE  AgreeAt(g, a)'
    BY DEF Agreement
<1>1. rtigUp /\ exists /\ Present(g) /\ a \in Attribute \ doubt
    BY NothingComesBack DEF AgreementInv
<1>2. AgreeAt(g, a)
    BY <1>1 DEF AgreementInv, Agreement
<1>3. CASE UNCHANGED vars
    BY <1>2, <1>3, AgreeKept DEF vars, attributeVars, federateVars, Giving
<1>4. ASSUME NEW f \in Federate, FederateStep(f)
      PROVE  AgreeAt(g, a)'
    BY <1>1, <1>2, <1>4, FederateAgreement
<1>5. ASSUME NEW f \in Federate, RtigStep(f)
      PROVE  AgreeAt(g, a)'
    <2>1. CASE \/ AttributeOwnershipAcquisition(f)
               \/ AttributeOwnershipAcquisitionIfAvailable(f)
        <3>1. CASE ~ Refuse(f)
            BY <1>1, <1>2, <2>1, <3>1, AcquiringAgreement
        <3>2. CASE Refuse(f)
            <4>1. UNCHANGED federateVars /\ reply[f] = "none"
                BY <2>1 DEF AttributeOwnershipAcquisition, Serving,
                            AttributeOwnershipAcquisitionIfAvailable
            <4> QED
                BY <1>1, <1>2, <3>2, <4>1, OtherServiceAgreement
        <3> QED BY <3>1, <3>2
    <2>2. CASE UnconditionalAttributeOwnershipDivestiture(f)
        <3> DEFINE S == request[f].attributes
                   given == HasCandidates(S)
        <3>1. /\ UNCHANGED federateVars /\ reply[f] = "none"
              /\ request[f].service \in GivingServices
              /\ S \in SUBSET Attribute /\ given \subseteq S
            BY <2>2 DEF UnconditionalAttributeOwnershipDivestiture, Serving,
                        GivingServices, AgreementInv, TypeOK, Request, HasCandidates
        <3>2. CASE Refuse(f)
            BY <1>1, <1>2, <3>1, <3>2, OtherServiceAgreement
        <3>3. CASE ~ Refuse(f) /\ S \ given = {}
            <4>1. /\ Owns(f, S) /\ given = S
                  /\ owner' = [b \in Attribute |->
                        IF b \in given THEN GetFirstCandidate(b)
                        ELSE IF b \in S \ given THEN NoOwner ELSE owner[b]]
                  /\ Answer(f, "ok") /\ SendToNewOwners(given)
                BY <2>2, <3>1, <3>3 DEF UnconditionalAttributeOwnershipDivestiture
            <4>2. owner' = [b \in Attribute |->
                        IF b \in S THEN GetFirstCandidate(b) ELSE owner[b]]
                BY <4>1
            <4> HIDE DEF S
            <4> QED
                BY <1>1, <1>2, <3>1, <4>1, <4>2, HandOverAgreement DEF federateVars, S
        <3>4. CASE ~ Refuse(f) /\ S \ given # {}
            <4>1. /\ owner' = [b \in Attribute |->
                        IF b \in given THEN GetFirstCandidate(b)
                        ELSE IF b \in S \ given THEN NoOwner ELSE owner[b]]
                  /\ Answer(f, "refused") /\ doubt' = doubt \cup S
                  /\ UNCHANGED callbacks
                BY <2>2, <3>4 DEF UnconditionalAttributeOwnershipDivestiture
            <4>2. owner'[a] = owner[a]
                BY <3>1, <4>1
            <4>3. a \in Giving(g)' <=> a \in Giving(g)
                BY <3>1, <4>1, AnswerAgreement DEF AgreementInv, TypeOK, federateVars
            <4> QED
                BY <1>2, <3>1, <4>1, <4>2, <4>3, AgreeKept DEF federateVars
        <3> QED BY <3>2, <3>3, <3>4
    <2>3. CASE NegotiatedAttributeOwnershipDivestiture(f)
        <3>1. UNCHANGED federateVars /\ reply[f] = "none" /\ Refuse(f)
            BY <2>3 DEF NegotiatedAttributeOwnershipDivestiture, Serving
        <3> QED
            BY <1>1, <1>2, <3>1, OtherServiceAgreement
    <2>4. CASE AttributeOwnershipReleaseResponse(f)
        <3> DEFINE S == request[f].attributes
        <3>1. /\ UNCHANGED federateVars /\ reply[f] = "none"
              /\ request[f].service \in GivingServices
              /\ S \in SUBSET Attribute
            BY <2>4 DEF AttributeOwnershipReleaseResponse, Serving, GivingServices,
                        AgreementInv, TypeOK, Request
        <3>2. CASE Refuse(f)
            BY <1>1, <1>2, <3>1, <3>2, OtherServiceAgreement
        <3>3. CASE ~ Refuse(f)
            <4>1. /\ Owns(f, S) /\ HasCandidates(S) = S
                  /\ owner' = [b \in Attribute |->
                        IF b \in S THEN GetFirstCandidate(b) ELSE owner[b]]
                  /\ Answer(f, "ok") /\ SendToNewOwners(S)
                BY <2>4, <3>3 DEF AttributeOwnershipReleaseResponse, HandOver
            <4> HIDE DEF S
            <4> QED
                BY <1>1, <1>2, <3>1, <4>1, HandOverAgreement DEF federateVars, S
        <3> QED BY <3>2, <3>3
    <2>5. CASE \/ CancelNegotiatedAttributeOwnershipDivestiture(f)
               \/ CancelAttributeOwnershipAcquisition(f)
               \/ QueryAttributeOwnership(f)
               \/ Resign(f) \/ KillFederate(f)
        <3>1. reply[f] = "none" \/ KillFederate(f)
            BY <2>5 DEF CancelNegotiatedAttributeOwnershipDivestiture, Serving,
                        CancelAttributeOwnershipAcquisition, QueryAttributeOwnership,
                        Resign
        <3> QED
            BY <1>1, <1>2, <2>5, <3>1, OtherServiceAgreement
    <2>6. CASE DeleteObject(f)
        <3>1. UNCHANGED federateVars /\ reply[f] = "none" /\ Refuse(f)
            BY <2>6 DEF DeleteObject, Serving
        <3> QED
            BY <1>1, <1>2, <3>1, OtherServiceAgreement
    <2> QED
        BY <1>5, <2>1, <2>2, <2>3, <2>4, <2>5, <2>6 DEF RtigStep
<1> QED
    BY <1>3, <1>4, <1>5 DEF Next

\* A reply is taken before the next request.
LEMMA ReplyStep ==
    ASSUME TypeOK, ReplyIsAwaited, [Next]_vars
    PROVE  ReplyIsAwaited'
<1> USE DEF ReplyIsAwaited, attributeVars, federateVars
<1>1. CASE UNCHANGED <<request, reply>>
    BY <1>1
<1>2. ASSUME NEW f \in Federate, FederateStep(f)
      PROVE  ReplyIsAwaited'
    <2>1. CASE Give(f) \/ Offer(f) \/ Acquire(f) \/ Query(f) \/ Leave(f)
        <3>1. PICK service, S : Call(f, service, S)
            BY <2>1 DEF Give, Offer, Acquire, Query, Leave
        <3> QED
            BY <3>1 DEF Call, Idle, TypeOK
    <2>2. CASE Return(f)
        BY <2>2 DEF Return, TypeOK
    <2>3. CASE Deliver(f) \/ Die(f)
        BY <1>1, <2>3 DEF Deliver, Die
    <2> QED
        BY <1>2, <2>1, <2>2, <2>3 DEF FederateStep
<1>3. ASSUME NEW f \in Federate, RtigStep(f)
      PROVE  ReplyIsAwaited'
    <2>1. CASE KillFederate(f)
        BY <1>1, <2>1 DEF KillFederate
    <2>2. CASE ~ KillFederate(f)
        <3>1. /\ request' = request /\ request[f] # NoRequest
              /\ \/ Answer(f, "ok") \/ Answer(f, "refused") \/ UNCHANGED reply
            BY <1>3, <2>2 DEF RtigStep, AttributeOwnershipAcquisition,
               AttributeOwnershipAcquisitionIfAvailable,
               UnconditionalAttributeOwnershipDivestiture,
               NegotiatedAttributeOwnershipDivestiture,
               CancelNegotiatedAttributeOwnershipDivestiture,
               AttributeOwnershipReleaseResponse, CancelAttributeOwnershipAcquisition,
               QueryAttributeOwnership, DeleteObject, Resign, Refuse, Serving, NoRequest
        <3> QED
            BY <3>1 DEF Answer, TypeOK
    <2> QED BY <2>1, <2>2
<1> QED
    BY <1>1, <1>2, <1>3 DEF Next, vars

\* A federate that takes an attribute is no longer a candidate for it, nor was the
\* owner ever one.
LEMMA CandidateStep ==
    ASSUME TypeOK, OwnerIsNoCandidate, [Next]_vars
    PROVE  OwnerIsNoCandidate'
<1> USE DEF OwnerIsNoCandidate, attributeVars, federateVars
<1>1. CASE UNCHANGED <<rtigUp, owner, candidates>>
    BY <1>1
<1>2. ASSUME NEW f \in Federate, FederateStep(f)
      PROVE  UNCHANGED <<rtigUp, owner, candidates>>
    BY <1>2 DEF FederateStep, Give, Offer, Acquire, Query, Leave, Call, Return, Deliver, Die
<1>3. ASSUME NEW f \in Federate, RtigStep(f), ~ Refuse(f)
      PROVE  OwnerIsNoCandidate'
    <2> DEFINE S == request[f].attributes
               given == HasCandidates(S)
    <2>1. CASE AttributeOwnershipAcquisition(f)
        <3>1. /\ rtigUp /\ rtigUp' = rtigUp /\ TakeOver(f, Available(S))
              /\ \A b \in S : owner[b] # f
              /\ candidates' = [b \in Attribute |->
                    IF b \in Available(S) THEN candidates[b] \ {f}
                    ELSE IF b \in S \ Available(S) THEN candidates[b] \cup {f}
                    ELSE candidates[b]]
            BY <1>3, <2>1 DEF AttributeOwnershipAcquisition, Serving
        <3> QED
            BY <3>1 DEF TakeOver
    <2>2. CASE AttributeOwnershipAcquisitionIfAvailable(f)
        <3>1. /\ rtigUp /\ rtigUp' = rtigUp /\ TakeOver(f, Available(S))
              /\ \A b \in S : owner[b] # f /\ f \notin candidates[b]
              /\ candidates' = [b \in Attribute |->
                    IF b \in S \ Available(S) THEN candidates[b] \cup {f}
                    ELSE candidates[b]]
            BY <1>3, <2>2 DEF AttributeOwnershipAcquisitionIfAvailable, Serving
        <3>2. Available(S) \subseteq S
            BY DEF Available
        <3> QED
            BY <3>1, <3>2 DEF TakeOver
    <2>3. CASE UnconditionalAttributeOwnershipDivestiture(f)
        <3>1. /\ rtigUp
              /\ owner' = [b \in Attribute |->
                    IF b \in given THEN GetFirstCandidate(b)
                    ELSE IF b \in S \ given THEN NoOwner ELSE owner[b]]
              /\ candidates' = [b \in Attribute |->
                    IF b \in given THEN candidates[b] \ {GetFirstCandidate(b)}
                                   ELSE candidates[b]]
            BY <1>3, <2>3 DEF UnconditionalAttributeOwnershipDivestiture, Serving
        <3>2. \A b \in Attribute : NoOwner \notin candidates[b]
            BY FederateAssumption DEF NoOwner, TypeOK
        <3> QED
            BY <3>1, <3>2
    <2>4. CASE NegotiatedAttributeOwnershipDivestiture(f)
        BY <1>3, <2>4 DEF NegotiatedAttributeOwnershipDivestiture
    <2>5. CASE AttributeOwnershipReleaseResponse(f)
        BY <1>3, <2>5 DEF AttributeOwnershipReleaseResponse, HandOver, Serving
    <2>6. CASE CancelAttributeOwnershipAcquisition(f)
        BY <1>3, <2>6 DEF CancelAttributeOwnershipAcquisition, Serving
    <2>7. CASE \/ CancelNegotiatedAttributeOwnershipDivestiture(f)
               \/ QueryAttributeOwnership(f) \/ DeleteObject(f) \/ Resign(f)
        BY <1>1, <1>3, <2>7 DEF CancelNegotiatedAttributeOwnershipDivestiture,
           QueryAttributeOwnership, DeleteObject, Resign
    <2>8. CASE KillFederate(f)
        <3>1. \A b \in Attribute : NoOwner \notin candidates[b]
            BY FederateAssumption DEF NoOwner, TypeOK
        <3> QED
            BY <2>8, <3>1 DEF KillFederate
    <2> QED
        BY <1>3, <2>1, <2>2, <2>3, <2>4, <2>5, <2>6, <2>7, <2>8 DEF RtigStep
<1>4. ASSUME NEW f \in Federate, Refuse(f)
      PROVE  OwnerIsNoCandidate'
    BY <1>1, <1>4 DEF Refuse
<1> QED
    BY <1>1, <1>2, <1>3, <1>4 DEF Next, vars

\* While the RTIG runs nobody is told to have lost an attribute unasked.
LEMMA DivestedStep ==
    ASSUME TypeOK, NothingOffered, NoneDivested, [Next]_vars
    PROVE  NoneDivested'
<1> USE DEF NoneDivested, attributeVars, federateVars
<1>1. CASE UNCHANGED <<rtigUp, callbacks>>
    BY <1>1
<1>2. ASSUME NEW f \in Federate, FederateStep(f)
      PROVE  NoneDivested'
    <2>1. CASE Deliver(f)
        <3>1. /\ callbacks[f] \in Seq(Callback) /\ callbacks[f] # <<>>
              /\ callbacks' = [callbacks EXCEPT ![f] = Tail(callbacks[f])]
              /\ rtigUp' = rtigUp
            BY <2>1 DEF Deliver, TypeOK
        <3>2. OfKind(callbacks[f], "divested") = {}
                => OfKind(Tail(callbacks[f]), "divested") = {}
            BY <3>1, TailOfKind
        <3> QED
            BY <3>1, <3>2 DEF TypeOK
    <2>2. CASE ~ Deliver(f)
        BY <1>1, <1>2, <2>2 DEF FederateStep, Give, Offer, Acquire, Query, Leave, Call,
                                Return, Die
    <2> QED BY <2>1, <2>2
<1>3. ASSUME NEW f \in Federate, RtigStep(f), ~ Refuse(f), rtigUp',
             NEW g \in Federate, OfKind(callbacks[g], "divested") = {}
      PROVE  OfKind(callbacks'[g], "divested") = {}
    <2> DEFINE S == request[f].attributes
    <2>1. /\ S \in SUBSET Attribute /\ callbacks[g] \in Seq(Callback) /\ rtigUp
          /\ {"acquired", "unavailable", "release", "divested", "cancelled", "informed",
              "unowned"} = Kinds
        BY <1>3, NothingComesBack DEF TypeOK, Request, Kinds
    <2> HIDE DEF S
    <2>2. CASE \/ AttributeOwnershipAcquisition(f)
               \/ AttributeOwnershipAcquisitionIfAvailable(f)
        <3> DEFINE taken == Available(S)
                   Taken(h) == IF h = f THEN taken ELSE {}
                   Asked(h) == {b \in S \ taken : owner[b] = h}
                   Missed(h) == IF h = f THEN S \ taken ELSE {}
                   q1 == SendToFederate(g, callbacks[g], "acquired", Taken(g))
                   q2 == SendToFederate(g, q1, "divested", DivestedOf(g, taken))
        <3>1. \/ callbacks' = [h \in Federate |->
                    SendToFederate(h,
                      SendToFederate(h,
                        SendToFederate(h, callbacks[h], "acquired", Taken(h)),
                        "divested", DivestedOf(h, taken)),
                      "release", Asked(h))]
              \/ callbacks' = [h \in Federate |->
                    SendToFederate(h,
                      SendToFederate(h,
                        SendToFederate(h, callbacks[h], "acquired", Taken(h)),
                        "divested", DivestedOf(h, taken)),
                      "unavailable", Missed(h))]
            BY <1>3, <2>2 DEF AttributeOwnershipAcquisition,
                              AttributeOwnershipAcquisitionIfAvailable, S
        <3>2. taken \in SUBSET Attribute /\ DivestedOf(g, taken) = {}
            BY <2>1 DEF Available, DivestedOf, NothingOffered
        <3> HIDE DEF taken
        <3>3. /\ Taken(g) \in SUBSET Attribute /\ Asked(g) \in SUBSET Attribute
              /\ Missed(g) \in SUBSET Attribute
            BY <2>1, <3>2
        <3> HIDE DEF Taken, Asked, Missed
        <3>4. q1 \in Seq(Callback) /\ OfKind(q1, "divested") = {}
            BY <1>3, <2>1, <3>3, SendType, SendOfKind
        <3>5. callbacks'[g] = SendToFederate(g, q2, "release", Asked(g))
                \/ callbacks'[g] = SendToFederate(g, q2, "unavailable", Missed(g))
            BY <3>1
        <3> HIDE DEF q1
        <3>6. q2 \in Seq(Callback) /\ OfKind(q2, "divested") = {}
            BY <2>1, <3>2, <3>4, SendType, SendOfKind
        <3> HIDE DEF q2
        <3> QED
            BY <2>1, <3>3, <3>5, <3>6, SendOfKind
    <2>3. CASE \/ UnconditionalAttributeOwnershipDivestiture(f)
               \/ AttributeOwnershipReleaseResponse(f)
        <3>1. UNCHANGED callbacks \/ \E T \in SUBSET Attribute : SendToNewOwners(T)
            BY <1>3, <2>1, <2>3 DEF UnconditionalAttributeOwnershipDivestiture,
               AttributeOwnershipReleaseResponse, HasCandidates, S
        <3>2. ASSUME NEW T \in SUBSET Attribute, SendToNewOwners(T)
              PROVE  OfKind(callbacks'[g], "divested") = {}
            <4>1. HandedTo(g, T) \in SUBSET Attribute
                BY DEF HandedTo
            <4>2. callbacks'[g] = SendToFederate(g, callbacks[g], "acquired", HandedTo(g, T))
                BY <3>2 DEF SendToNewOwners
            <4> QED
                BY <1>3, <2>1, <4>1, <4>2, SendOfKind
        <3> QED BY <1>3, <3>1, <3>2
    <2>4. CASE CancelAttributeOwnershipAcquisition(f)
        <3>1. callbacks' = [callbacks EXCEPT ![f] =
                 SendToFederate(f, callbacks[f], "cancelled", S)]
            BY <1>3, <2>4 DEF CancelAttributeOwnershipAcquisition, S
        <3>2. callbacks'[g] = callbacks[g]
                \/ callbacks'[g] = SendToFederate(g, callbacks[g], "cancelled", S)
            BY <3>1 DEF TypeOK
        <3> QED
            BY <1>3, <2>1, <3>2, SendOfKind
    <2>5. CASE QueryAttributeOwnership(f)
        <3> DEFINE free == {b \in S : owner[b] = NoOwner}
                   q == SendToFederate(f, callbacks[f], "informed", S \ free)
        <3>1. callbacks' = [callbacks EXCEPT ![f] = SendToFederate(f, q, "unowned", free)]
            BY <1>3, <2>5 DEF QueryAttributeOwnership, S
        <3>2. S \ free \in SUBSET Attribute /\ free \in SUBSET Attribute
            BY <2>1
        <3> HIDE DEF free
        <3>3. CASE g = f
            <4>1. q \in Seq(Callback) /\ OfKind(q, "divested") = {}
                BY <1>3, <2>1, <3>2, <3>3, SendType, SendOfKind
            <4> HIDE DEF q
            <4>2. callbacks'[g] = SendToFederate(f, q, "unowned", free)
                BY <3>1, <3>3 DEF TypeOK
            <4> QED
                BY <2>1, <3>2, <4>1, <4>2, SendOfKind
        <3>4. CASE g # f
            BY <1>3, <3>1, <3>4 DEF TypeOK
        <3> QED BY <3>3, <3>4
    <2>6. CASE NegotiatedAttributeOwnershipDivestiture(f)
        BY <1>3, <2>6 DEF NegotiatedAttributeOwnershipDivestiture
    <2>7. CASE \/ CancelNegotiatedAttributeOwnershipDivestiture(f)
               \/ DeleteObject(f) \/ Resign(f) \/ KillFederate(f)
        BY <1>3, <2>7 DEF CancelNegotiatedAttributeOwnershipDivestiture, DeleteObject,
                          Resign, KillFederate
    <2> QED
        BY <1>3, <2>2, <2>3, <2>4, <2>5, <2>6, <2>7 DEF RtigStep
<1>4. ASSUME NEW f \in Federate, Refuse(f)
      PROVE  NoneDivested'
    BY <1>1, <1>4 DEF Refuse
<1> QED
    BY <1>1, <1>2, <1>3, <1>4, NothingComesBack DEF Next, vars

\* The invariant implies the property: what a federate holds, it holds once.
LEMMA AgreementImplies ==
    ASSUME AgreementInv
    PROVE  OwnersAgree
<1> SUFFICES ASSUME rtigUp, exists, NEW f \in Federate, NEW a \in Attribute \ doubt,
                    Present(f)
             PROVE  owner[a] = f <=> a \in Holds(f)
    BY DEF OwnersAgree
<1>1. AgreeAt(f, a)
    BY DEF AgreementInv, Agreement
<1>2. a \in InFlight(f, "acquired") <=> Holding(callbacks[f], a) # {}
    BY DEF InFlight, Holding
<1> QED
    BY <1>1, <1>2 DEF AgreeAt, Once, Free, Holds

\* The invariant holds of every behaviour.
LEMMA AgreementAlways == Spec => []AgreementInv
<1>1. Init => AgreementInv
    <2> SUFFICES ASSUME Init PROVE AgreementInv
        OBVIOUS
    <2>1. TypeOK
        BY InitType
    <2>2. NothingOffered /\ OwnerIsNoCandidate /\ ReplyIsAwaited
        BY DEF Init, NothingOffered, OwnerIsNoCandidate, ReplyIsAwaited
    <2>3. ASSUME NEW f \in Federate
          PROVE  OfKind(callbacks[f], "divested") = {}
        BY DEF Init, OfKind
    <2>4. ASSUME NEW f \in Federate, NEW a \in Attribute
          PROVE  AgreeAt(f, a)
        <3>1. Holding(callbacks[f], a) = {} /\ a \notin Giving(f)
            BY DEF Init, Holding, Giving, NoRequest
        <3>2. a \in believes[f] <=> owner[a] = f
            BY DEF Init
        <3> QED
            BY <3>1, <3>2 DEF AgreeAt, Once, Free
    <2> QED
        BY <2>1, <2>2, <2>3, <2>4 DEF AgreementInv, NoneDivested, Agreement
<1>2. AgreementInv /\ [Next]_vars => AgreementInv'
    BY StepType, NothingOfferedStep, DivestedStep, CandidateStep, ReplyStep, AgreementStep
       DEF AgreementInv
<1> QED
    BY <1>1, <1>2, PTL DEF Spec

\* While the RTIG runs and the object exists, the owner it records for an attribute
\* is the one present federate that believes it is the owner, or is being told, or
\* has asked to give it away: no request or notification on its way, and no loss of
\* a federate, makes two owners or none.
THEOREM OwnersAlwaysAgree == Spec => []OwnersAgree
BY AgreementAlways, AgreementImplies, PTL

-----------------------------------------------------------------------------
(* One federate at a time uses an attribute (ExclusiveOwnership). *)

\* A federate uses only what it owns.
OnlyOwnersUse == \A f \in Federate : \A a \in InUse(f) : owner[a] = f

LEMMA InUseIsOwned == AgreementInv => OnlyOwnersUse
<1> SUFFICES ASSUME AgreementInv, NEW f \in Federate, NEW a \in InUse(f)
             PROVE  owner[a] = f
    BY DEF OnlyOwnersUse
<1>1. rtigUp /\ exists /\ Present(f) /\ a \in believes[f] /\ a \notin doubt
    BY DEF InUse
<1>2. AgreeAt(f, a)
    BY <1>1 DEF AgreementInv, Agreement, TypeOK
<1> QED
    BY <1>1, <1>2 DEF AgreeAt, Free

\* The attributes of a divestiture are not used while it is served.
LEMMA DivestedUnused ==
    ASSUME AgreementInv, NEW f \in Federate, Owns(f, request[f].attributes),
           request[f].service \in GivingServices, reply[f] = "none",
           NEW g \in Federate, NEW a \in InUse(g)
    PROVE  a \notin request[f].attributes
<1> SUFFICES ASSUME a \in request[f].attributes
             PROVE  FALSE
    OBVIOUS
<1>1. g = f
    BY InUseIsOwned DEF OnlyOwnersUse, Owns
<1>2. rtigUp /\ exists /\ Present(f) /\ a \in believes[f] /\ a \notin doubt
    BY <1>1 DEF InUse
<1>3. AgreeAt(f, a)
    BY <1>2 DEF AgreementInv, Agreement, TypeOK
<1>4. a \in Giving(f)
    BY DEF Giving
<1> QED
    BY <1>2, <1>3, <1>4 DEF AgreeAt, Once, Free

\* What a step of the RTIG leaves of what the federates use.
LEMMA RtigUse ==
    ASSUME AgreementInv, rtigUp', exists', rtigUp, exists,
           NEW f \in Federate, RtigStep(f)
    PROVE  \/ \A g \in Federate : InUse(g)' = InUse(g)
           \/ /\ owner' = owner /\ InUse(f)' = {}
              /\ \A g \in Federate \ {f} : InUse(g)' = InUse(g)
<1> USE DEF federateVars
<1>1. believes' = believes /\ link' = link
    BY DEF RtigStep, AttributeOwnershipAcquisition,
           AttributeOwnershipAcquisitionIfAvailable,
           UnconditionalAttributeOwnershipDivestiture,
           NegotiatedAttributeOwnershipDivestiture,
           CancelNegotiatedAttributeOwnershipDivestiture,
           AttributeOwnershipReleaseResponse, CancelAttributeOwnershipAcquisition,
           QueryAttributeOwnership, DeleteObject, Resign, KillFederate
<1>2. ASSUME members' = members, doubt' = doubt
      PROVE  \A g \in Federate : InUse(g)' = InUse(g)
    BY <1>1, <1>2 DEF InUse, Present
<1>3. CASE UnconditionalAttributeOwnershipDivestiture(f)
    <2>1. CASE doubt' = doubt
        <3>1. members' = members
            BY <1>3 DEF UnconditionalAttributeOwnershipDivestiture, Refuse
        <3> QED
            BY <1>2, <2>1, <3>1
    <2>2. CASE doubt' # doubt
        <3>1. /\ Owns(f, request[f].attributes) /\ members' = members
              /\ request[f].service \in GivingServices /\ reply[f] = "none"
              /\ doubt' = doubt \cup request[f].attributes
            BY <1>3, <2>2 DEF UnconditionalAttributeOwnershipDivestiture, Serving,
                              GivingServices, Refuse
        <3>2. \A g \in Federate : \A a \in InUse(g) : a \notin request[f].attributes
            BY <3>1, DivestedUnused
        <3> QED
            BY <1>1, <3>1, <3>2 DEF InUse, Present
    <2> QED
        BY <2>1, <2>2
<1>4. CASE Resign(f)
    <2>1. CASE members' = members
        BY <1>2, <1>4, <2>1 DEF Resign, Refuse
    <2>2. CASE members' # members
        <3>1. members' = members \ {f} /\ UNCHANGED <<owner, doubt>>
            BY <1>4, <2>2 DEF Resign, Refuse, attributeVars
        <3> QED
            BY <1>1, <3>1 DEF InUse, Present
    <2> QED
        BY <2>1, <2>2
<1>5. CASE KillFederate(f)
    <2>1. link[f] = "lost" /\ members' = members \ {f} /\ doubt' = doubt
        BY <1>5 DEF KillFederate
    <2> QED
        BY <1>1, <2>1 DEF InUse, Present
<1>6. CASE \/ AttributeOwnershipAcquisition(f)
           \/ AttributeOwnershipAcquisitionIfAvailable(f)
           \/ NegotiatedAttributeOwnershipDivestiture(f)
           \/ CancelNegotiatedAttributeOwnershipDivestiture(f)
           \/ AttributeOwnershipReleaseResponse(f)
           \/ CancelAttributeOwnershipAcquisition(f)
           \/ QueryAttributeOwnership(f) \/ DeleteObject(f)
    <2>1. members' = members /\ doubt' = doubt
        BY <1>6 DEF AttributeOwnershipAcquisition, AttributeOwnershipAcquisitionIfAvailable,
                    NegotiatedAttributeOwnershipDivestiture,
                    CancelNegotiatedAttributeOwnershipDivestiture,
                    AttributeOwnershipReleaseResponse, CancelAttributeOwnershipAcquisition,
                    QueryAttributeOwnership, DeleteObject, Refuse
    <2> QED
        BY <1>2, <2>1
<1> QED
    BY <1>3, <1>4, <1>5, <1>6 DEF RtigStep

\* Every step is one of ExclusiveOwnership, or leaves it as it is.
LEMMA ExclusiveStep ==
    ASSUME AgreementInv, AgreementInv', [Next]_vars
    PROVE  [Abstract!Next]_(Abstract!vars)
<1> DEFINE use == [g \in Federate |-> InUse(g)]
<1>1. TypeOK /\ TypeOK' /\ owner' \in Abstract!Holders
    BY DEF AgreementInv, TypeOK, Abstract!Holders
<1>2. \A g \in Federate : InUse(g) \subseteq Attribute /\ InUse(g)' \subseteq Attribute
    BY <1>1 DEF InUse, TypeOK
<1>3. \A g \in Federate : /\ \A a \in InUse(g) : owner[a] = g
                          /\ \A a \in InUse(g)' : owner'[a] = g
    <2>1. OnlyOwnersUse /\ OnlyOwnersUse'
        BY InUseIsOwned, PTL
    <2> QED
        BY <2>1 DEF OnlyOwnersUse
<1>4. CASE ~ (rtigUp' /\ exists')
    <2>1. \A g \in Federate : InUse(g)' = {}
        BY <1>4 DEF InUse
    <2>2. Abstract!Stop
        BY <1>1, <2>1 DEF Abstract!Stop
    <2> QED
        BY <2>2 DEF Abstract!Next
<1>5. ASSUME \A g \in Federate : InUse(g)' = InUse(g)
      PROVE  Abstract!Pass
    BY <1>1, <1>3, <1>5 DEF Abstract!Pass
<1>6. ASSUME NEW f \in Federate, owner' = owner,
             \A g \in Federate \ {f} : InUse(g)' = InUse(g)
      PROVE  Abstract!Next
    <2>1. use' = [use EXCEPT ![f] = InUse(f)']
        BY <1>6
    <2>2. InUse(f)' \in SUBSET Attribute /\ \A a \in InUse(f)' : owner[a] = f
        BY <1>2, <1>3, <1>6
    <2>3. Abstract!Use(f, InUse(f)')
        BY <1>6, <2>1, <2>2 DEF Abstract!Use
    <2> QED
        BY <2>2, <2>3 DEF Abstract!Next
<1>7. CASE rtigUp' /\ exists'
    <2>1. rtigUp /\ exists
        BY <1>1, <1>7, NothingComesBack
    <2>2. CASE UNCHANGED vars
        BY <1>5, <2>2 DEF vars, attributeVars, federateVars, InUse, Present, Abstract!Next
    <2>3. ASSUME NEW f \in Federate, FederateStep(f)
          PROVE  Abstract!Next
        <3>1. /\ UNCHANGED <<owner, rtigUp, exists, members, doubt>>
              /\ \A g \in Federate \ {f} : believes'[g] = believes[g] /\ link'[g] = link[g]
            BY <1>1, <2>3 DEF FederateStep, Give, Offer, Acquire, Query, Leave, Call, Return,
                              Deliver, Die, attributeVars, TypeOK
        <3>2. \A g \in Federate \ {f} : InUse(g)' = InUse(g)
            BY <3>1 DEF InUse, Present
        <3> QED
            BY <1>6, <3>1, <3>2
    <2>4. ASSUME NEW f \in Federate, RtigStep(f)
          PROVE  Abstract!Next
        <3>1. CASE \A g \in Federate : InUse(g)' = InUse(g)
            BY <1>5, <3>1 DEF Abstract!Next
        <3>2. CASE /\ owner' = owner
                   /\ \A g \in Federate \ {f} : InUse(g)' = InUse(g)
            BY <1>6, <3>2
        <3> QED
            BY <1>7, <2>1, <2>4, <3>1, <3>2, RtigUse
    <2> QED
        BY <2>2, <2>3, <2>4 DEF Next
<1> QED
    BY <1>4, <1>7

\* Ownership management implements ExclusiveOwnership: two federates never take
\* themselves for the owner of an attribute at a time, and an attribute never changes
\* hands while one does, for any number of federates and attributes and whatever
\* requests, callbacks and losses cross.
THEOREM RefinesExclusiveOwnership == Spec => ImplementsExclusiveOwnership
<1>1. Init => Abstract!Init
    <2> SUFFICES ASSUME Init PROVE Abstract!Init
        OBVIOUS
    <2>1. owner \in Abstract!Holders
        BY InitType DEF TypeOK, Abstract!Holders
    <2>2. \A g \in Federate : InUse(g) = {a \in Attribute : owner[a] = g}
        BY DEF Init, InUse, Present
    <2> QED
        BY <2>1, <2>2 DEF Abstract!Init
<1>2. AgreementInv /\ AgreementInv' /\ [Next]_vars => [Abstract!Next]_(Abstract!vars)
    BY ExclusiveStep
<1> QED
    BY <1>1, <1>2, AgreementAlways, PTL DEF Spec, ImplementsExclusiveOwnership, Abstract!Spec

-----------------------------------------------------------------------------
(* No acquisition is lost. *)

\* The callbacks that end an acquisition.
Outcomes == {"acquired", "unavailable", "cancelled"}

\* A queue holds the outcome of an acquisition of a.
ToBeTold(q, a) ==
    \E i \in 1 .. Len(q) : q[i].kind \in Outcomes /\ a \in q[i].attributes

Underway(f, a) == f \in candidates[a] \/ ToBeTold(callbacks[f], a)

\* What f waits to acquire, or will wait for when its reply is delivered.
Seeks(f) ==
    wants[f] \cup (IF request[f].service \in AcquiringServices /\ reply[f] = "ok"
                     THEN request[f].attributes ELSE {})

AcquisitionInv ==
    /\ TypeOK
    /\ ReplyIsAwaited
    /\ rtigUp /\ exists =>
         \A f \in Federate, a \in Attribute \ doubt :
             Present(f) /\ a \in Seeks(f) => Underway(f, a)

-----------------------------------------------------------------------------
(* Queues that tell an outcome. *)

\* Sending takes nothing from a queue, and an outcome that is sent is in it.
LEMMA SendTold ==
    ASSUME NEW f, NEW q \in Seq(Callback), NEW kind \in Kinds,
           NEW S \in SUBSET Attribute, NEW a
    PROVE  /\ ToBeTold(q, a) => ToBeTold(SendToFederate(f, q, kind, S), a)
           /\ link[f] = "open" /\ kind \in Outcomes /\ a \in S
                => ToBeTold(SendToFederate(f, q, kind, S), a)
<1> DEFINE r == SendToFederate(f, q, kind, S)
<1>1. Sent(f, q, kind, S, r)
    BY SendPlaces, Zenon
<1> HIDE DEF r
<1>2. Len(q) \in Nat
    BY LenProperties
<1>3. CASE r = q /\ (link[f] # "open" \/ S = {})
    BY <1>3 DEF r
<1>4. CASE /\ r \in Seq(Callback) /\ Len(r) = Len(q) + 1
           /\ \A i \in 1 .. Len(q) : r[i] = q[i]
           /\ r[Len(q) + 1] = [kind |-> kind, attributes |-> S]
    <2>1. ToBeTold(q, a) => ToBeTold(r, a)
        BY <1>2, <1>4 DEF ToBeTold
    <2>2. kind \in Outcomes /\ a \in S => ToBeTold(r, a)
        <3>1. Len(q) + 1 \in 1 .. Len(r)
            BY <1>2, <1>4
        <3> QED
            BY <1>4, <3>1 DEF ToBeTold
    <2> QED
        BY <2>1, <2>2 DEF r
<1> QED
    BY <1>1, <1>3, <1>4 DEF Sent

\* The messages of an acquisition keep what was to be told, and tell what is acquired.
LEMMA AcquiringTold ==
    ASSUME NEW f, NEW q \in Seq(Callback), link[f] = "open", NEW a, NEW kind \in Kinds,
           NEW S1 \in SUBSET Attribute, NEW S2 \in SUBSET Attribute,
           NEW S3 \in SUBSET Attribute,
           ToBeTold(q, a) \/ a \in S1
    PROVE  ToBeTold(SendToFederate(f,
                SendToFederate(f, SendToFederate(f, q, "acquired", S1), "divested", S2),
                kind, S3), a)
<1> DEFINE r1 == SendToFederate(f, q, "acquired", S1)
           r2 == SendToFederate(f, r1, "divested", S2)
<1>0. "acquired" \in Kinds /\ "divested" \in Kinds /\ "acquired" \in Outcomes
    BY DEF Kinds, Outcomes
<1>1. r1 \in Seq(Callback) /\ ToBeTold(r1, a)
    BY <1>0, SendType, SendTold
<1> HIDE DEF r1
<1>2. r2 \in Seq(Callback) /\ ToBeTold(r2, a)
    BY <1>0, <1>1, SendType, SendTold
<1> HIDE DEF r2
<1>3. ToBeTold(SendToFederate(f, r2, kind, S3), a)
    BY <1>2, SendTold
<1> QED
    BY <1>3 DEF r1, r2

\* What was to be told and is not in the first message is in the rest.
LEMMA TailTold ==
    ASSUME NEW q \in Seq(Callback), q # <<>>, NEW a, ToBeTold(q, a)
    PROVE  ToBeTold(Tail(q), a) \/ (Head(q).kind \in Outcomes /\ a \in Head(q).attributes)
<1>1. /\ Len(Tail(q)) = Len(q) - 1 /\ Len(q) \in Nat /\ Len(q) > 0
      /\ \A i \in 1 .. Len(Tail(q)) : Tail(q)[i] = q[i + 1]
      /\ Head(q) = q[1]
    BY HeadTailProperties, EmptySeq, LenProperties
<1>2. PICK i \in 1 .. Len(q) : q[i].kind \in Outcomes /\ a \in q[i].attributes
    BY DEF ToBeTold
<1>3. CASE i = 1
    BY <1>1, <1>2, <1>3
<1>4. CASE i # 1
    <2>1. i - 1 \in 1 .. Len(Tail(q)) /\ Tail(q)[i - 1] = q[i]
        BY <1>1, <1>2, <1>4
    <2> QED
        BY <1>2, <2>1 DEF ToBeTold
<1> QED
    BY <1>3, <1>4

-----------------------------------------------------------------------------
(* The steps of the federates. *)

\* No step of a federate makes it seek more; what it stops seeking is what it is told.
LEMMA FederateSeeks ==
    ASSUME TypeOK, ReplyIsAwaited, NEW f \in Federate, FederateStep(f),
           NEW g \in Federate, NEW a \in Seeks(g)', Underway(g, a) \/ a \notin Seeks(g)
    PROVE  Underway(g, a)'
<1> USE DEF attributeVars, federateVars
<1>1. CASE Give(f) \/ Offer(f) \/ Acquire(f) \/ Query(f) \/ Leave(f)
    <2>1. PICK service, S :
             /\ request[f] = NoRequest
             /\ request' = [request EXCEPT ![f] = [service |-> service, attributes |-> S]]
             /\ UNCHANGED <<candidates, callbacks, wants, reply>>
        BY <1>1 DEF Give, Offer, Acquire, Query, Leave, Call, Idle
    <2>2. reply[f] = "none"
        BY <2>1 DEF ReplyIsAwaited
    <2>3. Seeks(g)' \subseteq Seeks(g)
        BY <2>1, <2>2 DEF Seeks, TypeOK
    <2> QED
        BY <2>1, <2>3 DEF Underway
<1>2. CASE Return(f)
    <2>1. /\ UNCHANGED <<candidates, callbacks>>
          /\ wants'[g] \subseteq Seeks(g)
          /\ reply'[f] = "none"
          /\ g # f => request'[g] = request[g] /\ reply'[g] = reply[g]
        BY <1>2 DEF Return, Seeks, TypeOK
    <2>2. Seeks(g)' \subseteq Seeks(g)
        BY <2>1 DEF Seeks
    <2> QED
        BY <2>1, <2>2 DEF Underway
<1>3. CASE Deliver(f)
    <2> DEFINE m == Head(callbacks[f])
    <2>1. /\ UNCHANGED <<candidates, request, reply>>
          /\ callbacks[f] \in Seq(Callback) /\ callbacks[f] # <<>>
          /\ callbacks'[f] = Tail(callbacks[f])
          /\ wants'[f] = IF m.kind \in Outcomes THEN wants[f] \ m.attributes ELSE wants[f]
          /\ request[f] = NoRequest
          /\ g # f => callbacks'[g] = callbacks[g] /\ wants'[g] = wants[g]
        BY <1>3 DEF Deliver, Idle, TypeOK, Outcomes
    <2> HIDE DEF m
    <2>2. CASE g # f
        BY <2>1, <2>2 DEF Underway, Seeks
    <2>3. CASE g = f
        <3>1. Seeks(f)' = wants'[f] /\ Seeks(f) = wants[f]
            BY <2>1 DEF Seeks, NoRequest, AcquiringServices
        <3>2. Underway(f, a) /\ ~ (m.kind \in Outcomes /\ a \in m.attributes)
            BY <2>1, <2>3, <3>1
        <3>3. ToBeTold(callbacks[f], a) => ToBeTold(callbacks'[f], a)
            BY <2>1, <3>2, TailTold DEF m
        <3> QED
            BY <2>1, <2>3, <3>2, <3>3 DEF Underway
    <2> QED
        BY <2>2, <2>3
<1>4. CASE Die(f)
    BY <1>4 DEF Die, Underway, Seeks
<1> QED
    BY <1>1, <1>2, <1>3, <1>4 DEF FederateStep

-----------------------------------------------------------------------------
(* The steps of the RTIG. *)

\* The answer to an acquisition makes its caller seek what it asked for; no other
\* answer makes a federate seek anything.
LEMMA AnswerSeeks ==
    ASSUME TypeOK, NEW f \in Federate, NEW g \in Federate, NEW answer,
           UNCHANGED <<request, wants>>, Answer(f, answer)
    PROVE  /\ Seeks(g)' \subseteq Seeks(g) \cup
                  (IF g = f THEN request[f].attributes ELSE {})
           /\ answer # "ok" \/ request[f].service \notin AcquiringServices
                => Seeks(g)' \subseteq Seeks(g)
<1>1. CASE g # f
    BY <1>1 DEF Answer, Seeks
<1>2. CASE g = f
    <2>1. reply'[g] = answer
        BY <1>2 DEF Answer, TypeOK
    <2> QED
        BY <1>2, <2>1 DEF Seeks
<1> QED
    BY <1>1, <1>2

\* A request that is refused changes nothing.
LEMMA RefusedUnderway ==
    ASSUME TypeOK, NEW f \in Federate, Refuse(f), UNCHANGED federateVars,
           NEW g \in Federate, NEW a \in Seeks(g)', Underway(g, a) \/ a \notin Seeks(g)
    PROVE  Underway(g, a)'
<1>1. UNCHANGED <<candidates, callbacks, request, wants>> /\ Answer(f, "refused")
    BY DEF Refuse, attributeVars, federateVars
<1>2. a \in Seeks(g)
    BY <1>1, AnswerSeeks
<1> QED
    BY <1>1, <1>2 DEF Underway

\* An accepted acquisition leaves its caller a candidate, or sends it the outcome.
LEMMA AcquiringUnderway ==
    ASSUME TypeOK, NEW f \in Federate,
           \/ AttributeOwnershipAcquisition(f)
           \/ AttributeOwnershipAcquisitionIfAvailable(f),
           NEW g \in Federate, Present(g), NEW a \in Attribute, a \in Seeks(g)',
           Underway(g, a) \/ a \notin Seeks(g)
    PROVE  Underway(g, a)'
<1> DEFINE S == request[f].attributes
           taken == Available(S)
           Taken(h) == IF h = f THEN taken ELSE {}
           Missed(h) == IF h = f THEN S \ taken ELSE {}
           Asked(h) == {b \in S \ taken : owner[b] = h}
<1>1. /\ S \in SUBSET Attribute /\ taken \in SUBSET Attribute /\ taken \subseteq S
      /\ Taken(g) \in SUBSET Attribute /\ Missed(g) \in SUBSET Attribute
      /\ Asked(g) \in SUBSET Attribute /\ DivestedOf(g, taken) \in SUBSET Attribute
    BY DEF TypeOK, Request, Available, DivestedOf
<1>2. /\ callbacks[g] \in Seq(Callback) /\ link[g] = "open"
      /\ "acquired" \in Kinds /\ "divested" \in Kinds /\ "release" \in Kinds
      /\ "unavailable" \in Kinds /\ "acquired" \in Outcomes
    BY DEF TypeOK, Present, Kinds, Outcomes
<1>3. CASE Refuse(f)
    <2>1. UNCHANGED federateVars
        BY DEF AttributeOwnershipAcquisition, AttributeOwnershipAcquisitionIfAvailable
    <2> QED
        BY <1>3, <2>1, RefusedUnderway
<1>4. ASSUME ~ Refuse(f)
      PROVE  /\ UNCHANGED <<request, wants>> /\ Answer(f, "ok")
    BY <1>4 DEF AttributeOwnershipAcquisition, AttributeOwnershipAcquisitionIfAvailable,
                federateVars
<1>5. ASSUME ~ Refuse(f)
      PROVE  Underway(g, a) \/ (g = f /\ a \in S)
    BY <1>4, <1>5, AnswerSeeks
<1>6. CASE AttributeOwnershipAcquisition(f) /\ ~ Refuse(f)
    <2>1. /\ candidates' = [b \in Attribute |->
                IF b \in taken THEN candidates[b] \ {f}
                ELSE IF b \in S \ taken THEN candidates[b] \cup {f} ELSE candidates[b]]
          /\ callbacks' = [h \in Federate |->
                SendToFederate(h,
                  SendToFederate(h, SendToFederate(h, callbacks[h], "acquired", Taken(h)),
                                 "divested", DivestedOf(h, taken)),
                  "release", Asked(h))]
        BY <1>6 DEF AttributeOwnershipAcquisition
    <2> HIDE DEF S, taken, Taken, Asked
    <2>2. PICK S1 \in SUBSET Attribute, S2 \in SUBSET Attribute, S3 \in SUBSET Attribute :
             /\ S1 = Taken(g)
             /\ callbacks'[g] = SendToFederate(g,
                  SendToFederate(g, SendToFederate(g, callbacks[g], "acquired", S1),
                                 "divested", S2), "release", S3)
        BY <1>1, <2>1
    <2>3. ToBeTold(callbacks[g], a) \/ a \in Taken(g) => ToBeTold(callbacks'[g], a)
        <3> DEFINE q == callbacks[g]
        <3>1. q \in Seq(Callback)
            BY <1>2
        <3> HIDE DEF q
        <3>2. ASSUME ToBeTold(q, a) \/ a \in S1
              PROVE  ToBeTold(SendToFederate(g,
                       SendToFederate(g, SendToFederate(g, q, "acquired", S1),
                                      "divested", S2), "release", S3), a)
            BY <1>2, <3>1, <3>2, AcquiringTold
        <3> QED
            BY <2>2, <3>2 DEF q
    <2>4. CASE g = f /\ a \in S
        <3>1. a \in taken \/ f \in candidates'[a]
            BY <2>1, <2>4
        <3> QED
            BY <2>3, <2>4, <3>1 DEF Underway, Taken
    <2>5. CASE Underway(g, a) /\ ~ (g = f /\ a \in S)
        <3>1. g \in candidates[a] => g \in candidates'[a]
            BY <1>1, <2>1, <2>5
        <3> QED
            BY <2>3, <2>5, <3>1 DEF Underway
    <2> QED
        BY <1>5, <1>6, <2>4, <2>5 DEF S
<1>7. CASE AttributeOwnershipAcquisitionIfAvailable(f) /\ ~ Refuse(f)
    <2>1. /\ candidates' = [b \in Attribute |->
                IF b \in S \ taken THEN candidates[b] \cup {f} ELSE candidates[b]]
          /\ callbacks' = [h \in Federate |->
                SendToFederate(h,
                  SendToFederate(h, SendToFederate(h, callbacks[h], "acquired", Taken(h)),
                                 "divested", DivestedOf(h, taken)),
                  "unavailable", Missed(h))]
        BY <1>7 DEF AttributeOwnershipAcquisitionIfAvailable
    <2> HIDE DEF S, taken, Taken, Missed
    <2>2. PICK S1 \in SUBSET Attribute, S2 \in SUBSET Attribute, S3 \in SUBSET Attribute :
             /\ S1 = Taken(g)
             /\ callbacks'[g] = SendToFederate(g,
                  SendToFederate(g, SendToFederate(g, callbacks[g], "acquired", S1),
                                 "divested", S2), "unavailable", S3)
        BY <1>1, <2>1
    <2>3. ToBeTold(callbacks[g], a) \/ a \in Taken(g) => ToBeTold(callbacks'[g], a)
        <3> DEFINE q == callbacks[g]
        <3>1. q \in Seq(Callback)
            BY <1>2
        <3> HIDE DEF q
        <3>2. ASSUME ToBeTold(q, a) \/ a \in S1
              PROVE  ToBeTold(SendToFederate(g,
                       SendToFederate(g, SendToFederate(g, q, "acquired", S1),
                                      "divested", S2), "unavailable", S3), a)
            BY <1>2, <3>1, <3>2, AcquiringTold
        <3> QED
            BY <2>2, <3>2 DEF q
    <2>4. CASE g = f /\ a \in S
        <3>1. a \in taken \/ f \in candidates'[a]
            BY <2>1, <2>4
        <3> QED
            BY <2>3, <2>4, <3>1 DEF Underway, Taken
    <2>5. CASE Underway(g, a)
        <3>1. g \in candidates[a] => g \in candidates'[a]
            BY <2>1
        <3> QED
            BY <2>3, <2>5, <3>1 DEF Underway
    <2> QED
        BY <1>5, <1>7, <2>4, <2>5 DEF S
<1> QED
    BY <1>3, <1>6, <1>7

\* The candidate that is handed an attribute is sent the notification; the others
\* stay candidates.
LEMMA HandOverUnderway ==
    ASSUME TypeOK, NEW S \in SUBSET Attribute, SendToNewOwners(S),
           candidates' = [b \in Attribute |->
               IF b \in S THEN candidates[b] \ {GetFirstCandidate(b)} ELSE candidates[b]],
           NEW g \in Federate, Present(g), NEW a \in Attribute, Underway(g, a)
    PROVE  Underway(g, a)'
<1> DEFINE q == callbacks[g]
           T == HandedTo(g, S)
<1>1. /\ q \in Seq(Callback) /\ T \in SUBSET Attribute /\ "acquired" \in Kinds
      /\ "acquired" \in Outcomes /\ link[g] = "open"
    BY DEF TypeOK, HandedTo, Kinds, Outcomes, Present
<1>2. callbacks'[g] = SendToFederate(g, q, "acquired", T)
    BY DEF SendToNewOwners
<1>3. g \in candidates[a] => g \in candidates'[a] \/ a \in T
    BY DEF HandedTo
<1> HIDE DEF q, T
<1>4. ToBeTold(q, a) \/ a \in T => ToBeTold(SendToFederate(g, q, "acquired", T), a)
    BY <1>1, SendTold
<1> QED
    BY <1>2, <1>3, <1>4 DEF Underway, q

\* A federate that gives attributes away loses no acquisition of another one, unless
\* its call ends in an internal error.
LEMMA GivingUnderway ==
    ASSUME TypeOK, NEW f \in Federate,
           \/ UnconditionalAttributeOwnershipDivestiture(f)
           \/ AttributeOwnershipReleaseResponse(f),
           NEW g \in Federate, Present(g), NEW a \in Attribute \ doubt', a \in Seeks(g)',
           Underway(g, a) \/ a \notin Seeks(g)
    PROVE  Underway(g, a)'
<1> DEFINE S == request[f].attributes
<1>1. S \in SUBSET Attribute /\ HasCandidates(S) \in SUBSET Attribute
    BY DEF TypeOK, Request, HasCandidates
<1>2. UNCHANGED federateVars /\ request[f].service \notin AcquiringServices
    BY DEF UnconditionalAttributeOwnershipDivestiture, AttributeOwnershipReleaseResponse,
           Serving, AcquiringServices
<1>3. CASE Refuse(f)
    BY <1>2, <1>3, RefusedUnderway
<1>4. ASSUME Answer(f, "ok") \/ Answer(f, "refused")
      PROVE  Underway(g, a)
    BY <1>2, <1>4, AnswerSeeks DEF federateVars
<1>5. CASE UnconditionalAttributeOwnershipDivestiture(f) /\ ~ Refuse(f)
    <2>1. /\ candidates' = [b \in Attribute |->
                IF b \in HasCandidates(S) THEN candidates[b] \ {GetFirstCandidate(b)}
                                          ELSE candidates[b]]
          /\ \/ Answer(f, "refused") /\ doubt' = doubt \cup S /\ UNCHANGED callbacks
             \/ Answer(f, "ok") /\ SendToNewOwners(HasCandidates(S))
        BY <1>5 DEF UnconditionalAttributeOwnershipDivestiture
    <2>2. Underway(g, a)
        BY <1>4, <2>1
    <2>3. CASE doubt' = doubt \cup S /\ UNCHANGED callbacks
        <3>1. a \notin HasCandidates(S)
            BY <2>3 DEF HasCandidates
        <3> QED
            BY <2>1, <2>2, <2>3, <3>1 DEF Underway
    <2>4. CASE SendToNewOwners(HasCandidates(S))
        BY <1>1, <2>1, <2>2, <2>4, HandOverUnderway
    <2> QED
        BY <2>1, <2>3, <2>4
<1>6. CASE AttributeOwnershipReleaseResponse(f) /\ ~ Refuse(f)
    <2>1. /\ candidates' = [b \in Attribute |->
                IF b \in S THEN candidates[b] \ {GetFirstCandidate(b)} ELSE candidates[b]]
          /\ Answer(f, "ok") /\ SendToNewOwners(S)
        BY <1>6 DEF AttributeOwnershipReleaseResponse, HandOver
    <2> QED
        BY <1>1, <1>4, <2>1, HandOverUnderway
<1> QED
    BY <1>3, <1>5, <1>6

\* The other services lose no acquisition: one that is cancelled is told.
LEMMA OtherServiceUnderway ==
    ASSUME TypeOK, NEW f \in Federate,
           \/ CancelNegotiatedAttributeOwnershipDivestiture(f)
           \/ CancelAttributeOwnershipAcquisition(f)
           \/ QueryAttributeOwnership(f)
           \/ DeleteObject(f) \/ Resign(f) \/ KillFederate(f),
           NEW g \in Federate, Present(g), NEW a \in Attribute, a \in Seeks(g)',
           Underway(g, a) \/ a \notin Seeks(g)
    PROVE  Underway(g, a)'
<1> DEFINE S == request[f].attributes
<1>1. /\ S \in SUBSET Attribute /\ callbacks[f] \in Seq(Callback)
      /\ {b \in S : owner[b] = NoOwner} \in SUBSET Attribute
      /\ S \ {b \in S : owner[b] = NoOwner} \in SUBSET Attribute
      /\ "cancelled" \in Kinds /\ "informed" \in Kinds /\ "unowned" \in Kinds
      /\ "cancelled" \in Outcomes
    BY DEF TypeOK, Request, Kinds, Outcomes
<1>2. CASE KillFederate(f)
    BY <1>2 DEF KillFederate, federateVars, Underway, Seeks
<1>3. ASSUME ~ KillFederate(f)
      PROVE  UNCHANGED federateVars /\ request[f].service \notin AcquiringServices
    BY <1>3 DEF CancelNegotiatedAttributeOwnershipDivestiture,
           CancelAttributeOwnershipAcquisition, QueryAttributeOwnership, DeleteObject,
           Resign, Serving, AcquiringServices
<1>4. CASE ~ KillFederate(f) /\ Refuse(f)
    BY <1>3, <1>4, RefusedUnderway
<1>5. ASSUME ~ KillFederate(f), Answer(f, "ok")
      PROVE  Underway(g, a)
    BY <1>3, <1>5, AnswerSeeks DEF federateVars
<1>6. CASE /\ ~ KillFederate(f) /\ ~ Refuse(f)
           /\ \/ CancelNegotiatedAttributeOwnershipDivestiture(f)
              \/ DeleteObject(f) \/ Resign(f)
    <2>1. Answer(f, "ok") /\ UNCHANGED <<candidates, callbacks>>
        BY <1>6 DEF CancelNegotiatedAttributeOwnershipDivestiture, DeleteObject, Resign,
                    attributeVars
    <2> QED
        BY <1>5, <1>6, <2>1 DEF Underway
<1>7. CASE CancelAttributeOwnershipAcquisition(f) /\ ~ KillFederate(f) /\ ~ Refuse(f)
    <2> DEFINE q == callbacks[f]
    <2>1. /\ Answer(f, "ok")
          /\ candidates' = [b \in Attribute |->
                IF b \in S THEN candidates[b] \ {f} ELSE candidates[b]]
          /\ callbacks' = [callbacks EXCEPT ![f] = SendToFederate(f, q, "cancelled", S)]
        BY <1>7 DEF CancelAttributeOwnershipAcquisition
    <2>2. Underway(g, a)
        BY <1>5, <1>7, <2>1
    <2>3. CASE g # f
        BY <2>1, <2>2, <2>3 DEF Underway
    <2>4. CASE g = f
        <3>1. callbacks'[f] = SendToFederate(f, q, "cancelled", S) /\ q \in Seq(Callback)
            BY <1>1, <2>1 DEF TypeOK
        <3>2. f \in candidates[a] => f \in candidates'[a] \/ a \in S
            BY <2>1
        <3> HIDE DEF q, S
        <3>3. link[f] = "open"
            BY <2>4 DEF Present
        <3>4. ToBeTold(q, a) \/ a \in S => ToBeTold(SendToFederate(f, q, "cancelled", S), a)
            BY <1>1, <3>1, <3>3, SendTold
        <3> QED
            BY <2>2, <2>4, <3>1, <3>2, <3>4 DEF Underway, q
    <2> QED
        BY <2>3, <2>4
<1>8. CASE QueryAttributeOwnership(f) /\ ~ KillFederate(f) /\ ~ Refuse(f)
    <2> DEFINE q == callbacks[f]
               free == {b \in S : owner[b] = NoOwner}
               r == SendToFederate(f, q, "informed", S \ free)
    <2>1. /\ Answer(f, "ok") /\ UNCHANGED candidates
          /\ callbacks' = [callbacks EXCEPT ![f] = SendToFederate(f, r, "unowned", free)]
        BY <1>8 DEF QueryAttributeOwnership, attributeVars
    <2>2. Underway(g, a)
        BY <1>5, <1>8, <2>1
    <2>3. q \in Seq(Callback) /\ free \in SUBSET Attribute /\ S \ free \in SUBSET Attribute
        BY <1>1
    <2>4. r \in Seq(Callback) /\ (ToBeTold(q, a) => ToBeTold(r, a))
        <3> HIDE DEF q, free, S
        <3> QED
            BY <1>1, <2>3, SendType, SendTold
    <2>5. ToBeTold(r, a) => ToBeTold(SendToFederate(f, r, "unowned", free), a)
        <3> HIDE DEF r, free
        <3> QED
            BY <1>1, <2>3, <2>4, SendTold
    <2>6. ToBeTold(callbacks[f], a) => ToBeTold(callbacks'[f], a)
        <3>1. callbacks'[f] = SendToFederate(f, r, "unowned", free)
            BY <2>1 DEF TypeOK
        <3> QED
            BY <2>4, <2>5, <3>1
    <2>7. g # f => callbacks'[g] = callbacks[g]
        BY <2>1
    <2> QED
        BY <2>1, <2>2, <2>6, <2>7 DEF Underway
<1> QED
    BY <1>2, <1>4, <1>6, <1>7, <1>8

-----------------------------------------------------------------------------
\* Every step keeps the accepted acquisitions.
LEMMA AcquisitionStep ==
    ASSUME AcquisitionInv, [Next]_vars
    PROVE  AcquisitionInv'
<1> USE DEF AcquisitionInv
<1>1. TypeOK' /\ ReplyIsAwaited'
    BY StepType, ReplyStep
<1>2. SUFFICES ASSUME rtigUp', exists', NEW g \in Federate, NEW a \in Attribute \ doubt',
                      Present(g)', a \in Seeks(g)'
               PROVE  Underway(g, a)'
    BY <1>1
<1>3. rtigUp /\ exists /\ Present(g) /\ a \in Attribute \ doubt
    BY <1>2, NothingComesBack
<1>4. Underway(g, a) \/ a \notin Seeks(g)
    BY <1>3
<1>5. CASE UNCHANGED vars
    BY <1>2, <1>4, <1>5 DEF vars, attributeVars, federateVars, Underway, Seeks
<1>6. ASSUME NEW f \in Federate, FederateStep(f)
      PROVE  Underway(g, a)'
    BY <1>2, <1>4, <1>6, FederateSeeks
<1>7. ASSUME NEW f \in Federate, RtigStep(f)
      PROVE  Underway(g, a)'
    <2>1. CASE \/ AttributeOwnershipAcquisition(f)
               \/ AttributeOwnershipAcquisitionIfAvailable(f)
        BY <1>2, <1>3, <1>4, <2>1, AcquiringUnderway
    <2>2. CASE \/ UnconditionalAttributeOwnershipDivestiture(f)
               \/ AttributeOwnershipReleaseResponse(f)
        BY <1>2, <1>3, <1>4, <2>2, GivingUnderway
    <2>3. CASE NegotiatedAttributeOwnershipDivestiture(f)
        <3>1. Refuse(f) /\ UNCHANGED federateVars
            BY <1>2, <2>3 DEF NegotiatedAttributeOwnershipDivestiture
        <3> QED
            BY <1>2, <1>4, <3>1, RefusedUnderway
    <2>4. CASE \/ CancelNegotiatedAttributeOwnershipDivestiture(f)
               \/ CancelAttributeOwnershipAcquisition(f)
               \/ QueryAttributeOwnership(f)
               \/ DeleteObject(f) \/ Resign(f) \/ KillFederate(f)
        BY <1>2, <1>3, <1>4, <2>4, OtherServiceUnderway
    <2> QED
        BY <1>7, <2>1, <2>2, <2>3, <2>4 DEF RtigStep
<1> QED
    BY <1>5, <1>6, <1>7 DEF Next

\* An acquisition that the RTIG accepted is never lost: until its outcome is given to
\* the federate, the federate is a candidate for the attribute or the outcome is on
\* its way, whoever gives the attribute away, cancels or is lost meanwhile.
THEOREM NoAcquisitionIsLost == Spec => []NoLostAcquisition
<1>1. Init => AcquisitionInv
    <2> SUFFICES ASSUME Init PROVE AcquisitionInv
        OBVIOUS
    <2>1. TypeOK
        BY InitType
    <2>2. ReplyIsAwaited
        BY DEF Init, ReplyIsAwaited
    <2>3. \A f \in Federate : Seeks(f) = {}
        BY DEF Init, Seeks
    <2> QED
        BY <2>1, <2>2, <2>3 DEF AcquisitionInv
<1>2. AcquisitionInv /\ [Next]_vars => AcquisitionInv'
    BY AcquisitionStep
<1>3. AcquisitionInv => NoLostAcquisition
    <2> SUFFICES ASSUME AcquisitionInv, rtigUp, exists, NEW f \in Federate, Present(f),
                        NEW a \in wants[f] \ doubt
                 PROVE  \/ f \in candidates[a]
                        \/ \E kind \in Outcomes : a \in InFlight(f, kind)
        BY DEF NoLostAcquisition, Outcomes
    <2>1. a \in Attribute /\ a \in Seeks(f)
        BY DEF AcquisitionInv, TypeOK, Seeks
    <2>2. Underway(f, a)
        BY <2>1 DEF AcquisitionInv
    <2>3. ToBeTold(callbacks[f], a) => \E kind \in Outcomes : a \in InFlight(f, kind)
        BY <2>1 DEF ToBeTold, InFlight
    <2> QED
        BY <2>2, <2>3 DEF Underway
<1> QED
    BY <1>1, <1>2, <1>3, PTL DEF Spec
=============================================================================
