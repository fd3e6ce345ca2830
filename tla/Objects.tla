------------------------------ MODULE Objects ------------------------------
(***************************************************************************)
(* Declaration and object management: who publishes and subscribes what     *)
(* (src/RTIA/DeclarationManagement.cc, src/RTIG/Federation.cc, libCERTI      *)
(* ObjectClass.cc, ObjectClassSet.cc, Interaction.cc, Subscribable.cc), the  *)
(* registration, update and deletion of object instances and the sending of  *)
(* interactions, with the broadcast lists that go up the class hierarchy     *)
(* (ObjectClassBroadcastList.cc, InteractionBroadcastList.cc), and what the  *)
(* RTIA of each receiver does with the messages (RTIA_network.cc,            *)
(* ObjectManagement.cc).                                                     *)
(*                                                                           *)
(* A service is synchronous and its RTIA keeps the messages that come before *)
(* the reply for later, in order: a call, the handler of the RTIG and the    *)
(* effect of the reply at the RTIA are one step.  A call that is refused     *)
(* without a change of state is not a step.  There are no regions, and the   *)
(* receivers are not time constrained: every message goes to the FIFO queue. *)
(***************************************************************************)
EXTENDS Integers, Sequences, FiniteSets

CONSTANTS
    Federate,             \* the federate handles, all joined
    Class, SuperClass,    \* the object classes and the parent of each
    AttributesOf,         \* the attributes of each class, inherited ones included
    InteractionClass, SuperInteraction,
    None,                 \* the parent of a root class; no class
    MaxObject,            \* bound: the object handles that are provided
    NameOf,               \* the name given to the object of each handle
    Lists,                \* the attribute lists of the updates
    Publishers,           \* the federates that publish, and so register and send
    Subscribers,          \* the federates that subscribe
    Mortal,               \* the federates that may be lost
    Service,              \* the services
    MaxCalls,             \* bound: the calls of each service
    Programs              \* bound: the services that one execution uses together

Object == 1 .. MaxObject

\* A class, its parent and so on, up to a root.
IsLineage(s, parent, c) ==
    /\ s[1] = c /\ parent[s[Len(s)]] = None
    /\ \A i \in 1 .. Len(s) - 1 : s[i + 1] = parent[s[i]]

Chains(C) == UNION {[1 .. n -> C] : n \in 1 .. Cardinality(C)}

\* Classes are read one by one, the parent before its children: they form trees.
IsForest(parent, C) ==
    /\ None \notin C /\ parent \in [C -> C \cup {None}]
    /\ \A c \in C : \E s \in Chains(C) : IsLineage(s, parent, c)

ASSUME ClassAssumption ==
    /\ IsFiniteSet(Class) /\ IsForest(SuperClass, Class)
    /\ IsFiniteSet(InteractionClass) /\ IsForest(SuperInteraction, InteractionClass)
    /\ \A c \in Class : SuperClass[c] # None =>
                           AttributesOf[SuperClass[c]] \subseteq AttributesOf[c]
\* An update names each attribute once.
ASSUME ListsAssumption ==
    \A list \in Lists :
        /\ list \in Seq(UNION {AttributesOf[c] : c \in Class})
        /\ \A i, j \in 1 .. Len(list) : list[i] = list[j] => i = j
ASSUME BoundAssumption ==
    /\ MaxObject \in Nat /\ MaxCalls \in [Service -> Nat]
    /\ Programs \subseteq SUBSET Service

VARIABLES
    \* the RTIG
    members,      \* the federates that have joined and not resigned
    published,    \* ObjectClassAttribute::publishers, by federate and class
    subscribed,   \* ObjectClassAttribute::subscribers
    publishes,    \* Interaction::publishers, by federate
    listens,      \* Interaction::subscribers
    objects,      \* the registered objects: class, owner, attributes it owns
    nextObject,   \* the handle generator
    \* the federates and their RTIAs
    link,         \* whether each is still there
    down,         \* the messages sent to each RTIA and not read
    known,        \* the class of each object in the root object of the RTIA
    fifo,         \* the FIFO queue of each RTIA
    discovered,   \* the objects each federate was told of, and not told to drop
    calls         \* how much of MaxCalls is used

rtigVars == <<members, published, subscribed, publishes, listens, objects, nextObject>>
rtiaVars == <<link, known, fifo, discovered>>
vars == <<rtigVars, rtiaVars, down, calls>>

(***************************************************************************)
(* The class hierarchy and the messages.                                     *)
(***************************************************************************)
Attribute == UNION {AttributesOf[c] : c \in Class}

\* A class and its ancestors, in the order a broadcast visits them.
Lineage == [c \in Class |-> CHOOSE s \in Chains(Class) : IsLineage(s, SuperClass, c)]

InteractionLineage ==
    [c \in InteractionClass |->
       CHOOSE s \in Chains(InteractionClass) : IsLineage(s, SuperInteraction, c)]

Elements(s) == {s[i] : i \in 1 .. Len(s)}

\* The numbers of S in increasing order.
Ordered(S) ==
    CHOOSE s \in [1 .. Cardinality(S) -> S] :
        \A i, j \in 1 .. Cardinality(S) : i < j => s[i] < s[j]

\* The elements of s at these places.
At(s, places) == [k \in 1 .. Len(places) |-> s[places[k]]]

Discover(o, c) == [kind |-> "discover", object |-> o, class |-> c]
Remove(o) == [kind |-> "remove", object |-> o]
Reflect(o, attributes, values, dated) ==
    [kind |-> "reflect", object |-> o, attributes |-> attributes, values |-> values,
     dated |-> dated]
Interact(c) == [kind |-> "interaction", class |-> c]

Unregistered == [class |-> None, owner |-> 0, attributes |-> {}]

Live == {o \in Object : objects[o] # Unregistered}

Init ==
    /\ members = Federate
    /\ published = [f \in Federate |-> [c \in Class |-> {}]]
    /\ subscribed = [f \in Federate |-> [c \in Class |-> {}]]
    /\ publishes = [f \in Federate |-> {}]
    /\ listens = [f \in Federate |-> {}]
    /\ objects = [o \in Object |-> Unregistered]
    /\ nextObject = 1
    /\ link = [f \in Federate |-> "open"]
    /\ down = [f \in Federate |-> <<>>]
    /\ known = [f \in Federate |-> [o \in Object |-> None]]
    /\ fifo = [f \in Federate |-> <<>>]
    /\ discovered = [f \in Federate |-> {}]
    /\ calls = [s \in Service |-> 0]

\* A federate that is there calls a service, within the bound.
Call(f, service) ==
    /\ link[f] = "open" /\ f \in members
    /\ calls[service] < MaxCalls[service]
    /\ \E P \in Programs : {s \in Service : s = service \/ calls[s] > 0} \subseteq P
    /\ calls' = [calls EXCEPT ![service] = @ + 1]

\* Each federate g is sent messages[g]; what is sent to a closed link is dropped, and
\* nobody looks at what is sent to one that resigned.
SendAll(messages) ==
    down' = [g \in Federate |->
               IF link[g] = "open" THEN down[g] \o messages[g] ELSE down[g]]

(***************************************************************************)
(* Declarations.                                                             *)
(***************************************************************************)
\* ObjectClass::isSubscribed
IsSubscribed(g, c) == subscribed[g][c] # {}

\* The relevance advisories look up every publisher of the class: the lookup fails,
\* the changes made, when one of them has resigned.  The advisories are left out.
PublishObject(f, c, S) ==
    /\ f \in Publishers /\ Call(f, "publish")
    /\ published' = [published EXCEPT ![f][c] = S]
    /\ UNCHANGED <<members, subscribed, publishes, listens, objects, nextObject,
                   rtiaVars, down>>

\* A class at or below c that recursiveDiscovering visits: no class between is one
\* the federate has subscribed already.
Visited(f, c, d) ==
    \E i \in 1 .. Len(Lineage[d]) :
        /\ Lineage[d][i] = c
        /\ \A j \in 1 .. i - 1 : ~IsSubscribed(f, Lineage[d][j])

\* Mutant: the objects of the subclasses are not looked for.
ToDiscoverHere(f, c) ==
    {o \in Live : objects[o].class = c /\ objects[o].owner # f}

ToDiscover(f, c) ==
    {o \in Live : Visited(f, c, objects[o].class) /\ objects[o].owner # f}

\* message[o] for each object o of S, in the order of the handles.
ForEach(S, message) == At(message, Ordered(S))

\* subscribe replaces the attributes of an earlier subscription; the objects are
\* announced to a federate that was not a subscriber of the class.
SubscribeObject(f, c, S) ==
    /\ f \in Subscribers /\ Call(f, "subscribe")
    /\ subscribed' = [subscribed EXCEPT ![f][c] = S]
    /\ LET found == IF S # {} /\ ~IsSubscribed(f, c) THEN ToDiscover(f, c) ELSE {}
           message == [o \in Object |-> Discover(o, c)]
       IN SendAll([g \in Federate |->
                     IF g = f THEN ForEach(found, message) ELSE <<>>])
    /\ UNCHANGED <<members, published, publishes, listens, objects, nextObject,
                   rtiaVars>>

PublishInteraction(f, c, publish) ==
    /\ f \in Publishers /\ Call(f, "interactions")
    /\ publishes' = [publishes EXCEPT ![f] = IF publish THEN @ \cup {c} ELSE @ \ {c}]
    /\ UNCHANGED <<members, published, subscribed, listens, objects, nextObject,
                   rtiaVars, down>>

SubscribeInteraction(f, c, subscribe) ==
    /\ f \in Subscribers /\ Call(f, "interactions")
    /\ listens' = [listens EXCEPT ![f] = IF subscribe THEN @ \cup {c} ELSE @ \ {c}]
    /\ UNCHANGED <<members, published, subscribed, publishes, objects, nextObject,
                   rtiaVars, down>>

(***************************************************************************)
(* Objects and interactions.                                                 *)
(***************************************************************************)
\* The most specific class of a lineage that is in S, or None.
FirstOf(lineage, S) ==
    LET places == {i \in 1 .. Len(lineage) : lineage[i] \in S} IN
    IF places = {} THEN None
    ELSE lineage[CHOOSE i \in places : \A j \in places : i <= j]

\* The class under which a federate is told of an object of class c.
DiscoveryClass(g, c) ==
    FirstOf(Lineage[c], {d \in Class : IsSubscribed(g, d)})

\* Mutant: a federate that subscribes none of the classes is told too.
DiscoverForAll(g, o, c) == <<Discover(o, DiscoveryClass(g, c))>>

\* Mutant: the removal is sent to those that were never told of the object too.
RemoveForAll(g, o) == <<Remove(o)>>

\* What the broadcast list sends to g about the creation and the deletion of an
\* object: one message, however many classes of the lineage it subscribes.
DiscoverFor(g, o, c) ==
    IF DiscoveryClass(g, c) = None THEN <<>>
    ELSE <<Discover(o, DiscoveryClass(g, c))>>

RemoveFor(g, o) ==
    IF DiscoveryClass(g, objects[o].class) = None THEN <<>> ELSE <<Remove(o)>>

NameTaken(S, o) == \E p \in S \ {o} : NameOf[p] = NameOf[o]

InRootObject(f) == {o \in Object : known[f][o] # None}

\* The RTIG checks the name, then that the class is published.  The RTIA adds the
\* object when the reply comes, unless it still has an object of that name.
RegisterObject(f, c) ==
    LET o == nextObject IN
    /\ o \in Object
    /\ f \in Publishers /\ Call(f, "register")
    /\ nextObject' = o + 1
    /\ IF ~NameTaken(Live, o) /\ published[f][c] # {}
         THEN /\ objects' = [objects EXCEPT ![o] =
                    [class |-> c, owner |-> f, attributes |-> published[f][c]]]
              /\ SendAll([g \in Federate |->
                            IF g = f THEN <<>> ELSE DiscoverFor(g, o, c)])
              /\ known' = [known EXCEPT ![f][o] =
                    IF NameTaken(InRootObject(f), o) THEN @ ELSE c]
         ELSE UNCHANGED <<objects, down, known>>
    /\ UNCHANGED <<members, published, subscribed, publishes, listens, link, fifo,
                   discovered>>

\* Mutant: what was sent to a subscriber of a subclass is not taken away.
WaitingAgain(g, list, lineage) ==
    [i \in 1 .. Len(lineage) |-> subscribed[g][lineage[i]] \cap Elements(list)]

\* The attributes a broadcast line has in the state Waiting when the broadcast
\* reaches each class: subscribed there, still in the message, not Sent before.
Waiting(g, list, lineage) ==
    [i \in 1 .. Len(lineage) |->
       {a \in Elements(list) : /\ a \in subscribed[g][lineage[i]]
                               /\ \A j \in 1 .. i - 1 :
                                    a \notin subscribed[g][lineage[j]]}]

\* The message of a class lists the attributes it knows, those of its children
\* removed; the values stay as they were (removeAttributes), so that the i-th
\* attribute goes with the i-th value of the update.  The value of an attribute is
\* identified by the attribute.  A line that waits for some gets those and their
\* values only.
ReflectAt(o, list, c, waiting, dated) ==
    LET left == At(list, Ordered({i \in 1 .. Len(list) : list[i] \in AttributesOf[c]}))
        places == Ordered({k \in 1 .. Len(left) : left[k] \in waiting})
    IN Reflect(o, At(left, places), At(list, places), dated)

\* All the messages about one update that go to g, one class after the other.
ReflectsFor(g, o, list, dated) ==
    LET lineage == Lineage[objects[o].class]
        waiting == Waiting(g, list, lineage)
        reflect == [i \in 1 .. Len(lineage) |->
                      ReflectAt(o, list, lineage[i], waiting[i], dated)]
    IN At(reflect, Ordered({i \in 1 .. Len(lineage) : waiting[i] # {}}))

\* An update is refused unless the caller owns every attribute of the list.
UpdateAttributeValues(f, o, list, dated) ==
    /\ Call(f, "update")
    /\ o \in Live /\ objects[o].owner = f
    /\ Elements(list) \subseteq objects[o].attributes
    /\ SendAll([g \in Federate |->
                  IF g = f THEN <<>> ELSE ReflectsFor(g, o, list, dated)])
    /\ UNCHANGED <<rtigVars, rtiaVars>>

\* Only the owner of the object deletes it.
DeleteObject(f, o) ==
    /\ Call(f, "delete")
    /\ o \in Live /\ objects[o].owner = f
    /\ objects' = [objects EXCEPT ![o] = Unregistered]
    /\ SendAll([g \in Federate |-> IF g = f THEN <<>> ELSE RemoveFor(g, o)])
    /\ known' = [known EXCEPT ![f][o] = None]
    /\ UNCHANGED <<members, published, subscribed, publishes, listens, nextObject, link,
                   fifo, discovered>>

\* Mutant: a subscriber of several classes of the lineage is sent each of them.
InteractionsTwice(g, c) ==
    LET IsListened(d) == d \in listens[g]
        heard == SelectSeq(InteractionLineage[c], IsListened)
    IN [i \in 1 .. Len(heard) |-> Interact(heard[i])]

\* A federate has one line in the list of an interaction: it is sent it once, under
\* the first class of the lineage it subscribes.
InteractionsFor(g, c) ==
    LET first == FirstOf(InteractionLineage[c], listens[g])
    IN IF first = None THEN <<>> ELSE <<Interact(first)>>

SendInteraction(f, c) ==
    /\ Call(f, "send")
    /\ c \in publishes[f]
    /\ SendAll([g \in Federate |-> IF g = f THEN <<>> ELSE InteractionsFor(g, c)])
    /\ UNCHANGED <<rtigVars, rtiaVars>>

(***************************************************************************)
(* The RTIAs, resignation and loss.                                          *)
(***************************************************************************)
HasAttributes(c, attributes) == Elements(attributes) \subseteq AttributesOf[c]

\* processNetworkMessage: a discovered object is added to the root object at once,
\* unless it or its name is there.  A dated update is looked up in the root object:
\* an unknown object or attribute is an exception that ends the RTIA.
ReceiveMessage(f) ==
    /\ link[f] = "open" /\ down[f] # <<>>
    /\ LET m == Head(down[f])
           readable == m.kind = "reflect" /\ m.dated =>
                          /\ m.object \in InRootObject(f)
                          /\ HasAttributes(known[f][m.object], m.attributes)
       IN /\ known' = IF /\ m.kind = "discover"
                         /\ m.object \notin InRootObject(f)
                         /\ ~NameTaken(InRootObject(f), m.object)
                        THEN [known EXCEPT ![f][m.object] = m.class] ELSE known
          /\ fifo' = [fifo EXCEPT ![f] = IF readable THEN Append(@, m) ELSE @]
          /\ link' = [link EXCEPT ![f] = IF readable THEN @ ELSE "lost"]
    /\ down' = [down EXCEPT ![f] = Tail(@)]
    /\ UNCHANGED <<rtigVars, discovered, calls>>

\* tick: the oldest message becomes a callback; an object is dropped after it.
Tick(f) ==
    /\ link[f] = "open" /\ fifo[f] # <<>>
    /\ LET m == Head(fifo[f]) IN
       /\ discovered' = [discovered EXCEPT ![f] =
             CASE m.kind = "discover" -> @ \cup {m.object}
               [] m.kind = "remove" -> @ \ {m.object}
               [] OTHER -> @]
       /\ known' = IF m.kind = "remove" THEN [known EXCEPT ![f][m.object] = None]
                                        ELSE known
    /\ fifo' = [fifo EXCEPT ![f] = Tail(@)]
    /\ UNCHANGED <<rtigVars, link, down, calls>>

\* remove: the declarations and the objects of a federate that resigns stay.
Resign(f) ==
    /\ Call(f, "resign")
    /\ members' = members \ {f}
    /\ link' = [link EXCEPT ![f] = "resigned"]
    /\ UNCHANGED <<published, subscribed, publishes, listens, objects, nextObject, down,
                   known, fifo, discovered>>

Die(f) ==
    /\ f \in Mortal /\ link[f] # "lost"
    /\ link' = [link EXCEPT ![f] = "lost"]
    /\ UNCHANGED <<rtigVars, down, known, fifo, discovered, calls>>

\* The RTIG reads the end of the stream of a member: its publications and its
\* objects go.  Its subscriptions may stay (remove_if erases nothing), to no effect.
KillFederate(f) ==
    /\ link[f] = "lost" /\ f \in members
    /\ members' = members \ {f}
    /\ published' = [published EXCEPT ![f] = [c \in Class |-> {}]]
    /\ publishes' = [publishes EXCEPT ![f] = {}]
    /\ LET dropped == {o \in Live : objects[o].owner = f}
           told(g) == {o \in dropped : RemoveFor(g, o) # <<>>}
           message == [o \in Object |-> Remove(o)]
       IN /\ objects' = [o \in Object |->
                           IF o \in dropped THEN Unregistered ELSE objects[o]]
          /\ SendAll([g \in Federate |-> ForEach(told(g), message)])
    /\ UNCHANGED <<subscribed, listens, nextObject, rtiaVars, calls>>

Next ==
    \E f \in Federate :
        \/ \E c \in Class, S \in SUBSET Attribute :
              /\ S \subseteq AttributesOf[c]
              /\ PublishObject(f, c, S) \/ SubscribeObject(f, c, S)
        \/ \E c \in InteractionClass, b \in BOOLEAN :
              PublishInteraction(f, c, b) \/ SubscribeInteraction(f, c, b)
        \/ \E c \in Class : RegisterObject(f, c)
        \/ \E o \in Object, list \in Lists, dated \in BOOLEAN :
              UpdateAttributeValues(f, o, list, dated)
        \/ \E o \in Object : DeleteObject(f, o)
        \/ \E c \in InteractionClass : SendInteraction(f, c)
        \/ ReceiveMessage(f) \/ Tick(f) \/ Resign(f) \/ Die(f) \/ KillFederate(f)

Spec == Init /\ [][Next]_vars

(***************************************************************************)
(* Properties.                                                               *)
(***************************************************************************)
Message ==
    [kind : {"discover"}, object : Object, class : Class]
      \cup [kind : {"remove"}, object : Object]
      \cup [kind : {"reflect"}, object : Object, attributes : Seq(Attribute),
            values : Seq(Attribute), dated : BOOLEAN]
      \cup [kind : {"interaction"}, class : InteractionClass]

\* What the variables hold; a message of discovery names a class, so nothing is
\* announced to a federate that subscribes none (preparePendingDOMessage).
TypeOK ==
    /\ members \subseteq Federate
    /\ published \in [Federate -> [Class -> SUBSET Attribute]]
    /\ subscribed \in [Federate -> [Class -> SUBSET Attribute]]
    /\ publishes \in [Federate -> SUBSET InteractionClass]
    /\ listens \in [Federate -> SUBSET InteractionClass]
    /\ objects \in [Object -> {Unregistered} \cup
                      [class : Class, owner : Federate, attributes : SUBSET Attribute]]
    /\ nextObject \in 1 .. MaxObject + 1
    /\ link \in [Federate -> {"open", "resigned", "lost"}]
    /\ down \in [Federate -> Seq(Message)]
    /\ known \in [Federate -> [Object -> Class \cup {None}]]
    /\ fifo \in [Federate -> Seq(Message)]
    /\ discovered \in [Federate -> SUBSET Object]
    /\ calls \in [Service -> Nat]

Coming(g) == Elements(fifo[g]) \cup Elements(down[g])

Present(g) == g \in members /\ link[g] = "open"

\* No subscriber misses an object: a federate that subscribes a class of the lineage
\* of an object that is registered, by another, has discovered it or is about to,
\* whatever came first, the subscription or the object, and whatever it subscribed
\* or dropped before.
SubscriberWillKnow ==
    \A g \in Federate, o \in Live :
        /\ Present(g) /\ objects[o].owner # g
        /\ DiscoveryClass(g, objects[o].class) # None
        => \/ o \in discovered[g]
           \/ \E m \in Coming(g) : m.kind = "discover" /\ m.object = o

\* A federate is never called back about an object it has not discovered, or that it
\* was told is gone: no update, and no removal, overtakes the discovery, and none
\* follows the removal.
OnlyKnownObjects ==
    \A g \in Federate :
        link[g] = "open" /\ fifo[g] # <<>> =>
            LET m == Head(fifo[g]) IN
            m.kind \in {"reflect", "remove"} => m.object \in discovered[g]

\* The messages for g that are not yet callbacks, the oldest first.
Pending(g) == fifo[g] \o down[g]

\* Updates and removals in s are of objects in D or discovered before in s, and
\* nothing about an object follows its removal.
Narrated(s, D) ==
    \A i \in 1 .. Len(s) : s[i].kind \in {"reflect", "remove"} =>
        /\ \/ s[i].object \in D
           \/ \E j \in 1 .. i - 1 : s[j].kind = "discover" /\ s[j].object = s[i].object
        /\ \A j \in 1 .. i - 1 : s[j].kind = "remove" => s[j].object # s[i].object

\* o is in D, or is discovered in s.
Knows(o, s, D) ==
    o \in D \/ \E i \in 1 .. Len(s) : s[i].kind = "discover" /\ s[i].object = o

\* What s removes has been registered before and is not any more.
RemovesAreDead(s, live, next) ==
    \A i \in 1 .. Len(s) : s[i].kind = "remove" => s[i].object \notin live /\ s[i].object < next

FederateKnows(g) ==
    link[g] = "open" =>
        /\ g \in members
        /\ Narrated(Pending(g), discovered[g])
        /\ RemovesAreDead(Pending(g), Live, nextObject)
        /\ \A o \in Live :
              objects[o].owner # g /\ DiscoveryClass(g, objects[o].class) # None
                => Knows(o, Pending(g), discovered[g])

\* Handles are not used again, and what a federate that is there is sent follows the
\* life of each object: its discovery, its updates, its removal, which is sent when the
\* RTIG has no such object any more.  It is inductive.
KnowledgeInvariant ==
    /\ \A o \in Live : o < nextObject
    /\ \A g \in Federate : FederateKnows(g)

\* The attributes of an update that a federate subscribes in some class of the
\* lineage of the object.
Wanted(g, o, list) ==
    {a \in Elements(list) : \E i \in 1 .. Len(Lineage[objects[o].class]) :
                               a \in subscribed[g][Lineage[objects[o].class][i]]}

\* The broadcast of an update reaches each federate exactly as it subscribed, for any
\* subscription of the classes of the lineage: each attribute it subscribes, in
\* whichever class, once, and no other.
BroadcastIsExact ==
    \A g \in Federate, o \in Live, list \in Lists :
        LET ms == ReflectsFor(g, o, list, FALSE)
            Reflected(a) == {p \in (1 .. Len(ms)) \X (1 .. Len(list)) :
                               /\ p[2] <= Len(ms[p[1]].attributes)
                               /\ ms[p[1]].attributes[p[2]] = a}
        IN \A a \in Attribute :
             IF a \in Wanted(g, o, list) THEN \E p \in Reflected(a) : Reflected(a) = {p}
                                         ELSE Reflected(a) = {}

\* An interaction reaches a federate once, when it subscribes the class sent or an
\* ancestor, and then as the most specific class it subscribes: no class it
\* subscribes is an ancestor's child on the way.
InteractionOnce ==
    \A g \in Federate, c \in InteractionClass :
        LET ms == InteractionsFor(g, c)
            heard == listens[g] \cap Elements(InteractionLineage[c])
        IN /\ Len(ms) = (IF heard = {} THEN 0 ELSE 1)
           /\ \A m \in Elements(ms) :
                /\ m.class \in heard
                /\ heard \subseteq Elements(InteractionLineage[m.class])

\* "Update message attribute list by removing child's attributes": what is left of an
\* update for the subscribers of a superclass is each attribute with its value.
ValuesFollowAttributes ==
    \A g \in Federate : \A m \in Coming(g) :
        m.kind = "reflect" => m.attributes = m.values
=============================================================================
