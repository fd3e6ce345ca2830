--------------------------- MODULE Objects_proofs ---------------------------
(***************************************************************************)
(* The theorems about Objects, for every set of federates, every forest of   *)
(* classes with their attributes, every object and name, and whatever the    *)
(* calls are bounded by.  What a federate discovers, is told of and is told  *)
(* to drop rests on KnowledgeInvariant; the broadcast of an update rests on  *)
(* the order in which the lineage of a class is visited.                     *)
(***************************************************************************)
EXTENDS Objects, SequenceTheorems, FiniteSetTheorems, TLAPS

-----------------------------------------------------------------------------
(* Numbers in increasing order. *)

\* A set of natural numbers that is not empty has a least element.
LEMMA Least ==
    ASSUME NEW T, T \subseteq Nat, T # {}
    PROVE  \E x \in T : \A y \in T : x <= y
<1> DEFINE R == {p \in Nat \X Nat : p[1] < p[2]}
<1>1. PICK x \in T : \A y \in T : <<y, x>> \notin R
    <2>1. IsWellFoundedOn(R, Nat)
        BY NatLessThanWellFounded DEF OpToRel
    <2> HIDE DEF R
    <2> QED
        BY <2>1, WFMin
<1>2. ASSUME NEW y \in T PROVE x <= y
    <2>1. <<y, x>> \in Nat \X Nat /\ x \in Nat /\ y \in Nat
        OBVIOUS
    <2>2. ~ (y < x)
        BY <1>1, <2>1
    <2> QED
        BY <2>1, <2>2
<1> QED
    BY <1>2

\* A function on 1 .. n is a sequence.
LEMMA FunctionIsSeq ==
    ASSUME NEW n \in Nat, NEW S, NEW f \in [1 .. n -> S]
    PROVE  f \in Seq(S) /\ Len(f) = n
OBVIOUS

\* s lists numbers of S, the smaller ones first.
Increasing(s, S) ==
    /\ s \in [1 .. Cardinality(S) -> S]
    /\ \A i, j \in 1 .. Cardinality(S) : i < j => s[i] < s[j]

\* Any set of numbers up to n can be listed.
LEMMA CanBeListed ==
    ASSUME NEW n \in Nat
    PROVE  \A S \in SUBSET (1 .. n) : \E s : Increasing(s, S)
<1> DEFINE Listed(k) == \A S \in SUBSET (1 .. k) : \E s : Increasing(s, S)
           T == {k \in Nat : ~ Listed(k)}
<1>1. SUFFICES ASSUME T # {} PROVE FALSE
    OBVIOUS
<1>2. PICK k \in T : \A y \in T : k <= y
    <2>1. T \subseteq Nat
        OBVIOUS
    <2> HIDE DEF T
    <2> QED
        BY <1>1, <2>1, Least
<1>3. k \in Nat /\ ~ Listed(k)
    BY <1>2
<1>4. PICK S \in SUBSET (1 .. k) : ~ \E s : Increasing(s, S)
    BY <1>3
<1>5. k # 0
    <2>1. SUFFICES ASSUME k = 0 PROVE FALSE
        OBVIOUS
    <2>2. S = {}
        BY <1>4, <2>1
    <2>3. Cardinality(S) = 0
        BY <2>2, FS_EmptySet
    <2>4. Increasing([i \in 1 .. 0 |-> 0], S)
        BY <2>2, <2>3 DEF Increasing
    <2> QED
        BY <1>4, <2>4
<1>6. Listed(k - 1)
    <2>1. k - 1 \in Nat /\ ~ (k <= k - 1)
        BY <1>3, <1>5
    <2>2. k - 1 \notin T
        BY <1>2, <2>1
    <2> QED
        BY <2>1, <2>2
<1>7. IsFiniteSet(S)
    <2>1. IsFiniteSet(1 .. k)
        BY <1>3, FS_Interval
    <2> QED
        BY <2>1, FS_Subset
<1>8. CASE k \notin S
    <2>1. S \in SUBSET (1 .. k - 1)
        BY <1>3, <1>8
    <2> QED
        BY <1>4, <1>6, <2>1
<1>9. CASE k \in S
    <2> DEFINE U == S \ {k}
               c == Cardinality(U)
    <2>1. U \in SUBSET (1 .. k - 1)
        BY <1>3, <1>9
    <2>2. PICK t : Increasing(t, U)
        BY <1>6, <2>1
    <2>3. IsFiniteSet(U) /\ c = Cardinality(S) - 1
        BY <1>7, <1>9, FS_RemoveElement
    <2>4. c \in Nat /\ Cardinality(S) \in Nat
        BY <1>7, <2>3, FS_CardinalityType
    <2>5. Cardinality(S) = c + 1
        BY <2>3, <2>4
    <2> DEFINE s == [i \in 1 .. c + 1 |-> IF i = c + 1 THEN k ELSE t[i]]
    <2>6. \A i \in 1 .. c : t[i] \in U
        BY <2>2 DEF Increasing
    <2>7. \A i, j \in 1 .. c : i < j => t[i] < t[j]
        BY <2>2 DEF Increasing
    <2> HIDE DEF c, U
    <2>8. s \in [1 .. c + 1 -> S]
        BY <1>9, <2>4, <2>6 DEF U
    <2>9. ASSUME NEW i \in 1 .. c + 1, NEW j \in 1 .. c + 1, i < j
          PROVE  s[i] < s[j]
        <3>1. i \in 1 .. c
            BY <2>4, <2>9
        <3>5. t[i] \in 1 .. k - 1
            BY <2>1, <2>6, <3>1
        <3>2. s[i] = t[i] /\ s[j] = (IF j = c + 1 THEN k ELSE t[j])
            BY <2>4, <2>9, <3>1
        <3>3. CASE j = c + 1
            BY <1>3, <3>2, <3>3, <3>5
        <3>4. CASE j # c + 1
            <4>1. j \in 1 .. c
                BY <2>4, <3>4
            <4> QED
                BY <2>7, <2>9, <3>1, <3>2, <3>4, <4>1
        <3> QED
            BY <3>3, <3>4
    <2> HIDE DEF s
    <2>10. Increasing(s, S)
        BY <2>5, <2>8, <2>9 DEF Increasing
    <2> QED
        BY <1>4, <2>10
<1> QED
    BY <1>8, <1>9

\* Ordered(S) lists the numbers of S in increasing order, each at one place.
LEMMA OrderedProperties ==
    ASSUME NEW n \in Nat, NEW S \in SUBSET (1 .. n)
    PROVE  /\ Cardinality(S) \in Nat /\ Len(Ordered(S)) = Cardinality(S)
           /\ Ordered(S) \in Seq(S)
           /\ \A i \in 1 .. Len(Ordered(S)) : Ordered(S)[i] \in S
           /\ \A i, j \in 1 .. Len(Ordered(S)) : i < j => Ordered(S)[i] < Ordered(S)[j]
           /\ \A x \in S : \E i \in 1 .. Len(Ordered(S)) : Ordered(S)[i] = x
           /\ S # {} <=> Len(Ordered(S)) # 0
<1> DEFINE c == Cardinality(S)
           O == Ordered(S)
<1>1. IsFiniteSet(S) /\ c \in Nat
    <2>1. IsFiniteSet(1 .. n)
        BY FS_Interval
    <2> QED
        BY <2>1, FS_Subset, FS_CardinalityType
<1>2. O \in [1 .. c -> S] /\ \A i, j \in 1 .. c : i < j => O[i] < O[j]
    <2>1. PICK s : Increasing(s, S)
        BY CanBeListed
    <2>2. /\ s \in [1 .. c -> S]
          /\ \A i, j \in 1 .. c : i < j => s[i] < s[j]
        BY <2>1 DEF Increasing
    <2>3. O = CHOOSE t \in [1 .. c -> S] : \A i, j \in 1 .. c : i < j => t[i] < t[j]
        BY DEF Ordered
    <2> HIDE DEF O, c
    <2> QED
        BY <2>2, <2>3
<1> HIDE DEF O
<1>3. O \in Seq(S) /\ Len(O) = c
    BY <1>1, <1>2, FunctionIsSeq
<1>4. O \in Injection(1 .. c, S)
    <2>1. ASSUME NEW i \in 1 .. c, NEW j \in 1 .. c, O[i] = O[j] PROVE i = j
        <3>1. O[i] \in S
            BY <1>2
        <3>2. O[i] \in Int
            <4>1. \A x \in S : x \in Int
                OBVIOUS
            <4> QED
                BY <3>1, <4>1
        <3>3. ~ (i < j) /\ ~ (j < i)
            BY <1>2, <2>1, <3>2
        <3> QED
            BY <1>1, <3>3
    <2> QED
        BY <1>2, <2>1 DEF Injection, IsInjective
<1>5. O \in Surjection(1 .. c, S)
    <2>1. Cardinality(1 .. c) = c
        BY <1>1, FS_Interval
    <2> QED
        BY <1>1, <1>4, <2>1, FS_Injection
<1>6. \A x \in S : \E i \in 1 .. c : O[i] = x
    BY <1>5 DEF Surjection
<1>7. S # {} <=> c # 0
    BY <1>1, FS_EmptySet
<1>8. \A i \in 1 .. c : O[i] \in S
    BY <1>2
<1> QED
    BY <1>1, <1>2, <1>3, <1>6, <1>7, <1>8 DEF O

-----------------------------------------------------------------------------
(* Lineages. *)

\* The lineage of a class is a sequence of classes that is not empty.
LEMMA ChosenLineage ==
    ASSUME NEW C, NEW parent, IsFiniteSet(C), IsForest(parent, C), NEW c \in C, NEW s,
           s = CHOOSE t \in Chains(C) : IsLineage(t, parent, c)
    PROVE  s \in Seq(C) /\ Len(s) \in Nat \ {0} /\ IsLineage(s, parent, c)
<1>1. \E t \in Chains(C) : IsLineage(t, parent, c)
    BY DEF IsForest
<1>2. s \in Chains(C) /\ IsLineage(s, parent, c)
    BY <1>1
<1>3. PICK n \in 1 .. Cardinality(C) : s \in [1 .. n -> C]
    BY <1>2 DEF Chains
<1>4. n \in Nat \ {0}
    BY <1>3, FS_CardinalityType
<1> QED
    BY <1>2, <1>3, <1>4, FunctionIsSeq

LEMMA LineageType ==
    ASSUME NEW c \in Class
    PROVE  /\ Lineage[c] \in Seq(Class) /\ Len(Lineage[c]) \in Nat \ {0}
           /\ IsLineage(Lineage[c], SuperClass, c)
BY ClassAssumption, ChosenLineage DEF Lineage

LEMMA InteractionLineageType ==
    ASSUME NEW c \in InteractionClass
    PROVE  /\ InteractionLineage[c] \in Seq(InteractionClass)
           /\ Len(InteractionLineage[c]) \in Nat \ {0}
           /\ IsLineage(InteractionLineage[c], SuperInteraction, c)
BY ClassAssumption, ChosenLineage DEF InteractionLineage

\* The lineage of an ancestor is the end of the lineage.
LEMMA LineageOfAncestor ==
    ASSUME NEW C, NEW parent, IsForest(parent, C), NEW c \in C,
           NEW s \in Seq(C), NEW t \in Seq(C), NEW i \in 1 .. Len(s), t # <<>>,
           IsLineage(s, parent, c), IsLineage(t, parent, s[i])
    PROVE  /\ Len(t) = Len(s) - i + 1
           /\ \A j \in 1 .. Len(t) : t[j] = s[i + j - 1]
<1>1. Len(s) \in Nat /\ Len(t) \in Nat /\ Len(t) # 0 /\ i \in Nat
    OBVIOUS
<1>2. /\ \A k \in 1 .. Len(s) - 1 : s[k + 1] = parent[s[k]]
      /\ \A k \in 1 .. Len(t) - 1 : t[k + 1] = parent[t[k]]
      /\ parent[s[Len(s)]] = None /\ parent[t[Len(t)]] = None
      /\ t[1] = s[i]
    BY DEF IsLineage
<1>3. None \notin C /\ \A k \in 1 .. Len(s) : s[k] \in C
    BY DEF IsForest
<1>4. \A k \in 1 .. Len(t) : t[k] \in C
    OBVIOUS
<1> DEFINE Both == {j \in Nat : j # 0 /\ j <= Len(t) /\ i + j - 1 <= Len(s)}
           T == {j \in Both : t[j] # s[i + j - 1]}
<1>5. T = {}
    <2>1. SUFFICES ASSUME T # {} PROVE FALSE
        OBVIOUS
    <2>2. PICK j \in T : \A k \in T : j <= k
        <3>1. T \subseteq Nat
            OBVIOUS
        <3> HIDE DEF T
        <3> QED
            BY <2>1, <3>1, Least
    <2>3. j \in Nat /\ j # 0 /\ j <= Len(t) /\ i + j - 1 <= Len(s) /\ t[j] # s[i + j - 1]
        BY <2>2
    <2>4. j # 1
        <3>1. SUFFICES ASSUME j = 1 PROVE FALSE
            OBVIOUS
        <3>2. i + j - 1 = i
            BY <1>1, <3>1
        <3> QED
            BY <1>2, <2>3, <3>1, <3>2
    <2>5. j - 1 \in Both /\ ~ (j <= j - 1)
        BY <1>1, <2>3, <2>4
    <2>6. t[j - 1] = s[i + (j - 1) - 1]
        BY <2>2, <2>5
    <2>7. j - 1 \in 1 .. Len(t) - 1 /\ i + (j - 1) - 1 \in 1 .. Len(s) - 1
        BY <1>1, <2>3, <2>4
    <2>8. t[(j - 1) + 1] = s[(i + (j - 1) - 1) + 1]
        BY <1>2, <2>6, <2>7
    <2>9. (j - 1) + 1 = j /\ (i + (j - 1) - 1) + 1 = i + j - 1
        BY <1>1, <2>3
    <2> QED
        BY <2>3, <2>8, <2>9
<1>6. \A j \in Both : t[j] = s[i + j - 1]
    BY <1>5
<1> HIDE DEF T
<1>7. ~ (Len(t) < Len(s) - i + 1)
    <2>1. SUFFICES ASSUME Len(t) < Len(s) - i + 1 PROVE FALSE
        OBVIOUS
    <2> DEFINE k == i + Len(t) - 1
    <2>2. Len(t) \in Both /\ k \in 1 .. Len(s) - 1 /\ k + 1 \in 1 .. Len(s)
        BY <1>1, <2>1
    <2>3. t[Len(t)] = s[k]
        BY <1>6, <2>2
    <2> HIDE DEF k
    <2>4. s[k + 1] = parent[s[k]] /\ s[k + 1] \in C
        BY <1>2, <1>3, <2>2
    <2> QED
        BY <1>2, <1>3, <2>3, <2>4
<1>8. ~ (Len(t) > Len(s) - i + 1)
    <2>1. SUFFICES ASSUME Len(t) > Len(s) - i + 1 PROVE FALSE
        OBVIOUS
    <2> DEFINE k == Len(s) - i + 1
    <2>2. /\ k \in Both /\ k \in 1 .. Len(t) - 1 /\ k + 1 \in 1 .. Len(t)
          /\ i + k - 1 = Len(s)
        BY <1>1, <2>1
    <2>3. t[k] = s[Len(s)]
        BY <1>6, <2>2
    <2> HIDE DEF k
    <2>4. t[k + 1] = parent[t[k]] /\ t[k + 1] \in C
        BY <1>2, <1>4, <2>2
    <2> QED
        BY <1>2, <1>3, <2>3, <2>4
<1>9. Len(t) = Len(s) - i + 1
    BY <1>1, <1>7, <1>8
<1> QED
    BY <1>1, <1>6, <1>9

\* FirstOf finds the first element of a sequence that is in S.
LEMMA FirstOfProperties ==
    ASSUME NEW C, NEW s \in Seq(C), NEW S
    PROVE  \/ FirstOf(s, S) = None /\ \A i \in 1 .. Len(s) : s[i] \notin S
           \/ \E i \in 1 .. Len(s) : /\ FirstOf(s, S) = s[i] /\ s[i] \in S
                                     /\ \A j \in 1 .. i - 1 : s[j] \notin S
<1> DEFINE places == {i \in 1 .. Len(s) : s[i] \in S}
           first == CHOOSE i \in places : \A j \in places : i <= j
<1>1. CASE places = {}
    BY <1>1 DEF FirstOf
<1>2. CASE places # {}
    <2>1. places \subseteq Nat
        OBVIOUS
    <2>2. FirstOf(s, S) = s[first]
        BY <1>2 DEF FirstOf
    <2>3. \E i \in places : \A j \in places : i <= j
        <3> HIDE DEF places
        <3> QED
            BY <1>2, <2>1, Least
    <2>4. first \in places /\ \A j \in places : first <= j
        BY <2>3
    <2> HIDE DEF first
    <2>5. first \in 1 .. Len(s) /\ s[first] \in S
        BY <2>4
    <2>6. ASSUME NEW j \in 1 .. first - 1 PROVE s[j] \notin S
        <3>1. j \in 1 .. Len(s) /\ ~ (first <= j)
            BY <2>5
        <3> QED
            BY <2>4, <3>1
    <2> QED
        BY <2>2, <2>5, <2>6
<1> QED
    BY <1>1, <1>2

-----------------------------------------------------------------------------
(* The messages that are sent. *)

\* The fields of a message are those of its kind.
LEMMA MessageFields ==
    ASSUME NEW m \in Message
    PROVE  /\ m.kind \in {"discover", "remove", "reflect", "interaction"}
           /\ m.kind # "interaction" => m.object \in Object
           /\ m.kind = "discover" => m.class \in Class
BY DEF Message

\* A federate subscribes a class of the lineage of c if and only if it is told of
\* the objects of class c.
LEMMA DiscoveryClassProperties ==
    ASSUME NEW g, NEW c \in Class
    PROVE  /\ DiscoveryClass(g, c) \in Class \cup {None}
           /\ DiscoveryClass(g, c) # None <=>
                 \E i \in 1 .. Len(Lineage[c]) : IsSubscribed(g, Lineage[c][i])
<1> DEFINE s == Lineage[c]
           S == {d \in Class : IsSubscribed(g, d)}
<1>1. s \in Seq(Class) /\ None \notin Class /\ \A i \in 1 .. Len(s) : s[i] \in Class
    BY LineageType, ClassAssumption DEF IsForest
<1>2. \/ FirstOf(s, S) = None /\ \A i \in 1 .. Len(s) : s[i] \notin S
      \/ \E i \in 1 .. Len(s) : FirstOf(s, S) = s[i] /\ s[i] \in S
    <2> HIDE DEF s, S
    <2> QED
        BY <1>1, FirstOfProperties
<1>3. DiscoveryClass(g, c) = FirstOf(s, S)
    BY DEF DiscoveryClass
<1> QED
    BY <1>1, <1>2, <1>3

\* The messages of a creation and of a deletion.
LEMMA DiscoverForProperties ==
    ASSUME NEW g, NEW o \in Object, NEW c \in Class
    PROVE  /\ DiscoverFor(g, o, c) \in Seq(Message)
           /\ DiscoveryClass(g, c) = None => DiscoverFor(g, o, c) = <<>>
           /\ DiscoveryClass(g, c) # None =>
                 DiscoverFor(g, o, c) = <<Discover(o, DiscoveryClass(g, c))>>
<1>1. DiscoveryClass(g, c) \in Class \cup {None}
    BY DiscoveryClassProperties
<1>2. DiscoveryClass(g, c) # None => Discover(o, DiscoveryClass(g, c)) \in Message
    BY <1>1 DEF Discover, Message
<1> QED
    BY <1>2 DEF DiscoverFor

LEMMA RemoveForProperties ==
    ASSUME NEW g, NEW o \in Object
    PROVE  /\ Remove(o) \in Message /\ RemoveFor(g, o) \in Seq(Message)
           /\ DiscoveryClass(g, objects[o].class) = None => RemoveFor(g, o) = <<>>
           /\ DiscoveryClass(g, objects[o].class) # None => RemoveFor(g, o) = <<Remove(o)>>
<1>1. Remove(o) \in Message
    BY DEF Remove, Message
<1> QED
    BY <1>1 DEF RemoveFor

LEMMA InteractionsForProperties ==
    ASSUME NEW g, NEW c \in InteractionClass
    PROVE  InteractionsFor(g, c) \in Seq(Message)
<1> DEFINE s == InteractionLineage[c]
<1>1. s \in Seq(InteractionClass) /\ \A i \in 1 .. Len(s) : s[i] \in InteractionClass
    BY InteractionLineageType
<1>2. FirstOf(s, listens[g]) = None \/ FirstOf(s, listens[g]) \in InteractionClass
    <2> HIDE DEF s
    <2> QED
        BY <1>1, FirstOfProperties
<1>3. FirstOf(s, listens[g]) \in InteractionClass =>
          Interact(FirstOf(s, listens[g])) \in Message
    BY DEF Interact, Message
<1> HIDE DEF s
<1> QED
    BY <1>2, <1>3 DEF InteractionsFor, s

\* ForEach sends the message of each object of S, once.
LEMMA ForEachProperties ==
    ASSUME NEW S \in SUBSET Object, NEW message, \A o \in S : message[o] \in Message
    PROVE  /\ ForEach(S, message) \in Seq(Message)
           /\ \A k \in 1 .. Len(ForEach(S, message)) :
                 /\ Ordered(S)[k] \in S
                 /\ ForEach(S, message)[k] = message[Ordered(S)[k]]
           /\ \A o \in S : \E k \in 1 .. Len(ForEach(S, message)) : Ordered(S)[k] = o
           /\ \A i, j \in 1 .. Len(ForEach(S, message)) : i < j => Ordered(S)[i] # Ordered(S)[j]
<1>1. MaxObject \in Nat /\ S \in SUBSET (1 .. MaxObject)
    BY BoundAssumption DEF Object
<1> DEFINE places == Ordered(S)
<1>2. /\ places \in Seq(S) /\ \A k \in 1 .. Len(places) : places[k] \in S
      /\ \A i, j \in 1 .. Len(places) : i < j => places[i] < places[j]
      /\ \A x \in S : \E i \in 1 .. Len(places) : places[i] = x
    BY <1>1, OrderedProperties
<1> HIDE DEF places
<1>3. \A k \in 1 .. Len(places) : message[places[k]] \in Message
    BY <1>2
<1>4. /\ At(message, places) \in Seq(Message) /\ Len(At(message, places)) = Len(places)
      /\ \A k \in 1 .. Len(places) : At(message, places)[k] = message[places[k]]
    <2>1. At(message, places) \in [1 .. Len(places) -> Message] /\ Len(places) \in Nat
        BY <1>2, <1>3 DEF At
    <2>2. \A k \in 1 .. Len(places) : At(message, places)[k] = message[places[k]]
        BY DEF At
    <2> QED
        BY <2>1, <2>2, FunctionIsSeq
<1>5. \A x \in S : x \in Int
    BY <1>1
<1>6. ASSUME NEW i \in 1 .. Len(places), NEW j \in 1 .. Len(places), i < j
      PROVE  places[i] # places[j]
    <2>1. places[i] \in Int /\ places[j] \in Int /\ places[i] < places[j]
        BY <1>2, <1>5, <1>6
    <2> QED
        BY <2>1
<1>7. ForEach(S, message) = At(message, places)
    BY DEF ForEach, places
<1> QED
    BY <1>2, <1>4, <1>6, <1>7 DEF places

-----------------------------------------------------------------------------
(* The messages of an update. *)

\* The message of a class names the attributes of the list that the class has and
\* that are waited for, each once.
LEMMA ReflectAtProperties ==
    ASSUME NEW o \in Object, NEW list \in Lists, NEW c \in Class, NEW waiting,
           NEW dated \in BOOLEAN, NEW m, m = ReflectAt(o, list, c, waiting, dated)
    PROVE  /\ m \in Message /\ m.kind = "reflect" /\ m.object = o
           /\ m.attributes \in Seq(Attribute) /\ Len(m.attributes) <= Len(list)
           /\ \A i \in 1 .. Len(m.attributes) :
                 m.attributes[i] \in Elements(list) \cap AttributesOf[c] \cap waiting
           /\ \A a \in Elements(list) \cap AttributesOf[c] \cap waiting :
                 \E i \in 1 .. Len(m.attributes) : m.attributes[i] = a
           /\ \A i, j \in 1 .. Len(m.attributes) :
                 m.attributes[i] = m.attributes[j] => i = j
<1> DEFINE n == Len(list)
           I == {i \in 1 .. n : list[i] \in AttributesOf[c]}
           inClass == Ordered(I)
           left == At(list, inClass)
           K == {k \in 1 .. Len(left) : left[k] \in waiting}
           places == Ordered(K)
           attributes == At(left, places)
           values == At(list, places)
<1>1. /\ n \in Nat /\ \A i \in 1 .. n : list[i] \in Attribute
      /\ \A i, j \in 1 .. n : list[i] = list[j] => i = j
    <2>1. list \in Seq(Attribute) /\ \A i, j \in 1 .. n : list[i] = list[j] => i = j
        BY ListsAssumption DEF Attribute
    <2> QED
        BY <2>1
<1>2. /\ inClass \in Seq(I) /\ Len(inClass) \in Nat /\ Len(inClass) <= n
      /\ \A k \in 1 .. Len(inClass) : inClass[k] \in I
      /\ \A i, j \in 1 .. Len(inClass) : i < j => inClass[i] < inClass[j]
      /\ \A x \in I : \E k \in 1 .. Len(inClass) : inClass[k] = x
    <2>1. I \in SUBSET (1 .. n)
        OBVIOUS
    <2>2. Cardinality(I) <= n
        <3>1. IsFiniteSet(1 .. n) /\ Cardinality(1 .. n) = n
            BY <1>1, FS_Interval, SMTT(30)
        <3> QED
            BY <2>1, <3>1, FS_Subset
    <2> HIDE DEF I, n
    <2> QED
        <3>1. /\ Cardinality(I) \in Nat /\ Len(Ordered(I)) = Cardinality(I)
              /\ Ordered(I) \in Seq(I)
              /\ \A i \in 1 .. Len(Ordered(I)) : Ordered(I)[i] \in I
              /\ \A i, j \in 1 .. Len(Ordered(I)) : i < j => Ordered(I)[i] < Ordered(I)[j]
              /\ \A x \in I : \E i \in 1 .. Len(Ordered(I)) : Ordered(I)[i] = x
            BY <1>1, <2>1, OrderedProperties
        <3> QED
            BY <2>2, <3>1
<1> HIDE DEF inClass
<1>3. /\ left \in Seq(Attribute) /\ Len(left) = Len(inClass)
      /\ \A k \in 1 .. Len(inClass) : left[k] = list[inClass[k]]
    <2>1. \A k \in 1 .. Len(inClass) : list[inClass[k]] \in Attribute
        BY <1>1, <1>2
    <2>2. left \in [1 .. Len(inClass) -> Attribute]
        BY <2>1 DEF At
    <2>3. \A k \in 1 .. Len(inClass) : left[k] = list[inClass[k]]
        BY DEF At
    <2> HIDE DEF left
    <2> QED
        BY <1>2, <2>2, <2>3, FunctionIsSeq
<1> HIDE DEF left
<1>4. /\ places \in Seq(K) /\ Len(places) \in Nat /\ Len(places) <= Len(left)
      /\ \A k \in 1 .. Len(places) : places[k] \in K
      /\ \A i, j \in 1 .. Len(places) : i < j => places[i] < places[j]
      /\ \A x \in K : \E k \in 1 .. Len(places) : places[k] = x
    <2>1. K \in SUBSET (1 .. Len(left)) /\ Len(left) \in Nat
        BY <1>2, <1>3
    <2>2. Cardinality(K) <= Len(left)
        <3> DEFINE l == Len(left)
        <3>1. l \in Nat
            BY <2>1
        <3> HIDE DEF l
        <3>2. IsFiniteSet(1 .. l) /\ Cardinality(1 .. l) = l
            BY <3>1, FS_Interval
        <3>3. K \in SUBSET (1 .. l)
            BY <2>1 DEF l
        <3>4. Cardinality(K) <= l
            BY <3>2, <3>3, FS_Subset
        <3> QED
            BY <3>4 DEF l
    <2> HIDE DEF K
    <2> QED
        BY <2>1, <2>2, OrderedProperties
<1> HIDE DEF places
<1>5. \A k \in 1 .. Len(places) : /\ places[k] \in 1 .. Len(left) /\ places[k] \in 1 .. n
                                  /\ left[places[k]] \in waiting
    <2>1. TAKE k \in 1 .. Len(places)
    <2>2. places[k] \in K
        BY <1>4
    <2>3. places[k] \in 1 .. Len(left) /\ left[places[k]] \in waiting
        BY ONLY <2>2 DEF K
    <2>4. Len(left) \in Nat /\ Len(left) <= n /\ n \in Nat
        BY <1>1, <1>2, <1>3
    <2> HIDE DEF K, n
    <2> QED
        BY ONLY <2>3, <2>4
<1>6. /\ attributes \in Seq(Attribute) /\ Len(attributes) = Len(places)
      /\ \A k \in 1 .. Len(places) : attributes[k] = left[places[k]]
    <2>1. \A k \in 1 .. Len(places) : left[places[k]] \in Attribute
        BY <1>3, <1>5
    <2>2. attributes \in [1 .. Len(places) -> Attribute]
        BY <2>1 DEF At
    <2>3. \A k \in 1 .. Len(places) : attributes[k] = left[places[k]]
        BY DEF At
    <2> HIDE DEF attributes
    <2> QED
        BY <1>4, <2>2, <2>3, FunctionIsSeq
<1>7. values \in Seq(Attribute)
    <2>1. \A k \in 1 .. Len(places) : list[places[k]] \in Attribute
        BY <1>1, <1>5
    <2>2. values \in [1 .. Len(places) -> Attribute]
        BY <2>1 DEF At
    <2> HIDE DEF values
    <2> QED
        BY <1>4, <2>2, FunctionIsSeq
<1>8. m = Reflect(o, attributes, values, dated)
    BY DEF ReflectAt, left, inClass, places
<1> HIDE DEF attributes, values
<1>9. /\ m \in Message /\ m.kind = "reflect" /\ m.object = o /\ m.attributes = attributes
    BY <1>6, <1>7, <1>8 DEF Reflect, Message
<1>10. ASSUME NEW i \in 1 .. Len(attributes)
       PROVE  attributes[i] \in Elements(list) \cap AttributesOf[c] \cap waiting
    <2>1. attributes[i] = list[inClass[places[i]]] /\ attributes[i] \in waiting
        BY <1>3, <1>5, <1>6, <1>10
    <2>2. inClass[places[i]] \in I
        BY <1>2, <1>3, <1>5, <1>6, <1>10
    <2> QED
        BY <2>1, <2>2 DEF Elements
<1>11. ASSUME NEW a \in Elements(list) \cap AttributesOf[c] \cap waiting
       PROVE  \E i \in 1 .. Len(attributes) : attributes[i] = a
    <2>1. PICK x \in 1 .. n : list[x] = a
        BY <1>11 DEF Elements
    <2>2. x \in I
        BY <2>1
    <2>3. PICK k \in 1 .. Len(inClass) : inClass[k] = x
        BY <1>2, <2>2
    <2>4. k \in K /\ left[k] = a
        BY <1>3, <2>1, <2>3
    <2>5. PICK i \in 1 .. Len(places) : places[i] = k
        BY <1>4, <2>4
    <2> QED
        BY <1>6, <2>4, <2>5
<1>12. ASSUME NEW i \in 1 .. Len(attributes), NEW j \in 1 .. Len(attributes),
              attributes[i] = attributes[j], i < j
       PROVE  FALSE
    <2>1. /\ attributes[i] = list[inClass[places[i]]]
          /\ attributes[j] = list[inClass[places[j]]]
        BY <1>3, <1>5, <1>6, <1>12
    <2>2. places[i] < places[j] /\ places[i] \in 1 .. Len(inClass) /\ places[j] \in 1 .. Len(inClass)
        BY <1>3, <1>4, <1>5, <1>6, <1>12
    <2>3. /\ inClass[places[i]] < inClass[places[j]]
          /\ inClass[places[i]] \in 1 .. n /\ inClass[places[j]] \in 1 .. n
        BY <1>2, <2>2
    <2>4. inClass[places[i]] = inClass[places[j]]
        BY <1>1, <1>12, <2>1, <2>3
    <2> QED
        BY <2>3, <2>4
<1>13. ASSUME NEW i \in 1 .. Len(attributes), NEW j \in 1 .. Len(attributes),
              attributes[i] = attributes[j]
       PROVE  i = j
    <2>1. ~ (i < j) /\ ~ (j < i)
        BY <1>12, <1>13
    <2> QED
        BY <1>4, <1>6, <2>1
<1>14. Len(attributes) <= Len(list)
    BY <1>1, <1>2, <1>3, <1>4, <1>6
<1> QED
    BY <1>6, <1>9, <1>10, <1>11, <1>13, <1>14

\* The places of the lineage of o where g waits for attributes of the list.
Reached(g, o, list) ==
    LET lineage == Lineage[objects[o].class]
    IN {i \in 1 .. Len(lineage) : Waiting(g, list, lineage)[i] # {}}

\* An update is sent class by class, to federates that subscribe one of the classes.
ClassByClass(g, o, list, dated) ==
    LET R == ReflectsFor(g, o, list, dated)
        lineage == Lineage[objects[o].class]
        places == Ordered(Reached(g, o, list))
    IN  /\ R \in Seq(Message) /\ Len(R) = Len(places)
        /\ \A k \in 1 .. Len(R) :
              /\ places[k] \in Reached(g, o, list)
              /\ R[k] = ReflectAt(o, list, lineage[places[k]],
                                  Waiting(g, list, lineage)[places[k]], dated)
              /\ R[k].kind = "reflect" /\ R[k].object = o
        /\ \A x \in Reached(g, o, list) : \E k \in 1 .. Len(R) : places[k] = x
        /\ \A i, j \in 1 .. Len(R) : i < j => places[i] < places[j]
        /\ R # <<>> => DiscoveryClass(g, objects[o].class) # None

LEMMA ReflectsForProperties ==
    ASSUME NEW g, NEW o \in Object, objects[o].class \in Class, NEW list \in Lists,
           NEW dated \in BOOLEAN
    PROVE  ClassByClass(g, o, list, dated)
<1> DEFINE R == ReflectsFor(g, o, list, dated)
           lineage == Lineage[objects[o].class]
           places == Ordered(Reached(g, o, list))
           W == Waiting(g, list, lineage)
           reflect == [i \in 1 .. Len(lineage) |-> ReflectAt(o, list, lineage[i], W[i], dated)]
           S == Reached(g, o, list)
<1>1. /\ lineage \in Seq(Class) /\ Len(lineage) \in Nat
      /\ \A i \in 1 .. Len(lineage) : lineage[i] \in Class
    BY LineageType
<1>2. S \in SUBSET (1 .. Len(lineage)) /\ S = {i \in 1 .. Len(lineage) : W[i] # {}}
    BY DEF Reached
<1>3. /\ places \in Seq(S) /\ Len(places) \in Nat
      /\ \A k \in 1 .. Len(places) : places[k] \in S
      /\ \A i, j \in 1 .. Len(places) : i < j => places[i] < places[j]
      /\ \A x \in S : \E k \in 1 .. Len(places) : places[k] = x
    <2> HIDE DEF S
    <2> QED
        <3>1. /\ Cardinality(S) \in Nat /\ Len(Ordered(S)) = Cardinality(S)
              /\ Ordered(S) \in Seq(S)
              /\ \A i \in 1 .. Len(Ordered(S)) : Ordered(S)[i] \in S
              /\ \A i, j \in 1 .. Len(Ordered(S)) : i < j => Ordered(S)[i] < Ordered(S)[j]
              /\ \A x \in S : \E i \in 1 .. Len(Ordered(S)) : Ordered(S)[i] = x
            <4> DEFINE l == Len(lineage)
            <4>1. l \in Nat /\ S \in SUBSET (1 .. l)
                BY <1>1, <1>2
            <4> HIDE DEF l
            <4> QED
                BY <4>1, OrderedProperties
        <3>2. places = Ordered(S)
            BY DEF S
        <3> QED
            BY <3>1, <3>2
<1>4. ASSUME NEW i \in 1 .. Len(lineage)
      PROVE  /\ reflect[i] = ReflectAt(o, list, lineage[i], W[i], dated)
             /\ reflect[i] \in Message /\ reflect[i].kind = "reflect" /\ reflect[i].object = o
    <2>1. lineage[i] \in Class
        BY <1>1
    <2> DEFINE m == ReflectAt(o, list, lineage[i], W[i], dated)
    <2>2. reflect[i] = m
        OBVIOUS
    <2>3. m \in Message /\ m.kind = "reflect" /\ m.object = o
        <3> HIDE DEF W
        <3> QED
            BY <2>1, ReflectAtProperties
    <2> HIDE DEF m, reflect
    <2>4. reflect[i] \in Message /\ reflect[i].kind = "reflect" /\ reflect[i].object = o
        BY <2>2, <2>3
    <2> QED
        BY <2>2, <2>4 DEF m
<1>5. R = At(reflect, places)
    BY <1>2 DEF ReflectsFor
<1> HIDE DEF R, lineage, places, reflect, W, S
<1>6. \A k \in 1 .. Len(places) : R[k] = reflect[places[k]]
    BY <1>5 DEF At
<1>7. \A k \in 1 .. Len(places) : places[k] \in 1 .. Len(lineage)
    BY <1>2, <1>3
<1>8. R \in Seq(Message) /\ Len(R) = Len(places)
    <2>1. R \in [1 .. Len(places) -> Message]
        BY <1>4, <1>5, <1>7 DEF At
    <2> QED
        BY <1>3, <2>1, FunctionIsSeq
<1>9. ASSUME R # <<>> PROVE DiscoveryClass(g, objects[o].class) # None
    <2>1. 1 \in 1 .. Len(places)
        BY <1>8, <1>9
    <2>2. places[1] \in 1 .. Len(lineage) /\ W[places[1]] # {}
        BY <1>2, <1>3, <2>1
    <2>3. subscribed[g][lineage[places[1]]] # {}
        BY <2>2 DEF W, Waiting
    <2> QED
        BY <2>2, <2>3, DiscoveryClassProperties DEF IsSubscribed, lineage
<1>10. ASSUME NEW k \in 1 .. Len(places)
       PROVE  /\ places[k] \in S
              /\ R[k] = ReflectAt(o, list, lineage[places[k]], W[places[k]], dated)
              /\ R[k].kind = "reflect" /\ R[k].object = o
    <2> DEFINE i == places[k]
    <2>1. i \in S /\ i \in 1 .. Len(lineage) /\ R[k] = reflect[i]
        BY <1>3, <1>6, <1>7, <1>10
    <2> HIDE DEF i
    <2>2. /\ reflect[i] = ReflectAt(o, list, lineage[i], W[i], dated)
          /\ reflect[i].kind = "reflect" /\ reflect[i].object = o
        BY <1>4, <2>1
    <2>3. /\ R[k] = ReflectAt(o, list, lineage[i], W[i], dated)
          /\ R[k].kind = "reflect" /\ R[k].object = o
        BY <2>1, <2>2
    <2> QED
        BY <2>1, <2>3 DEF i
<1> QED
    BY <1>3, <1>8, <1>9, <1>10 DEF S, W, R, lineage, places, ClassByClass

-----------------------------------------------------------------------------
(* Type correctness. *)

\* What is sent is appended to the streams of the RTIAs that are there.
LEMMA SendAllProperties ==
    ASSUME TypeOK, NEW messages, \A g \in Federate : messages[g] \in Seq(Message),
           SendAll(messages)
    PROVE  /\ down' \in [Federate -> Seq(Message)]
           /\ \A g \in Federate : link[g] = "open" => down'[g] = down[g] \o messages[g]
<1>1. ASSUME NEW g \in Federate
      PROVE  (IF link[g] = "open" THEN down[g] \o messages[g] ELSE down[g]) \in Seq(Message)
    BY ConcatProperties DEF TypeOK
<1> QED
    BY <1>1 DEF SendAll

LEMMA CallType ==
    ASSUME TypeOK, NEW f, NEW service, Call(f, service)
    PROVE  calls' \in [Service -> Nat]
<1>1. CASE service \in Service
    BY <1>1 DEF Call, TypeOK
<1>2. CASE service \notin Service
    BY <1>2 DEF Call, TypeOK
<1> QED
    BY <1>1, <1>2

\* A registered object has a class, an owner and the attributes it published.
LEMMA LiveObject ==
    ASSUME TypeOK, NEW o \in Live
    PROVE  /\ o \in Object /\ objects[o].class \in Class /\ objects[o].owner \in Federate
           /\ objects[o].attributes \in SUBSET Attribute
BY DEF TypeOK, Live

\* What each action sends are messages.
LEMMA SubscribeSends ==
    ASSUME TypeOK, NEW f, NEW c \in Class, NEW S, NEW S1 \in SUBSET Live
    PROVE  ForEach(S1, [o \in Object |-> Discover(o, c)]) \in Seq(Message)
<1> DEFINE message == [o \in Object |-> Discover(o, c)]
<1>1. S1 \in SUBSET Object
    BY DEF Live
<1>2. \A o \in S1 : message[o] \in Message
    BY <1>1 DEF Discover, Message
<1> HIDE DEF message
<1> QED
    BY <1>1, <1>2, ForEachProperties DEF message

LEMMA TypeStep == TypeOK /\ [Next]_vars => TypeOK'
<1> SUFFICES ASSUME TypeOK, [Next]_vars PROVE TypeOK'
    OBVIOUS
<1>1. CASE UNCHANGED vars
    BY <1>1 DEF vars, rtigVars, rtiaVars, TypeOK
<1>2. ASSUME NEW f \in Federate, NEW c \in Class, NEW S \in SUBSET Attribute,
             PublishObject(f, c, S)
      PROVE  TypeOK'
    <2>1. calls' \in [Service -> Nat]
        BY <1>2, CallType DEF PublishObject
    <2> QED
        BY <1>2, <2>1 DEF PublishObject, TypeOK, rtiaVars
<1>3. ASSUME NEW f \in Federate, NEW c \in Class, NEW S \in SUBSET Attribute,
             SubscribeObject(f, c, S)
      PROVE  TypeOK'
    <2>1. calls' \in [Service -> Nat]
        BY <1>3, CallType DEF SubscribeObject
    <2> DEFINE found == IF S # {} /\ ~ IsSubscribed(f, c) THEN ToDiscover(f, c) ELSE {}
               message == [o \in Object |-> Discover(o, c)]
               messages == [g \in Federate |-> IF g = f THEN ForEach(found, message) ELSE <<>>]
    <2>2. found \in SUBSET Live
        BY DEF ToDiscover
    <2>3. ForEach(found, message) \in Seq(Message)
        <3> HIDE DEF found
        <3> QED
            BY <2>2, SubscribeSends
    <2> HIDE DEF found, message
    <2>4. \A g \in Federate : messages[g] \in Seq(Message)
        BY <2>3
    <2>5. SendAll(messages)
        BY <1>3 DEF SubscribeObject, found, message
    <2> HIDE DEF messages
    <2>6. down' \in [Federate -> Seq(Message)]
        BY <2>4, <2>5, SendAllProperties
    <2> QED
        BY <1>3, <2>1, <2>6 DEF SubscribeObject, TypeOK, rtiaVars
<1>4. ASSUME NEW f \in Federate, NEW c \in InteractionClass, NEW b \in BOOLEAN,
             PublishInteraction(f, c, b) \/ SubscribeInteraction(f, c, b)
      PROVE  TypeOK'
    <2>1. calls' \in [Service -> Nat]
        BY <1>4, CallType DEF PublishInteraction, SubscribeInteraction
    <2>2. /\ publishes' \in [Federate -> SUBSET InteractionClass]
          /\ listens' \in [Federate -> SUBSET InteractionClass]
        <3>1. /\ publishes \in [Federate -> SUBSET InteractionClass]
              /\ listens \in [Federate -> SUBSET InteractionClass]
            BY DEF TypeOK
        <3>2. CASE PublishInteraction(f, c, b)
            BY <3>1, <3>2 DEF PublishInteraction
        <3>3. CASE SubscribeInteraction(f, c, b)
            BY <3>1, <3>3 DEF SubscribeInteraction
        <3> QED
            BY <1>4, <3>2, <3>3
    <2> QED
        BY <1>4, <2>1, <2>2 DEF PublishInteraction, SubscribeInteraction, TypeOK, rtiaVars
<1>5. ASSUME NEW f \in Federate, NEW c \in Class, RegisterObject(f, c)
      PROVE  TypeOK'
    <2> DEFINE o == nextObject
    <2>1. calls' \in [Service -> Nat]
        BY <1>5, CallType DEF RegisterObject
    <2>2. o \in Object /\ nextObject' \in 1 .. MaxObject + 1
        BY <1>5, BoundAssumption DEF RegisterObject, TypeOK, Object
    <2>3. CASE UNCHANGED <<objects, down, known>>
        BY <1>5, <2>1, <2>2, <2>3 DEF RegisterObject, TypeOK
    <2>4. CASE ~ UNCHANGED <<objects, down, known>>
        <3> DEFINE messages == [g \in Federate |-> IF g = f THEN <<>> ELSE DiscoverFor(g, o, c)]
        <3>1. /\ objects' = [objects EXCEPT ![o] =
                                [class |-> c, owner |-> f, attributes |-> published[f][c]]]
              /\ SendAll(messages)
              /\ known' = [known EXCEPT ![f][o] =
                                IF NameTaken(InRootObject(f), o) THEN @ ELSE c]
            BY <1>5, <2>4 DEF RegisterObject
        <3>2. \A g \in Federate : messages[g] \in Seq(Message)
            BY <2>2, DiscoverForProperties
        <3> HIDE DEF messages
        <3>3. down' \in [Federate -> Seq(Message)]
            BY <3>1, <3>2, SendAllProperties
        <3>4. [class |-> c, owner |-> f, attributes |-> published[f][c]]
                \in [class : Class, owner : Federate, attributes : SUBSET Attribute]
            BY DEF TypeOK
        <3>5. objects' \in [Object -> {Unregistered} \cup
                      [class : Class, owner : Federate, attributes : SUBSET Attribute]]
            BY <2>2, <3>1, <3>4 DEF TypeOK
        <3>6. known' \in [Federate -> [Object -> Class \cup {None}]]
            BY <2>2, <3>1 DEF TypeOK
        <3> QED
            BY <1>5, <2>1, <2>2, <3>3, <3>5, <3>6 DEF RegisterObject, TypeOK
    <2> QED
        BY <2>3, <2>4
<1>6. ASSUME NEW f \in Federate, NEW o \in Object, NEW list \in Lists, NEW dated \in BOOLEAN,
             UpdateAttributeValues(f, o, list, dated)
      PROVE  TypeOK'
    <2> DEFINE messages == [g \in Federate |->
                              IF g = f THEN <<>> ELSE ReflectsFor(g, o, list, dated)]
    <2>1. calls' \in [Service -> Nat]
        BY <1>6, CallType DEF UpdateAttributeValues
    <2>2. SendAll(messages) /\ o \in Live
        BY <1>6 DEF UpdateAttributeValues
    <2>3. ASSUME NEW g \in Federate PROVE ReflectsFor(g, o, list, dated) \in Seq(Message)
        <3>1. objects[o].class \in Class
            BY <2>2, LiveObject
        <3> QED
            BY <3>1, ReflectsForProperties DEF ClassByClass
    <2>4. \A g \in Federate : messages[g] \in Seq(Message)
        BY <2>3
    <2> HIDE DEF messages
    <2>5. down' \in [Federate -> Seq(Message)]
        BY <2>2, <2>4, SendAllProperties
    <2> QED
        BY <1>6, <2>1, <2>5 DEF UpdateAttributeValues, TypeOK, rtigVars, rtiaVars
<1>7. ASSUME NEW f \in Federate, NEW o \in Object, DeleteObject(f, o)
      PROVE  TypeOK'
    <2> DEFINE messages == [g \in Federate |-> IF g = f THEN <<>> ELSE RemoveFor(g, o)]
    <2>1. calls' \in [Service -> Nat]
        BY <1>7, CallType DEF DeleteObject
    <2>2. SendAll(messages)
        BY <1>7 DEF DeleteObject
    <2>3. \A g \in Federate : messages[g] \in Seq(Message)
        BY RemoveForProperties
    <2> HIDE DEF messages
    <2>4. down' \in [Federate -> Seq(Message)]
        BY <2>2, <2>3, SendAllProperties
    <2> QED
        BY <1>7, <2>1, <2>4 DEF DeleteObject, TypeOK
<1>8. ASSUME NEW f \in Federate, NEW c \in InteractionClass, SendInteraction(f, c)
      PROVE  TypeOK'
    <2> DEFINE messages == [g \in Federate |-> IF g = f THEN <<>> ELSE InteractionsFor(g, c)]
    <2>1. calls' \in [Service -> Nat]
        BY <1>8, CallType DEF SendInteraction
    <2>2. SendAll(messages)
        BY <1>8 DEF SendInteraction
    <2>3. \A g \in Federate : messages[g] \in Seq(Message)
        BY InteractionsForProperties
    <2> HIDE DEF messages
    <2>4. down' \in [Federate -> Seq(Message)]
        BY <2>2, <2>3, SendAllProperties
    <2> QED
        BY <1>8, <2>1, <2>4 DEF SendInteraction, TypeOK, rtigVars, rtiaVars
<1>9. ASSUME NEW f \in Federate, ReceiveMessage(f)
      PROVE  TypeOK'
    <2> DEFINE m == Head(down[f])
    <2>1. m \in Message /\ Tail(down[f]) \in Seq(Message)
        BY <1>9, HeadTailProperties DEF ReceiveMessage, TypeOK
    <2>2. m.kind = "discover" => m.object \in Object /\ m.class \in Class
        BY <2>1, MessageFields
    <2> HIDE DEF m
    <2>3. known' = known \/ (m.kind = "discover" /\ known' = [known EXCEPT ![f][m.object] = m.class])
        BY <1>9 DEF ReceiveMessage, m
    <2>4. known' \in [Federate -> [Object -> Class \cup {None}]]
        <3>1. known \in [Federate -> [Object -> Class \cup {None}]]
            BY DEF TypeOK
        <3>2. CASE known' = known
            BY <3>1, <3>2
        <3>3. CASE m.kind = "discover" /\ known' = [known EXCEPT ![f][m.object] = m.class]
            BY <2>2, <3>1, <3>3
        <3> QED
            BY <2>3, <3>2, <3>3
    <2>5. \E b \in BOOLEAN : /\ fifo' = [fifo EXCEPT ![f] = IF b THEN Append(@, m) ELSE @]
                             /\ link' = [link EXCEPT ![f] = IF b THEN @ ELSE "lost"]
        <3> DEFINE b == m.kind = "reflect" /\ m.dated =>
                            /\ m.object \in InRootObject(f)
                            /\ HasAttributes(known[f][m.object], m.attributes)
        <3>1. /\ fifo' = [fifo EXCEPT ![f] = IF b THEN Append(@, m) ELSE @]
              /\ link' = [link EXCEPT ![f] = IF b THEN @ ELSE "lost"]
            BY <1>9 DEF ReceiveMessage, m
        <3>2. b \in BOOLEAN
            OBVIOUS
        <3> HIDE DEF b
        <3> QED
            BY <3>1, <3>2
    <2>6. /\ fifo' \in [Federate -> Seq(Message)]
          /\ link' \in [Federate -> {"open", "resigned", "lost"}]
        BY <2>1, <2>5, AppendProperties DEF TypeOK, m
    <2>7. down' \in [Federate -> Seq(Message)]
        BY <1>9, <2>1 DEF ReceiveMessage, TypeOK
    <2> QED
        BY <1>9, <2>4, <2>6, <2>7 DEF ReceiveMessage, TypeOK, rtigVars
<1>10. ASSUME NEW f \in Federate, Tick(f)
       PROVE  TypeOK'
    <2> DEFINE m == Head(fifo[f])
    <2>1. m \in Message /\ Tail(fifo[f]) \in Seq(Message)
        BY <1>10, HeadTailProperties DEF Tick, TypeOK
    <2>2. m.kind = "discover" \/ m.kind = "remove" => m.object \in Object
        BY <2>1, MessageFields
    <2> HIDE DEF m
    <2>3. /\ discovered' = [discovered EXCEPT ![f] =
                 CASE m.kind = "discover" -> @ \cup {m.object}
                   [] m.kind = "remove" -> @ \ {m.object}
                   [] OTHER -> @]
          /\ known' = IF m.kind = "remove" THEN [known EXCEPT ![f][m.object] = None] ELSE known
          /\ fifo' = [fifo EXCEPT ![f] = Tail(@)]
        BY <1>10 DEF Tick, m
    <2>4. discovered' \in [Federate -> SUBSET Object]
        BY <2>2, <2>3 DEF TypeOK
    <2>5. known' \in [Federate -> [Object -> Class \cup {None}]]
        BY <2>2, <2>3 DEF TypeOK
    <2>6. fifo' \in [Federate -> Seq(Message)]
        BY <2>1, <2>3 DEF TypeOK
    <2> QED
        BY <1>10, <2>4, <2>5, <2>6 DEF Tick, TypeOK, rtigVars
<1>11. ASSUME NEW f \in Federate, Resign(f)
       PROVE  TypeOK'
    <2>1. calls' \in [Service -> Nat]
        BY <1>11, CallType DEF Resign
    <2> QED
        BY <1>11, <2>1 DEF Resign, TypeOK
<1>12. ASSUME NEW f \in Federate, Die(f)
       PROVE  TypeOK'
    BY <1>12 DEF Die, TypeOK, rtigVars
<1>13. ASSUME NEW f \in Federate, KillFederate(f)
       PROVE  TypeOK'
    <2> DEFINE dropped == {o \in Live : objects[o].owner = f}
               told(g) == {o \in dropped : RemoveFor(g, o) # <<>>}
               message == [o \in Object |-> Remove(o)]
               messages == [g \in Federate |-> ForEach(told(g), message)]
    <2>1. \A g \in Federate : told(g) \in SUBSET Object
        BY DEF Live
    <2>2. \A o \in Object : message[o] \in Message
        BY RemoveForProperties
    <2> HIDE DEF message
    <2>3. ASSUME NEW g \in Federate PROVE ForEach(told(g), message) \in Seq(Message)
        <3> HIDE DEF told
        <3> QED
            BY <2>1, <2>2, ForEachProperties
    <2>4. \A g \in Federate : messages[g] \in Seq(Message)
        BY <2>3
    <2>5. SendAll(messages)
        BY <1>13 DEF KillFederate, message
    <2> HIDE DEF messages
    <2>6. down' \in [Federate -> Seq(Message)]
        BY <2>4, <2>5, SendAllProperties
    <2>7. objects' = [o \in Object |-> IF o \in dropped THEN Unregistered ELSE objects[o]]
        BY <1>13 DEF KillFederate
    <2>8. objects' \in [Object -> {Unregistered} \cup
                  [class : Class, owner : Federate, attributes : SUBSET Attribute]]
        BY <2>7 DEF TypeOK
    <2> QED
        BY <1>13, <2>6, <2>8 DEF KillFederate, TypeOK, rtiaVars
<1> QED
    BY <1>1, <1>2, <1>3, <1>4, <1>5, <1>6, <1>7, <1>8, <1>9, <1>10, <1>11, <1>12, <1>13
        DEF Next, Attribute

\* Every variable keeps its type; in particular no object is announced under a class
\* that does not exist (DiscoverFor), whatever was subscribed and dropped before.
THEOREM ObjectsTypeCorrect == Spec => []TypeOK
<1>1. Init => TypeOK
    BY BoundAssumption DEF Init, TypeOK
<1> QED
    BY <1>1, TypeStep, PTL DEF Spec

-----------------------------------------------------------------------------
(* Broadcasts. *)

\* One message at most for an interaction, about the most specific class: it depends
\* on the subscriptions only.
LEMMA InteractionIsOnce ==
    ASSUME NEW g \in Federate, NEW c \in InteractionClass,
           NEW ms, ms = InteractionsFor(g, c),
           NEW heard, heard = listens[g] \cap Elements(InteractionLineage[c])
    PROVE  /\ Len(ms) = (IF heard = {} THEN 0 ELSE 1)
           /\ \A m \in Elements(ms) :
                /\ m.class \in heard
                /\ heard \subseteq Elements(InteractionLineage[m.class])
<1> DEFINE s == InteractionLineage[c]
           first == FirstOf(s, listens[g])
<1>1. /\ s \in Seq(InteractionClass) /\ Len(s) \in Nat
      /\ IsLineage(s, SuperInteraction, c)
      /\ \A i \in 1 .. Len(s) : s[i] \in InteractionClass
    <2>1. s \in Seq(InteractionClass) /\ IsLineage(s, SuperInteraction, c)
        BY InteractionLineageType
    <2> HIDE DEF s
    <2> QED
        BY <2>1
<1>2. \A i \in 1 .. Len(s) : s[i] # None
    BY <1>1, ClassAssumption DEF IsForest
<1>3. heard = {x \in listens[g] : \E i \in 1 .. Len(s) : s[i] = x}
    BY DEF Elements
<1>4. \/ first = None /\ \A i \in 1 .. Len(s) : s[i] \notin listens[g]
      \/ \E i \in 1 .. Len(s) : /\ first = s[i] /\ s[i] \in listens[g]
                                /\ \A j \in 1 .. i - 1 : s[j] \notin listens[g]
    <2> HIDE DEF s
    <2> QED
        BY <1>1, FirstOfProperties
<1>5. ms = IF first = None THEN <<>> ELSE <<Interact(first)>>
    BY DEF InteractionsFor
<1>6. CASE first = None /\ \A i \in 1 .. Len(s) : s[i] \notin listens[g]
    <2>1. heard = {}
        BY <1>3, <1>6
    <2>2. ms = <<>>
        BY <1>5, <1>6
    <2> QED
        BY <2>1, <2>2 DEF Elements
<1>7. ASSUME NEW i \in 1 .. Len(s), first = s[i], s[i] \in listens[g],
             \A j \in 1 .. i - 1 : s[j] \notin listens[g]
      PROVE  /\ Len(ms) = (IF heard = {} THEN 0 ELSE 1)
             /\ \A m \in Elements(ms) :
                  /\ m.class \in heard
                  /\ heard \subseteq Elements(InteractionLineage[m.class])
    <2>1. first # None /\ first \in InteractionClass /\ first \in heard
        BY <1>1, <1>2, <1>3, <1>7
    <2>2. ms = <<Interact(first)>>
        BY <1>5, <2>1
    <2> DEFINE t == InteractionLineage[first]
    <2>3. t \in Seq(InteractionClass) /\ t # <<>> /\ IsLineage(t, SuperInteraction, s[i])
        <3>1. t \in Seq(InteractionClass) /\ Len(t) # 0 /\ IsLineage(t, SuperInteraction, first)
            BY <2>1, InteractionLineageType
        <3> QED
            BY <1>7, <3>1
    <2>4. /\ Len(t) = Len(s) - i + 1
          /\ \A j \in 1 .. Len(t) : t[j] = s[i + j - 1]
        <3>1. IsForest(SuperInteraction, InteractionClass)
            BY ClassAssumption
        <3> HIDE DEF s, t
        <3> QED
            BY <1>1, <2>3, <3>1, LineageOfAncestor
    <2>5. ASSUME NEW x \in heard PROVE x \in Elements(t)
        <3>1. PICK k \in 1 .. Len(s) : s[k] = x
            BY <1>3
        <3>2. ~ (k < i)
            BY <1>1, <1>3, <1>7, <3>1
        <3>3. k - i + 1 \in 1 .. Len(t) /\ i + (k - i + 1) - 1 = k
            BY <1>1, <2>4, <3>2
        <3>4. t[k - i + 1] = x
            BY <2>4, <3>1, <3>3
        <3> QED
            BY <3>3, <3>4 DEF Elements
    <2>6. ASSUME NEW m \in Elements(ms) PROVE m.class = first
        <3> HIDE DEF first
        <3> QED
            BY <2>2, <2>6 DEF Elements, Interact
    <2>7. heard # {} /\ Len(ms) = 1
        BY <2>1, <2>2
    <2> HIDE DEF first
    <2> QED
        BY <2>1, <2>5, <2>6, <2>7
<1> QED
    BY <1>4, <1>6, <1>7

\* An interaction reaches a federate once, and as the most specific class it
\* subscribes (broadcastInteraction, preparePendingMessage), whatever the hierarchy.
THEOREM InteractionsArriveOnce == Spec => []InteractionOnce
<1>1. InteractionOnce
    BY InteractionIsOnce DEF InteractionOnce
<1> QED
    BY <1>1, PTL

\* Attributes are subscribed in classes that have them.
SubscribedFits == \A g \in Federate, c \in Class : subscribed[g][c] \subseteq AttributesOf[c]

LEMMA SubscribedStep == TypeOK /\ SubscribedFits /\ [Next]_vars => SubscribedFits'
<1> SUFFICES ASSUME TypeOK, SubscribedFits, [Next]_vars PROVE SubscribedFits'
    OBVIOUS
<1>1. CASE UNCHANGED subscribed
    BY <1>1 DEF SubscribedFits
<1>2. ASSUME NEW f \in Federate, NEW c \in Class, NEW S \in SUBSET Attribute,
             S \subseteq AttributesOf[c], SubscribeObject(f, c, S)
      PROVE  SubscribedFits'
    BY <1>2 DEF SubscribeObject, SubscribedFits, TypeOK
<1> QED
    BY <1>1, <1>2, ZenonT(40) DEF Next, vars, rtigVars, PublishObject, PublishInteraction,
        SubscribeInteraction, RegisterObject, UpdateAttributeValues, DeleteObject,
        SendInteraction, ReceiveMessage, Tick, Resign, Die, KillFederate

\* What g is sent about the update of o names each attribute it subscribes once.
ExactFor(g, o, list, dated) ==
    LET ms == ReflectsFor(g, o, list, dated)
        Reflected(a) == {p \in (1 .. Len(ms)) \X (1 .. Len(list)) :
                           /\ p[2] <= Len(ms[p[1]].attributes)
                           /\ ms[p[1]].attributes[p[2]] = a}
    IN \A a \in Attribute :
         IF a \in Wanted(g, o, list) THEN \E p \in Reflected(a) : Reflected(a) = {p}
                                     ELSE Reflected(a) = {}

LEMMA UpdateIsExact ==
    ASSUME TypeOK, SubscribedFits, NEW g \in Federate, NEW o \in Live, NEW list \in Lists,
           NEW dated \in BOOLEAN
    PROVE  ExactFor(g, o, list, dated)
<1> DEFINE ms == ReflectsFor(g, o, list, dated)
<1> SUFFICES ASSUME NEW a \in Attribute
             PROVE  LET R == {p \in (1 .. Len(ms)) \X (1 .. Len(list)) :
                                /\ p[2] <= Len(ms[p[1]].attributes)
                                /\ ms[p[1]].attributes[p[2]] = a}
                    IN  IF a \in Wanted(g, o, list) THEN \E p \in R : R = {p} ELSE R = {}
    BY DEF ExactFor
<1> DEFINE R == {p \in (1 .. Len(ms)) \X (1 .. Len(list)) :
                   /\ p[2] <= Len(ms[p[1]].attributes)
                   /\ ms[p[1]].attributes[p[2]] = a}
<1> DEFINE s == Lineage[objects[o].class]
           W == Waiting(g, list, s)
           S == Reached(g, o, list)
           places == Ordered(S)
<1>1. o \in Object /\ objects[o].class \in Class
    BY LiveObject
<1>2. /\ s \in Seq(Class) /\ Len(s) \in Nat
      /\ \A i \in 1 .. Len(s) : s[i] \in Class
    <2>1. s \in Seq(Class)
        BY <1>1, LineageType
    <2> HIDE DEF s
    <2> QED
        BY <2>1
<1>3. \A i \in 1 .. Len(s) :
         W[i] = {b \in Elements(list) : /\ b \in subscribed[g][s[i]]
                                        /\ \A j \in 1 .. i - 1 : b \notin subscribed[g][s[j]]}
    BY DEF Waiting
<1>4. S = {i \in 1 .. Len(s) : W[i] # {}}
    BY DEF Reached
<1>5. /\ ms \in Seq(Message) /\ Len(ms) = Len(places)
      /\ \A k \in 1 .. Len(ms) :
            /\ places[k] \in S
            /\ ms[k] = ReflectAt(o, list, s[places[k]], W[places[k]], dated)
      /\ \A x \in S : \E k \in 1 .. Len(ms) : places[k] = x
      /\ \A i, j \in 1 .. Len(ms) : i < j => places[i] < places[j]
    <2>1. /\ s = Lineage[objects[o].class] /\ W = Waiting(g, list, s)
          /\ S = Reached(g, o, list) /\ places = Ordered(Reached(g, o, list))
        OBVIOUS
    <2> HIDE DEF W, s, S, places
    <2>2. ClassByClass(g, o, list, dated)
        BY <1>1, ReflectsForProperties
    <2>3. /\ ms \in Seq(Message) /\ Len(ms) = Len(places)
          /\ \A k \in 1 .. Len(ms) :
                /\ places[k] \in S
                /\ ms[k] = ReflectAt(o, list, s[places[k]], W[places[k]], dated)
          /\ \A x \in S : \E k \in 1 .. Len(ms) : places[k] = x
          /\ \A i, j \in 1 .. Len(ms) : i < j => places[i] < places[j]
        BY <2>1, <2>2 DEF ClassByClass
    <2> QED
        BY <2>3
<1> HIDE DEF ms, W, s, S, places
<1>6. ASSUME NEW k \in 1 .. Len(ms)
      PROVE  LET m == ms[k]
                 seen == Elements(list) \cap AttributesOf[s[places[k]]] \cap W[places[k]]
             IN  /\ m.attributes \in Seq(Attribute) /\ Len(m.attributes) <= Len(list)
                 /\ \A i \in 1 .. Len(m.attributes) : m.attributes[i] \in seen
                 /\ \A b \in seen : \E i \in 1 .. Len(m.attributes) : m.attributes[i] = b
                 /\ \A i, j \in 1 .. Len(m.attributes) :
                       m.attributes[i] = m.attributes[j] => i = j
    <2> DEFINE c == s[places[k]]
               waiting == W[places[k]]
               m == ms[k]
    <2>1. c \in Class
        BY <1>2, <1>4, <1>5
    <2>2. m = ReflectAt(o, list, c, waiting, dated)
        BY <1>5
    <2> HIDE DEF c, waiting, m
    <2>3. /\ m.attributes \in Seq(Attribute) /\ Len(m.attributes) <= Len(list)
          /\ \A i \in 1 .. Len(m.attributes) :
                m.attributes[i] \in Elements(list) \cap AttributesOf[c] \cap waiting
          /\ \A b \in Elements(list) \cap AttributesOf[c] \cap waiting :
                \E i \in 1 .. Len(m.attributes) : m.attributes[i] = b
          /\ \A i, j \in 1 .. Len(m.attributes) :
                m.attributes[i] = m.attributes[j] => i = j
        BY <1>1, <2>1, <2>2, ReflectAtProperties
    <2> QED
        BY <2>3 DEF c, waiting, m
<1>7. Len(list) \in Nat
    BY ListsAssumption
<1>8. ASSUME NEW p \in R
      PROVE  /\ p \in (1 .. Len(ms)) \X (1 .. Len(list)) /\ a \in W[places[p[1]]]
             /\ p[2] \in 1 .. Len(ms[p[1]].attributes) /\ ms[p[1]].attributes[p[2]] = a
             /\ places[p[1]] \in 1 .. Len(s) /\ a \in Elements(list)
             /\ a \in subscribed[g][s[places[p[1]]]]
             /\ \A j \in 1 .. places[p[1]] - 1 : a \notin subscribed[g][s[j]]
    <2>1. p \in (1 .. Len(ms)) \X (1 .. Len(list)) /\ p[2] <= Len(ms[p[1]].attributes)
          /\ ms[p[1]].attributes[p[2]] = a
        BY <1>8
    <2>2. p[1] \in 1 .. Len(ms) /\ p[2] \in 1 .. Len(list)
        BY <2>1
    <2>3. ms[p[1]].attributes \in Seq(Attribute)
        BY <1>6, <2>2
    <2>4. p[2] \in 1 .. Len(ms[p[1]].attributes)
        <3>1. Len(ms[p[1]].attributes) \in Nat
            BY <2>3, LenProperties
        <3> QED
            BY <1>7, <2>1, <2>2, <3>1
    <2>5. a \in W[places[p[1]]]
        BY <1>6, <2>1, <2>2, <2>4
    <2>6. places[p[1]] \in 1 .. Len(s)
        BY <1>4, <1>5, <2>2
    <2>7. /\ a \in Elements(list) /\ a \in subscribed[g][s[places[p[1]]]]
          /\ \A j \in 1 .. places[p[1]] - 1 : a \notin subscribed[g][s[j]]
        BY <1>3, <2>5, <2>6
    <2> QED
        BY <2>1, <2>4, <2>5, <2>6, <2>7
<1>9. ASSUME a \notin Wanted(g, o, list) PROVE R = {}
    <2>1. ASSUME NEW p \in R PROVE FALSE
        BY <1>8, <1>9 DEF Wanted, s
    <2> QED
        BY <2>1
<1>10. ASSUME NEW p \in R, NEW q \in R PROVE p = q
    <2>1. /\ p[1] \in 1 .. Len(ms) /\ q[1] \in 1 .. Len(ms)
          /\ places[p[1]] \in 1 .. Len(s) /\ places[q[1]] \in 1 .. Len(s)
          /\ a \in subscribed[g][s[places[p[1]]]] /\ a \in subscribed[g][s[places[q[1]]]]
          /\ \A j \in 1 .. places[p[1]] - 1 : a \notin subscribed[g][s[j]]
          /\ \A j \in 1 .. places[q[1]] - 1 : a \notin subscribed[g][s[j]]
        BY <1>8
    <2>2. ~ (places[p[1]] < places[q[1]]) /\ ~ (places[q[1]] < places[p[1]])
        <3>1. ASSUME places[p[1]] < places[q[1]] PROVE FALSE
            <4>1. places[p[1]] \in 1 .. places[q[1]] - 1
                BY <1>2, <2>1, <3>1
            <4> QED
                BY <2>1, <4>1
        <3>2. ASSUME places[q[1]] < places[p[1]] PROVE FALSE
            <4>1. places[q[1]] \in 1 .. places[p[1]] - 1
                BY <1>2, <2>1, <3>2
            <4> QED
                BY <2>1, <4>1
        <3> QED
            BY <3>1, <3>2
    <2>3. p[1] = q[1]
        <3>1. ~ (p[1] < q[1]) /\ ~ (q[1] < p[1])
            BY <1>5, <2>1, <2>2
        <3>2. p[1] \in Int /\ q[1] \in Int
            BY <2>1
        <3> QED
            BY <3>1, <3>2
    <2>4. p[2] = q[2]
        <3>1. /\ p[2] \in 1 .. Len(ms[p[1]].attributes) /\ q[2] \in 1 .. Len(ms[p[1]].attributes)
              /\ ms[p[1]].attributes[p[2]] = ms[p[1]].attributes[q[2]]
            BY <1>8, <2>3
        <3>2. \A i, j \in 1 .. Len(ms[p[1]].attributes) :
                 ms[p[1]].attributes[i] = ms[p[1]].attributes[j] => i = j
            BY <1>6, <2>1
        <3> QED
            BY <3>1, <3>2
    <2>5. p = <<p[1], p[2]>> /\ q = <<q[1], q[2]>>
        BY <1>8
    <2> QED
        BY <2>3, <2>4, <2>5
<1>11. ASSUME a \in Wanted(g, o, list) PROVE \E p \in R : TRUE
    <2> DEFINE T == {i \in 1 .. Len(s) : a \in subscribed[g][s[i]]}
    <2>1. a \in Elements(list) /\ T # {} /\ T \subseteq Nat
        BY <1>11 DEF Wanted, s
    <2>2. PICK i \in T : \A j \in T : i <= j
        <3> HIDE DEF T
        <3> QED
            BY <2>1, Least
    <2>3. \A j \in 1 .. i - 1 : a \notin subscribed[g][s[j]]
        <3>1. SUFFICES ASSUME NEW j \in 1 .. i - 1, a \in subscribed[g][s[j]] PROVE FALSE
            OBVIOUS
        <3>2. j \in T /\ ~ (i <= j)
            BY <1>2, <2>2, <3>1
        <3> QED
            BY <2>2, <3>2
    <2>4. i \in 1 .. Len(s) /\ a \in subscribed[g][s[i]]
        BY <2>2
    <2>5. a \in W[i] /\ i \in S
        BY <1>3, <1>4, <2>1, <2>3, <2>4
    <2>6. a \in AttributesOf[s[i]]
        BY <1>2, <2>4 DEF SubscribedFits
    <2>7. PICK k \in 1 .. Len(ms) : places[k] = i
        BY <1>5, <2>5
    <2>8. PICK l \in 1 .. Len(ms[k].attributes) : ms[k].attributes[l] = a
        BY <1>6, <2>1, <2>5, <2>6, <2>7
    <2>9. l \in 1 .. Len(list) /\ l <= Len(ms[k].attributes)
        <3>1. ms[k].attributes \in Seq(Attribute) /\ Len(ms[k].attributes) <= Len(list)
            BY <1>6
        <3>2. Len(ms[k].attributes) \in Nat
            BY <3>1, LenProperties
        <3> QED
            BY <1>7, <2>8, <3>1, <3>2
    <2>10. <<k, l>> \in R
        BY <2>8, <2>9
    <2> QED
        BY <2>10
<1> QED
    BY <1>9, <1>10, <1>11

\* An update reaches each federate exactly as it subscribed (updateAttributeValues,
\* preparePendingRAVMessage), whatever the hierarchy and the subscriptions.
THEOREM BroadcastsAreExact == Spec => []BroadcastIsExact
<1>1. Init => SubscribedFits
    BY DEF Init, SubscribedFits
<1>2. TypeOK /\ SubscribedFits => BroadcastIsExact
    <2> SUFFICES ASSUME TypeOK, SubscribedFits PROVE BroadcastIsExact
        OBVIOUS
    <2> DEFINE dated == FALSE
    <2>1. dated \in BOOLEAN
        OBVIOUS
    <2>2. (\A g \in Federate, o \in Live, list \in Lists : ExactFor(g, o, list, dated))
             => BroadcastIsExact
        BY DEF BroadcastIsExact, ExactFor
    <2> HIDE DEF dated
    <2> QED
        BY <2>1, <2>2, UpdateIsExact
<1> QED
    BY <1>1, <1>2, ObjectsTypeCorrect, SubscribedStep, PTL DEF Spec

-----------------------------------------------------------------------------
(* What a federate is told of an object, in which order. *)

\* Messages appended to s may speak of the objects that s makes known and does not
\* remove.
LEMMA NarratedAppend ==
    ASSUME NEW s \in Seq(Message), NEW t \in Seq(Message), NEW D, Narrated(s, D),
           \A k \in 1 .. Len(t) : t[k].kind \in {"reflect", "remove"} =>
              /\ Knows(t[k].object, s, D)
              /\ \A i \in 1 .. Len(s) : s[i].kind = "remove" => s[i].object # t[k].object
              /\ \A j \in 1 .. k - 1 : t[j].kind = "remove" => t[j].object # t[k].object
    PROVE  /\ Narrated(s \o t, D)
           /\ \A o : Knows(o, s, D) => Knows(o, s \o t, D)
           /\ \A k \in 1 .. Len(t) : t[k].kind = "discover" => Knows(t[k].object, s \o t, D)
<1> DEFINE u == s \o t
           n == Len(s)
<1>1. /\ n \in Nat /\ Len(t) \in Nat /\ Len(u) = n + Len(t)
      /\ \A i \in 1 .. n : i \in 1 .. Len(u) /\ u[i] = s[i]
      /\ \A k \in 1 .. Len(t) : n + k \in 1 .. Len(u) /\ u[n + k] = t[k]
    BY ConcatProperties
<1> HIDE DEF u, n
<1>2. ASSUME NEW o, Knows(o, s, D) PROVE Knows(o, u, D)
    BY <1>1, <1>2 DEF Knows, n
<1>3. ASSUME NEW k \in 1 .. Len(t), t[k].kind = "discover" PROVE Knows(t[k].object, u, D)
    BY <1>1, <1>3 DEF Knows
<1>4. ASSUME NEW i \in 1 .. Len(u), u[i].kind \in {"reflect", "remove"}
      PROVE  /\ \/ u[i].object \in D
                \/ \E j \in 1 .. i - 1 : u[j].kind = "discover" /\ u[j].object = u[i].object
             /\ \A j \in 1 .. i - 1 : u[j].kind = "remove" => u[j].object # u[i].object
    <2>1. CASE i <= n
        <3>1. i \in 1 .. n /\ u[i] = s[i]
            BY <1>1, <2>1
        <3>2. \A j \in 1 .. i - 1 : u[j] = s[j]
            BY <1>1, <3>1
        <3>3. /\ \/ s[i].object \in D
                 \/ \E j \in 1 .. i - 1 : s[j].kind = "discover" /\ s[j].object = s[i].object
              /\ \A j \in 1 .. i - 1 : s[j].kind = "remove" => s[j].object # s[i].object
            BY <1>4, <3>1 DEF Narrated, n
        <3> QED
            BY <3>1, <3>2, <3>3
    <2>2. CASE ~ (i <= n)
        <3> DEFINE k == i - n
        <3>1. k \in 1 .. Len(t) /\ i = n + k
            BY <1>1, <2>2
        <3>2. u[i] = t[k]
            BY <1>1, <3>1
        <3>3. /\ Knows(t[k].object, s, D)
              /\ \A j \in 1 .. n : s[j].kind = "remove" => s[j].object # t[k].object
              /\ \A j \in 1 .. k - 1 : t[j].kind = "remove" => t[j].object # t[k].object
            BY <1>4, <3>1, <3>2 DEF n
        <3> HIDE DEF k
        <3>4. \/ t[k].object \in D
              \/ \E j \in 1 .. i - 1 : u[j].kind = "discover" /\ u[j].object = t[k].object
            <4>1. \A j \in 1 .. n : j \in 1 .. i - 1 /\ u[j] = s[j]
                BY <1>1, <2>2, <3>1
            <4> QED
                BY <3>3, <4>1 DEF Knows, n
        <3>5. ASSUME NEW j \in 1 .. i - 1, u[j].kind = "remove" PROVE u[j].object # t[k].object
            <4>1. CASE j <= n
                <5>1. j \in 1 .. n /\ u[j] = s[j]
                    BY <1>1, <4>1
                <5> QED
                    BY <3>3, <3>5, <5>1
            <4>2. CASE ~ (j <= n)
                <5>1. j - n \in 1 .. k - 1 /\ j - n \in 1 .. Len(t) /\ n + (j - n) = j
                    BY <1>1, <3>1, <4>2
                <5>2. u[j] = t[j - n]
                    BY <1>1, <5>1
                <5> QED
                    BY <3>3, <3>5, <5>1, <5>2
            <4> QED
                BY <4>1, <4>2
        <3> QED
            BY <3>2, <3>4, <3>5
    <2> QED
        BY <2>1, <2>2
<1>5. Narrated(u, D)
    BY <1>4 DEF Narrated
<1> QED
    BY <1>2, <1>3, <1>5 DEF u

\* The head of s is delivered.
Delivered(m, D) ==
    CASE m.kind = "discover" -> D \cup {m.object}
      [] m.kind = "remove" -> D \ {m.object}
      [] OTHER -> D

LEMMA NarratedTail ==
    ASSUME NEW s \in Seq(Message), s # <<>>, NEW D, Narrated(s, D)
    PROVE  /\ Narrated(Tail(s), Delivered(Head(s), D))
           /\ \A o : Knows(o, s, D) /\ (s[1].kind = "remove" => s[1].object # o)
                        => Knows(o, Tail(s), Delivered(Head(s), D))
           /\ \A live, next : RemovesAreDead(s, live, next) => RemovesAreDead(Tail(s), live, next)
<1> DEFINE u == Tail(s)
           m == Head(s)
           E == Delivered(m, D)
<1>1. /\ Len(s) \in Nat /\ Len(s) # 0 /\ Len(u) = Len(s) - 1
      /\ \A i \in 1 .. Len(u) : u[i] = s[i + 1]
      /\ m = s[1]
    BY HeadTailProperties
<1>2. /\ m.kind = "discover" => E = D \cup {m.object}
      /\ m.kind = "remove" => E = D \ {m.object}
      /\ m.kind \notin {"discover", "remove"} => E = D
    BY DEF Delivered
<1> HIDE DEF u, m, E
<1>3. ASSUME NEW o, Knows(o, s, D), s[1].kind = "remove" => s[1].object # o
      PROVE  Knows(o, u, E)
    <2>1. CASE o \in D
        BY <1>1, <1>2, <1>3, <2>1 DEF Knows
    <2>2. ASSUME NEW i \in 1 .. Len(s), s[i].kind = "discover", s[i].object = o
          PROVE  Knows(o, u, E)
        <3>1. CASE i = 1
            BY <1>1, <1>2, <2>2, <3>1 DEF Knows
        <3>2. CASE i # 1
            <4>1. i - 1 \in 1 .. Len(u) /\ u[i - 1] = s[(i - 1) + 1] /\ (i - 1) + 1 = i
                BY <1>1, <3>2
            <4> QED
                BY <2>2, <4>1 DEF Knows
        <3> QED
            BY <3>1, <3>2
    <2> QED
        BY <1>3, <2>1, <2>2 DEF Knows
<1>4. ASSUME NEW i \in 1 .. Len(u), u[i].kind \in {"reflect", "remove"}
      PROVE  /\ \/ u[i].object \in E
                \/ \E j \in 1 .. i - 1 : u[j].kind = "discover" /\ u[j].object = u[i].object
             /\ \A j \in 1 .. i - 1 : u[j].kind = "remove" => u[j].object # u[i].object
    <2>1. /\ u[i] = s[i + 1] /\ i + 1 \in 1 .. Len(s)
          /\ \A j \in 1 .. i - 1 : u[j] = s[j + 1] /\ j + 1 \in 1 .. (i + 1) - 1
        BY <1>1
    <2>2. /\ \/ s[i + 1].object \in D
             \/ \E j \in 1 .. (i + 1) - 1 : s[j].kind = "discover" /\ s[j].object = s[i + 1].object
          /\ \A j \in 1 .. (i + 1) - 1 : s[j].kind = "remove" => s[j].object # s[i + 1].object
        BY <1>4, <2>1 DEF Narrated
    <2>3. \A j \in 1 .. i - 1 : u[j].kind = "remove" => u[j].object # u[i].object
        BY <2>1, <2>2
    <2>4. 1 \in 1 .. (i + 1) - 1
        BY <2>1
    <2>5. m.kind = "remove" => m.object # u[i].object
        BY <1>1, <2>1, <2>2, <2>4
    <2>6. CASE u[i].object \in D
        BY <1>2, <2>3, <2>5, <2>6
    <2>7. ASSUME NEW j \in 1 .. (i + 1) - 1, s[j].kind = "discover", s[j].object = u[i].object
          PROVE  \/ u[i].object \in E
                 \/ \E k \in 1 .. i - 1 : u[k].kind = "discover" /\ u[k].object = u[i].object
        <3>1. CASE j = 1
            BY <1>1, <1>2, <2>7, <3>1
        <3>2. CASE j # 1
            <4>1. j - 1 \in 1 .. i - 1 /\ (j - 1) + 1 = j /\ u[j - 1] = s[(j - 1) + 1]
                BY <2>1, <3>2
            <4> QED
                BY <2>7, <4>1
        <3> QED
            BY <3>1, <3>2
    <2> QED
        BY <2>1, <2>2, <2>3, <2>6, <2>7
<1>5. ASSUME NEW live, NEW next, RemovesAreDead(s, live, next) PROVE RemovesAreDead(u, live, next)
    BY <1>1, <1>5 DEF RemovesAreDead
<1>6. Narrated(u, E)
    BY <1>4 DEF Narrated
<1> QED
    BY <1>3, <1>5, <1>6 DEF u, E, m

\* What g knows stays true when t is sent to it, if t says of objects that are live
\* what they go through and g is told of the objects it now subscribes.
Suits(g, t) ==
    /\ \A k \in 1 .. Len(t) :
          /\ t[k].kind = "reflect" => t[k].object \in Live
          /\ t[k].kind = "remove" => t[k].object \in Live /\ t[k].object \notin Live'
          /\ t[k].kind \in {"reflect", "remove"} =>
                /\ Knows(t[k].object, Pending(g), discovered[g])
                /\ \A j \in 1 .. k - 1 : t[j].kind = "remove" => t[j].object # t[k].object
    /\ \A o \in Live' :
          objects'[o].owner # g /\ DiscoveryClass(g, objects[o].class)' # None =>
             \/ Knows(o, Pending(g), discovered[g])
             \/ \E k \in 1 .. Len(t) : t[k].kind = "discover" /\ t[k].object = o

\* No handle is used again.
HandlesAreNew ==
    /\ nextObject <= nextObject'
    /\ \A o \in Live' : o \in Live \/ (o = nextObject /\ o < nextObject')

LEMMA FederateIsTold ==
    ASSUME TypeOK, TypeOK', KnowledgeInvariant, HandlesAreNew, NEW g \in Federate,
           link'[g] = "open" => link[g] = "open" /\ g \in members',
           discovered'[g] = discovered[g],
           NEW t \in Seq(Message), link[g] = "open" => Pending(g)' = Pending(g) \o t,
           link[g] = "open" => Suits(g, t)
    PROVE  FederateKnows(g)'
<1> SUFFICES ASSUME link'[g] = "open"
             PROVE  /\ g \in members'
                    /\ Narrated(Pending(g)', discovered'[g])
                    /\ RemovesAreDead(Pending(g)', Live', nextObject')
                    /\ \A o \in Live' :
                          objects'[o].owner # g /\ DiscoveryClass(g, objects[o].class)' # None
                            => Knows(o, Pending(g)', discovered'[g])
    BY DEF FederateKnows
<1> DEFINE s == Pending(g)
           D == discovered[g]
           u == Pending(g)'
<1>1. /\ link[g] = "open" /\ u = s \o t /\ Suits(g, t) /\ g \in members'
      /\ Narrated(s, D) /\ RemovesAreDead(s, Live, nextObject)
      /\ \A o \in Live : o < nextObject
    BY DEF KnowledgeInvariant, FederateKnows
<1>2. s \in Seq(Message) /\ nextObject \in Nat /\ nextObject' \in Nat /\ nextObject <= nextObject'
    BY ConcatProperties DEF Pending, TypeOK, HandlesAreNew
<1>3. \A o \in Live \cup Live' : o \in Nat
    BY DEF Live, Object
<1> HIDE DEF s, D, u
<1>4. ASSUME NEW k \in 1 .. Len(t), t[k].kind \in {"reflect", "remove"}
      PROVE  /\ Knows(t[k].object, s, D)
             /\ \A i \in 1 .. Len(s) : s[i].kind = "remove" => s[i].object # t[k].object
             /\ \A j \in 1 .. k - 1 : t[j].kind = "remove" => t[j].object # t[k].object
    <2>1. t[k].object \in Live
        BY <1>1, <1>4 DEF Suits
    <2>2. \A i \in 1 .. Len(s) : s[i].kind = "remove" => s[i].object # t[k].object
        BY <1>1, <2>1 DEF RemovesAreDead
    <2> QED
        BY <1>1, <1>4, <2>2 DEF Suits, s, D
<1>5. /\ Narrated(u, D)
      /\ \A o : Knows(o, s, D) => Knows(o, u, D)
      /\ \A k \in 1 .. Len(t) : t[k].kind = "discover" => Knows(t[k].object, u, D)
    BY <1>1, <1>2, <1>4, NarratedAppend
<1>6. RemovesAreDead(u, Live', nextObject')
    <2>1. ASSUME NEW i \in 1 .. Len(u), u[i].kind = "remove"
          PROVE  u[i].object \notin Live' /\ u[i].object < nextObject'
        <3>1. /\ Len(s) \in Nat /\ Len(t) \in Nat /\ Len(u) = Len(s) + Len(t)
              /\ u[i] = IF i <= Len(s) THEN s[i] ELSE t[i - Len(s)]
            BY <1>1, <1>2, ConcatProperties
        <3>2. CASE i <= Len(s)
            <4>1. u[i] = s[i] /\ i \in 1 .. Len(s)
                BY <3>1, <3>2
            <4>2. s[i] \in Message
                BY <1>2, <4>1
            <4>3. u[i].object \in Nat
                BY <2>1, <4>1, <4>2, MessageFields DEF Object
            <4>4. u[i].object \notin Live /\ u[i].object < nextObject
                BY <1>1, <2>1, <4>1 DEF RemovesAreDead
            <4> QED
                BY <1>2, <4>3, <4>4 DEF HandlesAreNew
        <3>3. CASE ~ (i <= Len(s))
            <4>1. i - Len(s) \in 1 .. Len(t) /\ u[i] = t[i - Len(s)]
                BY <3>1, <3>3
            <4>2. u[i].object \in Live /\ u[i].object \notin Live'
                BY <1>1, <2>1, <4>1 DEF Suits
            <4> QED
                BY <1>1, <1>2, <1>3, <4>2
        <3> QED
            BY <3>2, <3>3
    <2> QED
        BY <2>1 DEF RemovesAreDead
<1>7. ASSUME NEW o \in Live', objects'[o].owner # g,
             DiscoveryClass(g, objects[o].class)' # None
      PROVE  Knows(o, u, D)
    <2>1. \/ Knows(o, s, D)
          \/ \E k \in 1 .. Len(t) : t[k].kind = "discover" /\ t[k].object = o
        BY <1>1, <1>7 DEF Suits, s, D
    <2> QED
        BY <1>5, <2>1
<1>8. discovered'[g] = D
    BY DEF D
<1> QED
    BY <1>1, <1>5, <1>6, <1>7, <1>8 DEF u

\* Nothing is sent to g, no object appears and g subscribes what it did.
LEMMA FederateHearsNothing ==
    ASSUME TypeOK, TypeOK', KnowledgeInvariant, NEW g \in Federate,
           nextObject <= nextObject',
           \A o \in Live' : o \in Live /\ objects'[o] = objects[o],
           link'[g] = "open" => link[g] = "open" /\ g \in members',
           discovered'[g] = discovered[g], subscribed' = subscribed,
           link[g] = "open" => Pending(g)' = Pending(g)
    PROVE  FederateKnows(g)'
<1> DEFINE t == <<>>
<1>1. t \in Seq(Message) /\ (link[g] = "open" => Pending(g)' = Pending(g) \o t)
    <2>1. Pending(g) \in Seq(Message)
        BY ConcatProperties DEF Pending, TypeOK
    <2> QED
        BY <2>1, ConcatEmptySeq
<1>2. HandlesAreNew
    BY DEF HandlesAreNew, TypeOK
<1>3. ASSUME link[g] = "open" PROVE Suits(g, t)
    <2>1. \A o \in Live' : DiscoveryClass(g, objects[o].class)' = DiscoveryClass(g, objects[o].class)
        BY DEF DiscoveryClass, IsSubscribed
    <2>2. \A o \in Live : objects[o].owner # g /\ DiscoveryClass(g, objects[o].class) # None
                             => Knows(o, Pending(g), discovered[g])
        BY <1>3 DEF KnowledgeInvariant, FederateKnows
    <2>3. Len(t) = 0
        OBVIOUS
    <2> HIDE DEF t
    <2> QED
        BY <2>1, <2>2, <2>3 DEF Suits
<1> HIDE DEF t
<1> QED
    BY <1>1, <1>2, <1>3, FederateIsTold

-----------------------------------------------------------------------------
(* The steps that send messages to federates. *)

\* A broadcast appends to what is pending.
LEMMA BroadcastIsPending ==
    ASSUME TypeOK, NEW messages, \A g \in Federate : messages[g] \in Seq(Message),
           SendAll(messages), fifo' = fifo
    PROVE  \A g \in Federate : link[g] = "open" => Pending(g)' = Pending(g) \o messages[g]
<1> SUFFICES ASSUME NEW g \in Federate, link[g] = "open"
             PROVE  Pending(g)' = Pending(g) \o messages[g]
    OBVIOUS
<1>1. down'[g] = down[g] \o messages[g] /\ fifo'[g] = fifo[g]
    BY SendAllProperties
<1>2. fifo[g] \in Seq(Message) /\ down[g] \in Seq(Message) /\ messages[g] \in Seq(Message)
    BY DEF TypeOK
<1>3. (fifo[g] \o down[g]) \o messages[g] = fifo[g] \o (down[g] \o messages[g])
    <2> DEFINE q == fifo[g]
               r == down[g]
               s == messages[g]
    <2>1. q \in Seq(Message) /\ r \in Seq(Message) /\ s \in Seq(Message)
        BY <1>2
    <2> HIDE DEF q, r, s
    <2>2. (q \o r) \o s = q \o (r \o s)
        BY <2>1, ConcatAssociative
    <2> QED
        BY <2>2 DEF q, r, s
<1> QED
    BY <1>1, <1>3 DEF Pending

\* What a live object of another is subscribed as, g knows.
LEMMA SubscriberKnows ==
    ASSUME KnowledgeInvariant, NEW g \in Federate, link[g] = "open", NEW o \in Live,
           objects[o].owner # g, DiscoveryClass(g, objects[o].class) # None
    PROVE  Knows(o, Pending(g), discovered[g])
BY DEF KnowledgeInvariant, FederateKnows

\* A federate told of a class subscribes a class of its lineage, in the next state.
LEMMA NextDiscoveryClass ==
    ASSUME NEW CONSTANT g, NEW CONSTANT d \in Class, DiscoveryClass(g, d)' # None
    PROVE  \E i \in 1 .. Len(Lineage[d]) : (subscribed[g][Lineage[d][i]])' # {}
<1> DEFINE s == Lineage[d]
           X == {e \in Class : subscribed'[g][e] # {}}
<1>1. s \in Seq(Class)
    BY LineageType
<1>2. DiscoveryClass(g, d)' = FirstOf(s, X)
    BY DEF DiscoveryClass, IsSubscribed
<1>3. FirstOf(s, X) # None
    BY <1>2
<1>4. \E i \in 1 .. Len(s) : s[i] \in X
    <2> HIDE DEF s, X
    <2> QED
        BY <1>1, <1>3, FirstOfProperties
<1> QED
    BY <1>4

LEMMA SubscribeIsTold ==
    ASSUME TypeOK, TypeOK', KnowledgeInvariant, NEW f \in Federate, NEW c \in Class, NEW S,
           SubscribeObject(f, c, S), NEW g \in Federate
    PROVE  FederateKnows(g)'
<1> DEFINE found == IF S # {} /\ ~ IsSubscribed(f, c) THEN ToDiscover(f, c) ELSE {}
           message == [o \in Object |-> Discover(o, c)]
           messages == [h \in Federate |-> IF h = f THEN ForEach(found, message) ELSE <<>>]
           t == messages[g]
<1>1. /\ SendAll(messages) /\ subscribed' = [subscribed EXCEPT ![f][c] = S]
      /\ UNCHANGED <<members, objects, nextObject, link, fifo, discovered>>
    BY DEF SubscribeObject, rtiaVars
<1>2. found \in SUBSET Live /\ found \in SUBSET Object
    BY DEF ToDiscover, Live
<1>3. /\ ForEach(found, message) \in Seq(Message)
      /\ \A k \in 1 .. Len(ForEach(found, message)) :
            ForEach(found, message)[k].kind = "discover"
      /\ \A o \in found : \E k \in 1 .. Len(ForEach(found, message)) :
            ForEach(found, message)[k].object = o
    <2>1. \A o \in Object : /\ message[o] \in Message /\ message[o].kind = "discover"
                            /\ message[o].object = o
        BY DEF Discover, Message
    <2> HIDE DEF found, message
    <2>2. \A o \in found : message[o] \in Message
        BY <1>2, <2>1
    <2> DEFINE F == ForEach(found, message)
               places == Ordered(found)
    <2>3. /\ F \in Seq(Message)
          /\ \A k \in 1 .. Len(F) : places[k] \in found /\ F[k] = message[places[k]]
          /\ \A o \in found : \E k \in 1 .. Len(F) : places[k] = o
        BY <1>2, <2>2, ForEachProperties
    <2> HIDE DEF F, places
    <2>4. \A k \in 1 .. Len(F) : F[k].kind = "discover" /\ F[k].object = places[k]
        BY <1>2, <2>1, <2>3
    <2> QED
        BY <2>3, <2>4 DEF F
<1>4. \A h \in Federate : messages[h] \in Seq(Message)
    <2> HIDE DEF found, message
    <2> QED
        BY <1>3
<1>5. /\ t = IF g = f THEN ForEach(found, message) ELSE <<>>
      /\ \A k \in 1 .. Len(t) : t[k].kind = "discover"
      /\ g = f => \A o \in found : \E k \in 1 .. Len(t) : t[k].object = o
    <2> HIDE DEF found, message
    <2> QED
        BY <1>3
<1> HIDE DEF messages
<1>6. link[g] = "open" => Pending(g)' = Pending(g) \o t
    BY <1>1, <1>4, BroadcastIsPending
<1>7. HandlesAreNew /\ Live' = Live
    BY <1>1 DEF HandlesAreNew, Live, TypeOK, Object
<1>8. ASSUME link[g] = "open", NEW o \in Live, objects[o].owner # g,
             DiscoveryClass(g, objects[o].class)' # None
      PROVE  \/ Knows(o, Pending(g), discovered[g])
             \/ \E k \in 1 .. Len(t) : t[k].kind = "discover" /\ t[k].object = o
    <2>1. PICK d \in Class : d = objects[o].class
        BY LiveObject
    <2>4. DiscoveryClass(g, d)' # None
        BY <1>1, <1>8, <2>1 DEF DiscoveryClass
    <2>2. CASE DiscoveryClass(g, d) # None
        BY <1>8, <2>1, <2>2, SubscriberKnows
    <2>3. CASE DiscoveryClass(g, d) = None
        <3>1. \A i \in 1 .. Len(Lineage[d]) : ~ IsSubscribed(g, Lineage[d][i])
            BY <2>3, DiscoveryClassProperties
        <3>2. PICK i \in 1 .. Len(Lineage[d]) : subscribed'[g][Lineage[d][i]] # {}
            <4> HIDE DEF found, message, t
            <4>1. \E i \in 1 .. Len(Lineage[d]) : (subscribed[g][Lineage[d][i]])' # {}
                BY ONLY <2>4, d \in Class, NextDiscoveryClass
            <4> QED
                BY ONLY <4>1
        <3>3. g = f /\ S # {} /\ Lineage[d][i] = c
            <4>1. Lineage[d][i] \in Class
                BY LineageType
            <4>2. subscribed[g][Lineage[d][i]] = {}
                BY <3>1 DEF IsSubscribed
            <4> QED
                BY <1>1, <3>2, <4>1, <4>2 DEF TypeOK
        <3>4. ~ IsSubscribed(f, c) /\ o \in found
            <4>1. Visited(f, c, d)
                BY <3>1, <3>3 DEF Visited
            <4>2. ~ IsSubscribed(f, c)
                BY <3>1, <3>3
            <4>3. o \in ToDiscover(f, c)
                BY <1>8, <2>1, <3>3, <4>1 DEF ToDiscover
            <4> QED
                BY <3>3, <4>2, <4>3
        <3> HIDE DEF found
        <3> QED
            BY <1>5, <3>3, <3>4
    <2> QED
        BY <2>2, <2>3
<1> HIDE DEF t
<1>9. link[g] = "open" => Suits(g, t)
    BY <1>1, <1>5, <1>7, <1>8 DEF Suits
<1>10. t \in Seq(Message)
    BY <1>4 DEF t
<1>11. link[g] = "open" => g \in members
    BY DEF KnowledgeInvariant, FederateKnows
<1> QED
    BY <1>1, <1>6, <1>7, <1>9, <1>10, <1>11, FederateIsTold

\* A registered object is announced to those who subscribe a class of its lineage.
LEMMA RegisterIsTold ==
    ASSUME TypeOK, TypeOK', KnowledgeInvariant, NEW f \in Federate, NEW c \in Class,
           RegisterObject(f, c), NEW g \in Federate
    PROVE  FederateKnows(g)'
<1> DEFINE new == nextObject
           messages == [h \in Federate |-> IF h = f THEN <<>> ELSE DiscoverFor(h, new, c)]
           t == messages[g]
<1>1. /\ new \in Object /\ nextObject' = new + 1 /\ new \in Nat
      /\ UNCHANGED <<members, subscribed, link, fifo, discovered>>
    BY DEF RegisterObject, Object
<1>2. link[g] = "open" => g \in members
    BY DEF KnowledgeInvariant, FederateKnows
<1>3. CASE UNCHANGED <<objects, down>>
    <2>1. Live' = Live
        BY <1>3 DEF Live
    <2> QED
        BY <1>1, <1>2, <1>3, <2>1, FederateHearsNothing DEF Pending
<1>4. CASE /\ objects' = [objects EXCEPT ![new] =
                            [class |-> c, owner |-> f, attributes |-> published[f][c]]]
           /\ SendAll(messages)
    <2>1. \A o \in Object : o # new => objects'[o] = objects[o]
        BY <1>4 DEF TypeOK
    <2>2. objects'[new].class = c /\ objects'[new].owner = f
        BY <1>1, <1>4 DEF TypeOK
    <2>3. \A o \in Live' : (o \in Live /\ objects'[o] = objects[o]) \/ o = new
        BY <2>1 DEF Live
    <2>4. HandlesAreNew
        BY <1>1, <2>3 DEF HandlesAreNew
    <2>5. \A h \in Federate : messages[h] \in Seq(Message)
        BY <1>1, DiscoverForProperties
    <2>6. link[g] = "open" => Pending(g)' = Pending(g) \o t
        <3> HIDE DEF messages
        <3> QED
            BY <1>1, <1>4, <2>5, BroadcastIsPending
    <2>7. \A d : DiscoveryClass(g, d)' = DiscoveryClass(g, d)
        BY <1>1 DEF DiscoveryClass, IsSubscribed
    <2>8. /\ t = IF g = f THEN <<>> ELSE DiscoverFor(g, new, c)
          /\ \A k \in 1 .. Len(t) : t[k].kind = "discover"
          /\ g # f /\ DiscoveryClass(g, c) # None =>
                Len(t) = 1 /\ t[1].kind = "discover" /\ t[1].object = new
        BY <1>1, DiscoverForProperties DEF Discover
    <2> HIDE DEF t, messages
    <2>9. ASSUME link[g] = "open" PROVE Suits(g, t)
        <3>1. ASSUME NEW o \in Live', objects'[o].owner # g,
                     DiscoveryClass(g, objects[o].class)' # None
              PROVE  \/ Knows(o, Pending(g), discovered[g])
                     \/ \E k \in 1 .. Len(t) : t[k].kind = "discover" /\ t[k].object = o
            <4>1. DiscoveryClass(g, objects'[o].class) # None
                BY <2>7, <3>1 DEF DiscoveryClass
            <4>2. CASE o = new
                <5>1. g # f /\ DiscoveryClass(g, c) # None
                    BY <2>2, <3>1, <4>1, <4>2
                <5>2. Len(t) = 1 /\ t[1].kind = "discover" /\ t[1].object = new
                    BY <2>8, <5>1
                <5>3. 1 \in 1 .. 1
                    OBVIOUS
                <5> QED
                    BY <4>2, <5>2, <5>3
            <4>3. CASE o \in Live /\ objects'[o] = objects[o]
                BY <2>9, <3>1, <4>1, <4>3, SubscriberKnows
            <4> QED
                BY <2>3, <4>2, <4>3
        <3> QED
            BY <2>8, <3>1 DEF Suits
    <2>10. t \in Seq(Message)
        BY <2>5 DEF t
    <2> QED
        BY <1>1, <1>2, <2>4, <2>6, <2>9, <2>10, FederateIsTold
<1> QED
    BY <1>3, <1>4 DEF RegisterObject

\* An update, an interaction and the removal of one object are sent about objects
\* that stay as they are for those they are sent to.
LEMMA NoObjectAppears ==
    ASSUME TypeOK, TypeOK', KnowledgeInvariant, NEW g \in Federate,
           nextObject <= nextObject', subscribed' = subscribed,
           \A o \in Live' : o \in Live /\ objects'[o] = objects[o],
           link'[g] = "open" => link[g] = "open" /\ g \in members',
           discovered'[g] = discovered[g],
           NEW t \in Seq(Message), link[g] = "open" => Pending(g)' = Pending(g) \o t,
           link[g] = "open" =>
              \A k \in 1 .. Len(t) :
                 /\ t[k].kind \in {"reflect", "remove"} =>
                       /\ t[k].object \in Live /\ objects[t[k].object].owner # g
                       /\ DiscoveryClass(g, objects[t[k].object].class) # None
                 /\ t[k].kind = "remove" =>
                       /\ t[k].object \notin Live'
                       /\ \A j \in 1 .. Len(t) : j # k => t[j].object # t[k].object
    PROVE  FederateKnows(g)'
<1>1. HandlesAreNew
    BY DEF HandlesAreNew
<1>2. ASSUME link[g] = "open" PROVE Suits(g, t)
    <2>1. \A o \in Live' : DiscoveryClass(g, objects[o].class)' = DiscoveryClass(g, objects[o].class)
        BY DEF DiscoveryClass, IsSubscribed
    <2>2. \A o \in Live : objects[o].owner # g /\ DiscoveryClass(g, objects[o].class) # None
                             => Knows(o, Pending(g), discovered[g])
        BY <1>2 DEF KnowledgeInvariant, FederateKnows
    <2>3. ASSUME NEW k \in 1 .. Len(t), t[k].kind \in {"reflect", "remove"},
                 NEW j \in 1 .. k - 1, t[j].kind = "remove"
          PROVE  t[j].object # t[k].object
        <3>1. j \in 1 .. Len(t) /\ j # k
            OBVIOUS
        <3> QED
            BY <1>2, <2>3, <3>1
    <2>4. ASSUME NEW k \in 1 .. Len(t), t[k].kind \in {"reflect", "remove"}
          PROVE  t[k].object \in Live /\ Knows(t[k].object, Pending(g), discovered[g])
        BY <1>2, <2>2, <2>4
    <2>5. ASSUME NEW k \in 1 .. Len(t), t[k].kind = "remove" PROVE t[k].object \notin Live'
        BY <1>2, <2>5
    <2> QED
        BY <2>1, <2>2, <2>3, <2>4, <2>5 DEF Suits
<1> QED
    BY <1>1, <1>2, FederateIsTold

LEMMA UpdateIsTold ==
    ASSUME TypeOK, TypeOK', KnowledgeInvariant, NEW f \in Federate, NEW o \in Object,
           NEW list \in Lists, NEW dated \in BOOLEAN,
           UpdateAttributeValues(f, o, list, dated), NEW g \in Federate
    PROVE  FederateKnows(g)'
<1> DEFINE messages == [h \in Federate |-> IF h = f THEN <<>> ELSE ReflectsFor(h, o, list, dated)]
           t == messages[g]
<1>1. /\ SendAll(messages) /\ o \in Live /\ objects[o].owner = f
      /\ UNCHANGED <<rtigVars, rtiaVars>>
    BY DEF UpdateAttributeValues
<1>2. objects[o].class \in Class
    BY <1>1, LiveObject
<1>3. ASSUME NEW h \in Federate PROVE ClassByClass(h, o, list, dated)
    BY <1>2, ReflectsForProperties
<1>4. \A h \in Federate : messages[h] \in Seq(Message)
    <2>1. \A h \in Federate : ReflectsFor(h, o, list, dated) \in Seq(Message)
        BY <1>3 DEF ClassByClass
    <2> QED
        BY <2>1
<1>5. link[g] = "open" => Pending(g)' = Pending(g) \o t
    <2> HIDE DEF messages
    <2> QED
        BY <1>1, <1>4, BroadcastIsPending DEF rtiaVars
<1>6. ASSUME NEW k \in 1 .. Len(t)
      PROVE  /\ t[k].kind = "reflect" /\ t[k].object = o /\ objects[o].owner # g
             /\ DiscoveryClass(g, objects[o].class) # None
    <2>1. g # f /\ t = ReflectsFor(g, o, list, dated) /\ t # <<>>
        BY <1>6
    <2> HIDE DEF t, messages
    <2>2. /\ \A i \in 1 .. Len(t) : t[i].kind = "reflect" /\ t[i].object = o
          /\ t # <<>> => DiscoveryClass(g, objects[o].class) # None
        BY <1>3, <2>1 DEF ClassByClass
    <2> QED
        BY <1>1, <1>6, <2>1, <2>2
<1>7. t \in Seq(Message)
    BY <1>4
<1> HIDE DEF t, messages
<1>8. Live' = Live /\ objects' = objects
    BY <1>1 DEF rtigVars, Live
<1>9. link[g] = "open" => g \in members
    BY DEF KnowledgeInvariant, FederateKnows
<1>10. nextObject <= nextObject'
    BY <1>1 DEF rtigVars, TypeOK, Object
<1> QED
    BY <1>1, <1>5, <1>6, <1>7, <1>8, <1>9, <1>10, NoObjectAppears DEF rtigVars, rtiaVars

LEMMA InteractionIsTold ==
    ASSUME TypeOK, TypeOK', KnowledgeInvariant, NEW f \in Federate,
           NEW c \in InteractionClass, SendInteraction(f, c), NEW g \in Federate
    PROVE  FederateKnows(g)'
<1> DEFINE messages == [h \in Federate |-> IF h = f THEN <<>> ELSE InteractionsFor(h, c)]
           t == messages[g]
<1>1. SendAll(messages) /\ UNCHANGED <<rtigVars, rtiaVars>>
    BY DEF SendInteraction
<1>2. \A h \in Federate : messages[h] \in Seq(Message)
    BY InteractionsForProperties
<1>3. link[g] = "open" => Pending(g)' = Pending(g) \o t
    <2> HIDE DEF messages
    <2> QED
        BY <1>1, <1>2, BroadcastIsPending DEF rtiaVars
<1>4. ASSUME NEW k \in 1 .. Len(t) PROVE t[k].kind = "interaction"
    BY <1>4 DEF InteractionsFor, Interact
<1>5. t \in Seq(Message)
    BY <1>2
<1> HIDE DEF t, messages
<1>6. Live' = Live /\ objects' = objects
    BY <1>1 DEF rtigVars, Live
<1>7. link[g] = "open" => g \in members
    BY DEF KnowledgeInvariant, FederateKnows
<1>8. nextObject <= nextObject'
    BY <1>1 DEF rtigVars, TypeOK, Object
<1> QED
    BY <1>1, <1>3, <1>4, <1>5, <1>6, <1>7, <1>8, NoObjectAppears DEF rtigVars, rtiaVars

LEMMA DeleteIsTold ==
    ASSUME TypeOK, TypeOK', KnowledgeInvariant, NEW f \in Federate, NEW o \in Object,
           DeleteObject(f, o), NEW g \in Federate
    PROVE  FederateKnows(g)'
<1> DEFINE messages == [h \in Federate |-> IF h = f THEN <<>> ELSE RemoveFor(h, o)]
           t == messages[g]
<1>1. /\ SendAll(messages) /\ o \in Live /\ objects[o].owner = f
      /\ objects' = [objects EXCEPT ![o] = Unregistered]
      /\ UNCHANGED <<members, subscribed, nextObject, link, fifo, discovered>>
    BY DEF DeleteObject
<1>2. \A h \in Federate : messages[h] \in Seq(Message)
    BY RemoveForProperties
<1>3. link[g] = "open" => Pending(g)' = Pending(g) \o t
    <2> HIDE DEF messages
    <2> QED
        BY <1>1, <1>2, BroadcastIsPending
<1>4. ASSUME NEW k \in 1 .. Len(t)
      PROVE  /\ Len(t) = 1 /\ t[k].kind = "remove" /\ t[k].object = o
             /\ objects[o].owner # g /\ DiscoveryClass(g, objects[o].class) # None
    <2>1. g # f /\ t = RemoveFor(g, o) /\ t # <<>>
        BY <1>4
    <2>2. t = <<Remove(o)>> /\ DiscoveryClass(g, objects[o].class) # None
        BY <2>1, RemoveForProperties
    <2>3. Len(t) = 1 /\ t[1] = Remove(o) /\ k = 1
        BY <1>4, <2>2
    <2>4. Remove(o).kind = "remove" /\ Remove(o).object = o
        BY DEF Remove
    <2> HIDE DEF t, messages
    <2> QED
        BY <1>1, <2>1, <2>2, <2>3, <2>4
<1>5. t \in Seq(Message)
    BY <1>2
<1> HIDE DEF t, messages
<1>6. /\ o \notin Live'
      /\ \A p \in Live' : p \in Live /\ objects'[p] = objects[p]
    BY <1>1 DEF TypeOK, Live
<1>7. link[g] = "open" => g \in members
    BY DEF KnowledgeInvariant, FederateKnows
<1>8. nextObject <= nextObject'
    BY <1>1 DEF TypeOK, Object
<1>9. \A k, j \in 1 .. Len(t) : j = k
    BY <1>4
<1> QED
    BY <1>1, <1>3, <1>4, <1>5, <1>6, <1>7, <1>8, <1>9, NoObjectAppears

\* The objects of a federate that is lost go, all those another subscribes at once.
LEMMA KillIsTold ==
    ASSUME TypeOK, TypeOK', KnowledgeInvariant, NEW f \in Federate, KillFederate(f),
           NEW g \in Federate
    PROVE  FederateKnows(g)'
<1> DEFINE dropped == {o \in Live : objects[o].owner = f}
           told(h) == {o \in dropped : RemoveFor(h, o) # <<>>}
           message == [o \in Object |-> Remove(o)]
           messages == [h \in Federate |-> ForEach(told(h), message)]
           t == messages[g]
           places == Ordered(told(g))
<1>1. /\ SendAll(messages) /\ link[f] = "lost" /\ members' = members \ {f}
      /\ objects' = [o \in Object |-> IF o \in dropped THEN Unregistered ELSE objects[o]]
      /\ UNCHANGED <<subscribed, nextObject, link, fifo, discovered>>
    BY DEF KillFederate, rtiaVars
<1>2. \A h \in Federate : told(h) \in SUBSET Object
    BY DEF Live
<1>3. \A o \in Object : /\ message[o] \in Message /\ message[o].kind = "remove"
                        /\ message[o].object = o
    BY DEF Remove, Message
<1>4. \A h \in Federate : messages[h] \in Seq(Message)
    <2>1. ASSUME NEW h \in Federate PROVE ForEach(told(h), message) \in Seq(Message)
        <3> DEFINE S == told(h)
        <3>1. S \in SUBSET Object
            BY <1>2
        <3> HIDE DEF S, message
        <3> QED
            BY <1>3, <3>1, ForEachProperties DEF S
    <2> HIDE DEF told, message
    <2> QED
        BY <2>1
<1>5. link[g] = "open" => Pending(g)' = Pending(g) \o t
    <2> HIDE DEF messages
    <2> QED
        BY <1>1, <1>4, BroadcastIsPending
<1>6. /\ \A k \in 1 .. Len(t) : places[k] \in told(g) /\ t[k] = message[places[k]]
      /\ \A i, j \in 1 .. Len(t) : i < j => places[i] # places[j]
    <2> DEFINE S == told(g)
    <2>1. S \in SUBSET Object /\ t = ForEach(S, message) /\ places = Ordered(S)
        BY <1>2
    <2> HIDE DEF S, message, t, places
    <2>2. /\ \A k \in 1 .. Len(ForEach(S, message)) :
                /\ Ordered(S)[k] \in S
                /\ ForEach(S, message)[k] = message[Ordered(S)[k]]
          /\ \A i, j \in 1 .. Len(ForEach(S, message)) : i < j => Ordered(S)[i] # Ordered(S)[j]
        BY <1>3, <2>1, ForEachProperties
    <2> QED
        BY <2>1, <2>2 DEF S
<1>7. t \in Seq(Message)
    BY <1>4
<1> HIDE DEF t, messages, message, places
<1>8. ASSUME NEW k \in 1 .. Len(t)
      PROVE  /\ t[k].kind = "remove" /\ t[k].object = places[k]
             /\ t[k].object \in dropped /\ RemoveFor(g, t[k].object) # <<>>
    BY <1>2, <1>3, <1>6
<1>9. ASSUME NEW k \in 1 .. Len(t), link[g] = "open"
      PROVE  /\ t[k].object \in Live /\ objects[t[k].object].owner # g
             /\ DiscoveryClass(g, objects[t[k].object].class) # None
             /\ t[k].object \notin Live'
             /\ \A j \in 1 .. Len(t) : j # k => t[j].object # t[k].object
    <2>1. t[k].object \in Live /\ objects[t[k].object].owner # g
        BY <1>1, <1>8, <1>9
    <2>2. DiscoveryClass(g, objects[t[k].object].class) # None
        BY <1>8 DEF RemoveFor
    <2>3. t[k].object \notin Live'
        BY <1>1, <1>8 DEF Live
    <2>4. ASSUME NEW j \in 1 .. Len(t), j # k PROVE t[j].object # t[k].object
        <3>1. j < k \/ k < j
            BY <2>4
        <3> QED
            BY <1>6, <1>8, <2>4, <3>1
    <2> QED
        BY <2>1, <2>2, <2>3, <2>4
<1>10. \A p \in Live' : p \in Live /\ objects'[p] = objects[p]
    BY <1>1 DEF Live
<1>11. link[g] = "open" => g \in members /\ g # f
    BY <1>1 DEF KnowledgeInvariant, FederateKnows
<1>12. nextObject <= nextObject'
    BY <1>1 DEF TypeOK, Object
<1>13. \A k \in 1 .. Len(t) : t[k].kind = "remove"
    BY <1>8
<1> QED
    BY <1>1, <1>5, <1>7, <1>9, <1>10, <1>11, <1>12, <1>13, NoObjectAppears

\* The RTIA reads a message: it stays pending, or the RTIA ends.
LEMMA ReceiveIsTold ==
    ASSUME TypeOK, TypeOK', KnowledgeInvariant, NEW f \in Federate, ReceiveMessage(f),
           NEW g \in Federate
    PROVE  FederateKnows(g)'
<1>1. /\ UNCHANGED <<rtigVars, discovered>> /\ down' = [down EXCEPT ![f] = Tail(@)]
      /\ down[f] # <<>>
    BY DEF ReceiveMessage
<1>2. Live' = Live /\ objects' = objects /\ nextObject <= nextObject'
    BY <1>1 DEF Live, rtigVars, TypeOK, Object
<1>3. link'[g] = "open" => link[g] = "open" /\ g \in members
    BY DEF ReceiveMessage, KnowledgeInvariant, FederateKnows, TypeOK
<1>4. CASE g # f
    <2>1. fifo'[g] = fifo[g] /\ down'[g] = down[g]
        BY <1>4 DEF ReceiveMessage, TypeOK
    <2> QED
        BY <1>1, <1>2, <1>3, <2>1, FederateHearsNothing DEF Pending, rtigVars
<1>5. CASE g = f /\ fifo'[f] = Append(fifo[f], Head(down[f]))
    <2> DEFINE q == fifo[f]
               r == down[f]
    <2>1. q \in Seq(Message) /\ r \in Seq(Message) /\ r # <<>>
        BY <1>1 DEF TypeOK
    <2>2. down'[f] = Tail(r)
        BY <1>1 DEF TypeOK
    <2> HIDE DEF q, r
    <2>3. Append(q, Head(r)) \o Tail(r) = q \o r
        BY <2>1
    <2>4. Pending(g)' = Pending(g)
        BY <1>5, <2>2, <2>3 DEF Pending, q, r
    <2> QED
        BY <1>1, <1>2, <1>3, <2>4, FederateHearsNothing DEF rtigVars
<1>6. CASE g = f /\ link'[f] = "lost"
    BY <1>6 DEF FederateKnows
<1> QED
    BY <1>4, <1>5, <1>6 DEF ReceiveMessage, TypeOK

\* The oldest message becomes a callback.
LEMMA TickIsTold ==
    ASSUME TypeOK, TypeOK', KnowledgeInvariant, NEW f \in Federate, Tick(f),
           NEW g \in Federate
    PROVE  FederateKnows(g)'
<1> DEFINE s == Pending(f)
           D == discovered[f]
<1>1. /\ UNCHANGED <<rtigVars, link, down>> /\ link[f] = "open" /\ fifo[f] # <<>>
      /\ fifo' = [fifo EXCEPT ![f] = Tail(@)]
    BY DEF Tick
<1>2. /\ Live' = Live /\ objects' = objects /\ nextObject' = nextObject
      /\ subscribed' = subscribed /\ members' = members /\ link' = link
    BY <1>1 DEF Live, rtigVars
<1>3. CASE g # f
    <2>1. fifo'[g] = fifo[g] /\ discovered'[g] = discovered[g]
        BY <1>3 DEF Tick, TypeOK
    <2>2. link'[g] = "open" => link[g] = "open" /\ g \in members
        BY <1>1 DEF KnowledgeInvariant, FederateKnows
    <2>3. nextObject <= nextObject'
        BY <1>2 DEF TypeOK, Object
    <2> QED
        BY <1>1, <1>2, <2>1, <2>2, <2>3, FederateHearsNothing DEF Pending, rtigVars
<1>4. CASE g = f
    <2>1. s \in Seq(Message) /\ s # <<>> /\ Head(s) = Head(fifo[f]) /\ Pending(f)' = Tail(s)
        <3> DEFINE q == fifo[f]
                   r == down[f]
        <3>1. q \in Seq(Message) /\ r \in Seq(Message) /\ q # <<>>
            BY <1>1 DEF TypeOK
        <3>2. fifo'[f] = Tail(q) /\ down'[f] = r
            BY <1>1 DEF TypeOK
        <3> HIDE DEF q, r
        <3>3. q \o r \in Seq(Message) /\ q \o r # <<>> /\ Head(q \o r) = Head(q)
              /\ Tail(q \o r) = Tail(q) \o r
            BY <3>1
        <3> QED
            BY <3>2, <3>3 DEF Pending, q, r
    <2>2. discovered'[f] = Delivered(Head(s), D)
        BY <2>1 DEF Tick, TypeOK, Delivered
    <2>3. /\ f \in members /\ Narrated(s, D) /\ RemovesAreDead(s, Live, nextObject)
          /\ \A o \in Live : objects[o].owner # f /\ DiscoveryClass(f, objects[o].class) # None
                                => Knows(o, s, D)
        BY <1>1 DEF KnowledgeInvariant, FederateKnows
    <2> HIDE DEF s, D
    <2>4. s[1].kind = "remove" => s[1].object \notin Live
        <3>1. 1 \in 1 .. Len(s)
            BY <2>1
        <3> QED
            BY <2>3, <3>1 DEF RemovesAreDead
    <2> DEFINE E == Delivered(Head(s), D)
    <2>5. /\ Narrated(Tail(s), E) /\ RemovesAreDead(Tail(s), Live, nextObject)
          /\ \A o : Knows(o, s, D) /\ (s[1].kind = "remove" => s[1].object # o)
                        => Knows(o, Tail(s), E)
        BY <2>1, <2>3, NarratedTail
    <2> HIDE DEF E
    <2>6. \A d : DiscoveryClass(f, d)' = DiscoveryClass(f, d)
        BY <1>2 DEF DiscoveryClass, IsSubscribed
    <2>7. \A o \in Live : objects[o].owner # f /\ DiscoveryClass(f, objects[o].class) # None
                             => Knows(o, Tail(s), E)
        BY <2>3, <2>4, <2>5
    <2>8. \A o : DiscoveryClass(f, objects[o].class)' = DiscoveryClass(f, objects[o].class)
        BY <1>2 DEF DiscoveryClass, IsSubscribed
    <2> QED
        BY <1>2, <1>4, <2>1, <2>2, <2>3, <2>5, <2>7, <2>8 DEF FederateKnows, E
<1> QED
    BY <1>3, <1>4

-----------------------------------------------------------------------------
(* The invariant. *)

LEMMA KnowledgeStep == TypeOK /\ TypeOK' /\ KnowledgeInvariant /\ [Next]_vars => KnowledgeInvariant'
<1> SUFFICES ASSUME TypeOK, TypeOK', KnowledgeInvariant, [Next]_vars
             PROVE  KnowledgeInvariant'
    OBVIOUS
<1>1. (\A o \in Live : o < nextObject) /\ (\A g \in Federate : link[g] = "open" => g \in members)
    BY DEF KnowledgeInvariant, FederateKnows
<1>2. \A o \in Live' : o < nextObject'
    <2>1. CASE /\ nextObject' = nextObject
               /\ \A o \in Live' : o \in Live
        BY <1>1, <2>1
    <2>2. ASSUME NEW f \in Federate, NEW c \in Class, RegisterObject(f, c)
          PROVE  \A o \in Live' : o < nextObject'
        <3>1. nextObject \in Object /\ nextObject' = nextObject + 1
            BY <2>2 DEF RegisterObject
        <3>2. \A o \in Live' : o \in Live \/ o = nextObject
            BY <2>2 DEF RegisterObject, Live, TypeOK
        <3> QED
            BY <1>1, <3>1, <3>2 DEF Object, Live
    <2>3. ASSUME NEW f \in Federate, NEW o \in Object, DeleteObject(f, o)
          PROVE  nextObject' = nextObject /\ \A p \in Live' : p \in Live
        BY <2>3 DEF DeleteObject, Live, TypeOK
    <2>4. ASSUME NEW f \in Federate, KillFederate(f)
          PROVE  nextObject' = nextObject /\ \A p \in Live' : p \in Live
        BY <2>4 DEF KillFederate, Live
    <2>5. objects' = objects => \A p \in Live' : p \in Live
        BY DEF Live
    <2> QED
        BY <2>1, <2>2, <2>3, <2>4, <2>5, ZenonT(40) DEF Next, vars, rtigVars, rtiaVars, PublishObject,
            SubscribeObject, PublishInteraction, SubscribeInteraction,
            UpdateAttributeValues, SendInteraction, ReceiveMessage, Tick, Resign, Die
<1>3. ASSUME NEW g \in Federate PROVE FederateKnows(g)'
    <2>1. CASE /\ UNCHANGED <<subscribed, objects, nextObject, down, fifo, discovered>>
               /\ link'[g] = "open" => link[g] = "open" /\ g \in members'
        <3>1. Live' = Live /\ nextObject <= nextObject'
            BY <2>1 DEF Live, TypeOK, Object
        <3> QED
            BY <2>1, <3>1, FederateHearsNothing DEF Pending
    <2>2. UNCHANGED <<members, link>> => (link'[g] = "open" => link[g] = "open" /\ g \in members')
        BY <1>1
    <2>3. CASE UNCHANGED vars
        BY <2>1, <2>2, <2>3 DEF vars, rtigVars, rtiaVars
    <2>4. ASSUME NEW f \in Federate, NEW c \in Class, NEW S, PublishObject(f, c, S)
          PROVE  FederateKnows(g)'
        BY <2>1, <2>2, <2>4 DEF PublishObject, rtiaVars
    <2>5. ASSUME NEW f \in Federate, NEW c, NEW b, PublishInteraction(f, c, b)
          PROVE  FederateKnows(g)'
        BY <2>1, <2>2, <2>5 DEF PublishInteraction, rtiaVars
    <2>6. ASSUME NEW f \in Federate, NEW c, NEW b, SubscribeInteraction(f, c, b)
          PROVE  FederateKnows(g)'
        BY <2>1, <2>2, <2>6 DEF SubscribeInteraction, rtiaVars
    <2>7. ASSUME NEW f \in Federate, Resign(f) PROVE FederateKnows(g)'
        <3>1. link'[g] = "open" => link[g] = "open" /\ g \in members'
            BY <1>1, <2>7 DEF Resign, TypeOK
        <3> QED
            BY <2>1, <2>7, <3>1 DEF Resign
    <2>8. ASSUME NEW f \in Federate, Die(f) PROVE FederateKnows(g)'
        <3>1. link'[g] = "open" => link[g] = "open" /\ g \in members'
            BY <1>1, <2>8 DEF Die, TypeOK, rtigVars
        <3> QED
            BY <2>1, <2>8, <3>1 DEF Die, rtigVars
    <2> QED
        BY <2>3, <2>4, <2>5, <2>6, <2>7, <2>8, SubscribeIsTold, RegisterIsTold, UpdateIsTold,
            DeleteIsTold, InteractionIsTold, ReceiveIsTold, TickIsTold, KillIsTold DEF Next
<1> QED
    BY <1>2, <1>3 DEF KnowledgeInvariant

LEMMA KnowledgeInit == Init => KnowledgeInvariant
<1> SUFFICES ASSUME Init PROVE KnowledgeInvariant
    OBVIOUS
<1>1. Live = {}
    BY DEF Init, Live
<1>2. ASSUME NEW g \in Federate PROVE FederateKnows(g)
    <2>1. fifo[g] = <<>> /\ down[g] = <<>> /\ g \in members
        BY DEF Init
    <2> DEFINE s == Pending(g)
    <2>2. Len(s) = 0
        BY <2>1 DEF Pending
    <2> HIDE DEF s
    <2>3. Narrated(s, discovered[g]) /\ RemovesAreDead(s, Live, nextObject)
        BY <2>2 DEF Narrated, RemovesAreDead
    <2> QED
        BY <1>1, <2>1, <2>3 DEF FederateKnows, s
<1> QED
    BY <1>1, <1>2 DEF KnowledgeInvariant

\* Handles are never reused, and what waits for a federate that is there tells the
\* life of each object in order: discovered before it is updated or removed, and
\* removed once, when the RTIG no longer has it (ObjectClassSet.cc, the broadcasts of
\* registerObjectInstance, deleteObject and killFederate).
THEOREM KnowledgeInvariantHolds == Spec => []KnowledgeInvariant
<1>1. Init => KnowledgeInvariant
    BY KnowledgeInit
<1>2. TypeOK /\ TypeOK' /\ KnowledgeInvariant /\ [Next]_vars => KnowledgeInvariant'
    BY KnowledgeStep
<1> QED
    BY <1>1, <1>2, ObjectsTypeCorrect, PTL DEF Spec

\* Every federate that subscribes a class of the lineage of a registered object of
\* another has discovered it or has the discovery waiting, whichever came first, the
\* subscription (recursiveDiscovering) or the object (the broadcast of its creation),
\* and whatever was subscribed, unsubscribed, resigned or lost in between.
THEOREM SubscribersWillKnow == Spec => []SubscriberWillKnow
<1>1. TypeOK /\ KnowledgeInvariant => SubscriberWillKnow
    <2> SUFFICES ASSUME TypeOK, KnowledgeInvariant, NEW g \in Federate, NEW o \in Live,
                        Present(g), objects[o].owner # g,
                        DiscoveryClass(g, objects[o].class) # None
                 PROVE  \/ o \in discovered[g]
                        \/ \E m \in Coming(g) : m.kind = "discover" /\ m.object = o
        BY DEF SubscriberWillKnow
    <2>1. Knows(o, Pending(g), discovered[g])
        BY SubscriberKnows DEF Present
    <2>2. ASSUME NEW i \in 1 .. Len(Pending(g)) PROVE Pending(g)[i] \in Coming(g)
        <3> DEFINE q == fifo[g]
                   r == down[g]
        <3>1. q \in Seq(Message) /\ r \in Seq(Message)
            BY DEF TypeOK
        <3> HIDE DEF q, r
        <3>2. /\ Len(q) \in Nat /\ Len(r) \in Nat /\ Len(q \o r) = Len(q) + Len(r)
              /\ \A k \in 1 .. Len(q \o r) :
                    (q \o r)[k] = IF k <= Len(q) THEN q[k] ELSE r[k - Len(q)]
            BY <3>1, ConcatProperties
        <3>3. \A k \in 1 .. Len(q \o r) : \/ k \in 1 .. Len(q) /\ (q \o r)[k] = q[k]
                                          \/ k - Len(q) \in 1 .. Len(r) /\ (q \o r)[k] = r[k - Len(q)]
            BY <3>2
        <3>4. \A k \in 1 .. Len(q \o r) : (q \o r)[k] \in Elements(q) \cup Elements(r)
            BY <3>3 DEF Elements
        <3> QED
            BY <2>2, <3>4 DEF Coming, Pending, q, r
    <2> QED
        BY <2>1, <2>2 DEF Knows
<1> QED
    BY <1>1, ObjectsTypeCorrect, KnowledgeInvariantHolds, PTL

\* The object of a callback is one the federate knows: the FIFO queues and the
\* streams keep the order in which the RTIG speaks of it (Queues.cc, RTIA_network.cc).
THEOREM OnlyKnownObjectsAreSpokenOf == Spec => []OnlyKnownObjects
<1>1. TypeOK /\ KnowledgeInvariant => OnlyKnownObjects
    <2> SUFFICES ASSUME TypeOK, KnowledgeInvariant, NEW g \in Federate, link[g] = "open",
                        fifo[g] # <<>>, Head(fifo[g]).kind \in {"reflect", "remove"}
                 PROVE  Head(fifo[g]).object \in discovered[g]
        BY DEF OnlyKnownObjects
    <2> DEFINE q == fifo[g]
               r == down[g]
               s == Pending(g)
    <2>1. q \in Seq(Message) /\ r \in Seq(Message) /\ q # <<>> /\ s = q \o r
        BY DEF TypeOK, Pending
    <2>2. Narrated(s, discovered[g])
        BY DEF KnowledgeInvariant, FederateKnows
    <2> HIDE DEF q, r, s
    <2>3. s[1] = Head(q) /\ 1 \in 1 .. Len(s) /\ 1 .. 1 - 1 = {}
        BY <2>1
    <2>4. s[1].kind \in {"reflect", "remove"} => s[1].object \in discovered[g]
        BY <2>2, <2>3 DEF Narrated
    <2> QED
        BY <2>3, <2>4 DEF q
<1> QED
    BY <1>1, ObjectsTypeCorrect, KnowledgeInvariantHolds, PTL
=============================================================================
