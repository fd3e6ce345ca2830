------------------------ MODULE ClockReplicas_proofs ------------------------
(***************************************************************************)
(* The clock sets are replicas, for every set of federates and whatever they *)
(* do: no discipline is assumed.                                            *)
(***************************************************************************)
EXTENDS ClockReplicas, TimeManagement_proofs, WellFoundedInduction

-----------------------------------------------------------------------------
(* Histories: the clock of g along a stream. *)

\* Along s the clock of g goes from c to e, and every message of s fits.
Follows(s, g, c, e) ==
    \E h \in [0 .. Len(s) -> SUBSET Nat] :
        /\ h[0] = c /\ h[Len(s)] = e
        /\ \A i \in 1 .. Len(s) : /\ Fits(s[i], g, h[i - 1])
                                  /\ h[i] = ClockAfter(s[i], g, h[i - 1])

\* A message says nothing of clocks, or nothing of the clock of g.
Mute(m) == m.kind \notin {"NULL", "REGULATOR_ON", "REGULATOR_OFF"}
Neutral(m, g) == m.fed # g \/ Mute(m)

\* Such a message fits, and leaves the clock as it was.
LEMMA NeutralFits ==
    ASSUME NEW m, NEW g, NEW c, Neutral(m, g)
    PROVE  Fits(m, g, c) /\ ClockAfter(m, g, c) = c
BY DEF Neutral, Mute, Fits, ClockAfter

\* Whether a clock is known after a message hangs on whether it was, not on its date.
LEMMA KeepsPresence ==
    ASSUME NEW m, NEW g, NEW c, NEW e, e = {} <=> c = {}
    PROVE  ClockAfter(m, g, e) = {} <=> ClockAfter(m, g, c) = {}
<1>1. {Later(date, m.date) : date \in e} = {} <=> e = {}
    OBVIOUS
<1>2. {Later(date, m.date) : date \in c} = {} <=> c = {}
    OBVIOUS
<1>3. {m.date} # {}
    OBVIOUS
<1> QED
    BY <1>1, <1>2, <1>3 DEF ClockAfter

\* Clocks are natural numbers.
LEMMA ClockAfterType ==
    ASSUME NEW m \in Message, NEW g, NEW c \in SUBSET Nat
    PROVE  ClockAfter(m, g, c) \in SUBSET Nat
<1>1. \A date \in c : Later(date, m.date) \in Nat
    BY MessageFields DEF Later
<1>2. m.date \in Nat
    BY MessageFields
<1> QED
    BY <1>1, <1>2 DEF ClockAfter

\* Nothing is said on an empty stream.
LEMMA FollowsEmpty ==
    ASSUME NEW g, NEW c \in SUBSET Nat
    PROVE  Follows(<<>>, g, c, c)
<1>1. PICK S : S = 0 .. 0
    OBVIOUS
<1>2. PICK h \in [0 .. 0 -> SUBSET Nat] : h[0] = c
    <2>1. PICK h : h = [i \in S |-> c]
        OBVIOUS
    <2>2. h \in [S -> SUBSET Nat] /\ \A i \in S : h[i] = c
        BY <2>1, Zenon
    <2>3. 0 \in S
        BY <1>1
    <2> QED
        BY <1>1, <2>2, <2>3
<1>3. Len(<<>>) = 0 /\ 1 .. 0 = {}
    OBVIOUS
<1>4. \A i \in 1 .. Len(<<>>) : FALSE
    BY <1>3
<1> QED
    BY <1>2, <1>3, <1>4 DEF Follows

\* One more message on a stream.
LEMMA FollowsAppend ==
    ASSUME NEW s \in Seq(Message), NEW m \in Message, NEW g, NEW c, NEW e,
           Follows(s, g, c, e), Fits(m, g, e)
    PROVE  Follows(Append(s, m), g, c, ClockAfter(m, g, e))
<1>1. PICK h \in [0 .. Len(s) -> SUBSET Nat] :
         /\ h[0] = c /\ h[Len(s)] = e
         /\ \A i \in 1 .. Len(s) : /\ Fits(s[i], g, h[i - 1])
                                   /\ h[i] = ClockAfter(s[i], g, h[i - 1])
    BY DEF Follows
<1>2. PICK n : n = Len(s)
    OBVIOUS
<1>3. PICK t : t = Append(s, m)
    OBVIOUS
<1>4. /\ n \in Nat /\ Len(t) = n + 1 /\ t[n + 1] = m /\ \A i \in 1 .. n : t[i] = s[i]
    BY <1>2, <1>3, AppendProperties
<1>5. PICK x : x = ClockAfter(m, g, e)
    OBVIOUS
<1>6. x \in SUBSET Nat
    <2>1. e \in SUBSET Nat
        BY <1>1
    <2> QED
        BY <1>5, <2>1, ClockAfterType
<1>7. PICK k : k = [i \in 0 .. n + 1 |-> IF i = n + 1 THEN x ELSE h[i]]
    OBVIOUS
<1>8. /\ k \in [0 .. Len(t) -> SUBSET Nat] /\ k[0] = c /\ k[Len(t)] = x /\ k[n] = e
      /\ \A i \in 0 .. n : k[i] = h[i]
    BY <1>1, <1>2, <1>4, <1>6, <1>7
<1>9. ASSUME NEW i \in 1 .. Len(t)
      PROVE  Fits(t[i], g, k[i - 1]) /\ k[i] = ClockAfter(t[i], g, k[i - 1])
    <2>1. CASE i = n + 1
        <3>1. i - 1 = n /\ t[i] = m /\ k[i] = x /\ k[i - 1] = e
            BY <1>4, <1>8, <2>1
        <3> QED
            BY <1>5, <3>1
    <2>2. CASE i # n + 1
        <3>1. /\ i \in 1 .. n /\ i \in 0 .. n /\ i - 1 \in 0 .. n /\ t[i] = s[i]
              /\ k[i] = h[i] /\ k[i - 1] = h[i - 1]
            BY <1>4, <1>8, <2>2
        <3>2. Fits(s[i], g, h[i - 1]) /\ h[i] = ClockAfter(s[i], g, h[i - 1])
            BY <1>1, <1>2, <3>1
        <3> QED
            BY <3>1, <3>2
    <2> QED
        BY <2>1, <2>2
<1>10. Follows(t, g, c, x)
    BY <1>8, <1>9 DEF Follows
<1> QED
    BY <1>3, <1>5, <1>10

\* The first message of a stream is handled.
LEMMA FollowsTail ==
    ASSUME NEW s \in Seq(Message), s # <<>>, NEW g, NEW c, NEW e, Follows(s, g, c, e)
    PROVE  /\ Fits(Head(s), g, c)
           /\ Follows(Tail(s), g, ClockAfter(Head(s), g, c), e)
<1>1. PICK h \in [0 .. Len(s) -> SUBSET Nat] :
         /\ h[0] = c /\ h[Len(s)] = e
         /\ \A i \in 1 .. Len(s) : /\ Fits(s[i], g, h[i - 1])
                                   /\ h[i] = ClockAfter(s[i], g, h[i - 1])
    BY DEF Follows
<1>2. PICK n : n = Len(s) - 1
    OBVIOUS
<1>3. PICK t : t = Tail(s)
    OBVIOUS
<1>4. /\ n \in Nat /\ Len(s) = n + 1 /\ Len(t) = n /\ s[1] = Head(s)
      /\ \A i \in 1 .. n : t[i] = s[i + 1]
    <2>1. /\ Len(s) \in Nat \ {0} /\ t \in Seq(Message) /\ Len(t) = Len(s) - 1 /\ Head(s) = s[1]
          /\ \A i \in 1 .. Len(t) : t[i] = s[i + 1]
        BY <1>3, HeadTailProperties, EmptySeq
    <2> QED
        BY <1>2, <2>1
<1>5. PICK k : k = [i \in 0 .. n |-> h[i + 1]]
    OBVIOUS
<1>6. Fits(Head(s), g, c) /\ h[1] = ClockAfter(Head(s), g, c)
    <2>1. 1 \in 1 .. Len(s) /\ 1 - 1 = 0
        BY <1>4
    <2>2. Fits(s[1], g, h[1 - 1]) /\ h[1] = ClockAfter(s[1], g, h[1 - 1])
        BY <1>1, <2>1
    <2> QED
        BY <1>1, <1>4, <2>1, <2>2
<1>7. /\ k \in [0 .. Len(t) -> SUBSET Nat] /\ k[0] = h[1] /\ k[Len(t)] = e
      /\ \A i \in 0 .. n : k[i] = h[i + 1]
    BY <1>1, <1>4, <1>5
<1>8. ASSUME NEW i \in 1 .. Len(t)
      PROVE  Fits(t[i], g, k[i - 1]) /\ k[i] = ClockAfter(t[i], g, k[i - 1])
    <2>1. /\ i + 1 \in 1 .. Len(s) /\ (i + 1) - 1 = i /\ (i - 1) + 1 = i
          /\ t[i] = s[i + 1] /\ k[i] = h[i + 1] /\ k[i - 1] = h[i]
        BY <1>4, <1>7
    <2>2. Fits(s[i + 1], g, h[(i + 1) - 1]) /\ h[i + 1] = ClockAfter(s[i + 1], g, h[(i + 1) - 1])
        BY <1>1, <2>1
    <2> QED
        BY <2>1, <2>2
<1>9. Follows(t, g, h[1], e)
    BY <1>7, <1>8 DEF Follows
<1> QED
    BY <1>3, <1>6, <1>9

\* A set of natural numbers that is not empty has a least element.
LEMMA LeastNumber ==
    ASSUME NEW T \in SUBSET Nat, T # {}
    PROVE  \E n \in T : \A k \in T : n <= k
<1> DEFINE R == {p \in Nat \X Nat : p[1] < p[2]}
<1>1. PICK n \in T : \A k \in T : <<k, n>> \notin R
    <2>1. IsWellFoundedOn(R, Nat)
        BY NatLessThanWellFounded DEF OpToRel
    <2> HIDE DEF R
    <2> QED
        BY <2>1, WFMin
<1>2. ASSUME NEW k \in T PROVE n <= k
    <2>1. <<k, n>> \in Nat \X Nat /\ n \in Nat /\ k \in Nat
        OBVIOUS
    <2>2. ~ (k < n)
        BY <1>1, <2>1
    <2> QED
        BY <2>1, <2>2
<1> QED
    BY <1>2

\* There is one history: it is the replay.
LEMMA FollowsReplay ==
    ASSUME NEW s \in Seq(Message), NEW g, NEW c, NEW e, Follows(s, g, c, e)
    PROVE  /\ Replayed(s, g, c) = e
           /\ \A i \in 1 .. Len(s) : Fits(s[i], g, Replay(s, g, c)[i - 1])
<1>1. PICK h \in [0 .. Len(s) -> SUBSET Nat] :
         /\ h[0] = c /\ h[Len(s)] = e
         /\ \A i \in 1 .. Len(s) : /\ Fits(s[i], g, h[i - 1])
                                   /\ h[i] = ClockAfter(s[i], g, h[i - 1])
    BY DEF Follows
<1> DEFINE n == Len(s)
           Is(r) == r = [i \in 0 .. n |-> IF i = 0 THEN c ELSE ClockAfter(s[i], g, r[i - 1])]
           r == Replay(s, g, c)
<1>2. n \in Nat
    OBVIOUS
<1>3. Is(h)
    <2>1. \A i \in 0 .. n : h[i] = IF i = 0 THEN c ELSE ClockAfter(s[i], g, h[i - 1])
        BY <1>1, <1>2
    <2> QED
        BY <1>1, <2>1
<1>4. r = CHOOSE x : Is(x)
    BY DEF Replay
<1>5. Is(r)
    <2> HIDE DEF Is
    <2> QED
        BY <1>3, <1>4
<1>6. \A i \in 0 .. n : r[i] = IF i = 0 THEN c ELSE ClockAfter(s[i], g, r[i - 1])
    <2> HIDE DEF r
    <2> QED
        BY <1>5
<1>7. \A i \in 0 .. n : r[i] = h[i]
    <2> DEFINE T == {i \in 0 .. n : r[i] # h[i]}
    <2>1. SUFFICES ASSUME T # {} PROVE FALSE
        OBVIOUS
    <2>2. T \in SUBSET Nat
        BY <1>2
    <2>3. PICK k \in T : \A i \in T : k <= i
        <3> HIDE DEF T
        <3> QED
            BY <2>1, <2>2, LeastNumber
    <2>4. k \in 0 .. n /\ r[k] # h[k]
        OBVIOUS
    <2>5. k # 0
        BY <1>1, <1>2, <1>6, <2>4
    <2>6. k - 1 \in 0 .. n /\ k \in 1 .. n /\ ~ (k <= k - 1)
        BY <1>2, <2>4, <2>5
    <2>7. r[k - 1] = h[k - 1]
        BY <2>3, <2>6
    <2>8. r[k] = ClockAfter(s[k], g, r[k - 1]) /\ h[k] = ClockAfter(s[k], g, h[k - 1])
        BY <1>1, <1>6, <2>4, <2>5, <2>6
    <2> QED
        BY <2>4, <2>7, <2>8
<1>8. r[n] = e
    BY <1>1, <1>2, <1>7
<1>9. ASSUME NEW i \in 1 .. n PROVE Fits(s[i], g, r[i - 1])
    <2>1. i - 1 \in 0 .. n
        BY <1>2
    <2> HIDE DEF r
    <2> QED
        BY <1>1, <1>7, <2>1
<1> QED
    BY <1>8, <1>9 DEF Replayed
-----------------------------------------------------------------------------
(* The invariant. *)

\* The stream of g brings the RTIG to what g says of itself.
Said(g) ==
    /\ Follows(up[g], g, Clock(my_regulators, g), OwnClock(g))
    /\ \A m \in Elems(up[g]) : m.fed = g

\* The stream to f brings it to the clock that the RTIG has for g; of its own
\* clock f is told only whether there is one, updateRegulator leaves it out.
Heard(f, g) ==
    \E e \in SUBSET Nat :
        /\ Follows(down[f], g, Clock(clocks[f], g), e)
        /\ e = {} <=> Clock(my_regulators, g) = {}
        /\ f # g => e = Clock(my_regulators, g)

\* Nothing a federate says of its clock is lost or overtaken, and all of it fits
\* (addRegulator, updateRegulator, removeRegulator and LBTS on both sides).
ReplicaInvariant ==
    /\ TypeOK
    /\ \A g \in Federate : Said(g)
    /\ \A f, g \in Federate : Heard(f, g)

\* What the operations of a clock set do to each clock.
LEMMA ClockOps ==
    ASSUME NEW c, ClockSet(c), NEW g, NEW k, NEW d \in Nat
    PROVE  /\ Clock(Insert(c, g, d), g) = {d}
           /\ Clock(Remove(c, g), g) = {}
           /\ Clock(Update(c, g, d), g) = {Later(date, d) : date \in Clock(c, g)}
           /\ k # g => /\ Clock(Insert(c, g, d), k) = Clock(c, k)
                       /\ Clock(Remove(c, g), k) = Clock(c, k)
                       /\ Clock(Update(c, g, d), k) = Clock(c, k)
           /\ Clock(c, g) \in SUBSET Nat
           /\ Has(c, g) <=> Clock(c, g) # {}
<1>1. \A x \in Nat : Later(x, d) = IF x <= d THEN d ELSE x
    BY DEF Later
<1>2. Has(c, g) => c[g] \in Nat
    BY DEF ClockSet, Has
<1>3. Clock(Update(c, g, d), g) = {Later(date, d) : date \in Clock(c, g)}
    <2>1. CASE Has(c, g)
        <3>1. Has(Update(c, g, d), g) /\ Update(c, g, d)[g] = Later(c[g], d)
            BY <1>1, <1>2, <2>1 DEF Update, Has
        <3> QED
            BY <2>1, <3>1 DEF Clock
    <2>2. CASE ~ Has(c, g)
        <3>1. ~ Has(Update(c, g, d), g)
            BY <2>2 DEF Update, Has
        <3> QED
            BY <2>2, <3>1 DEF Clock
    <2> QED
        BY <2>1, <2>2
<1>4. /\ Clock(Insert(c, g, d), g) = {d}
      /\ Clock(Remove(c, g), g) = {}
    BY DEF Clock, Has, Insert, Remove
<1>5. k # g => /\ Clock(Insert(c, g, d), k) = Clock(c, k)
               /\ Clock(Remove(c, g), k) = Clock(c, k)
               /\ Clock(Update(c, g, d), k) = Clock(c, k)
    BY DEF Clock, Has, Insert, Remove, Update
<1> QED
    BY <1>2, <1>3, <1>4, <1>5 DEF Clock

\* A clock set on which m is carried out knows of g what m makes of what it knew.
LEMMA CarriedOut ==
    ASSUME NEW c, ClockSet(c), NEW m \in Message, NEW g
    PROVE  /\ m.kind = "NULL" => Clock(Update(c, m.fed, m.date), g) = ClockAfter(m, g, Clock(c, g))
           /\ m.kind = "REGULATOR_ON"
                 => Clock(Insert(c, m.fed, m.date), g) = ClockAfter(m, g, Clock(c, g))
           /\ m.kind = "REGULATOR_OFF"
                 => Clock(Remove(c, m.fed), g) = ClockAfter(m, g, Clock(c, g))
<1>1. m.date \in Nat
    BY MessageFields
<1>2. CASE g = m.fed
    <2>1. /\ Clock(Insert(c, g, m.date), g) = {m.date}
          /\ Clock(Remove(c, g), g) = {}
          /\ Clock(Update(c, g, m.date), g) = {Later(date, m.date) : date \in Clock(c, g)}
        BY <1>1, ClockOps
    <2> QED
        BY <1>2, <2>1 DEF ClockAfter
<1>3. CASE g # m.fed
    <2>1. /\ Clock(Insert(c, m.fed, m.date), g) = Clock(c, g)
          /\ Clock(Remove(c, m.fed), g) = Clock(c, g)
          /\ Clock(Update(c, m.fed, m.date), g) = Clock(c, g)
        BY <1>1, <1>3, ClockOps
    <2>2. ClockAfter(m, g, Clock(c, g)) = Clock(c, g)
        BY <1>3, NeutralFits DEF Neutral
    <2> QED
        BY <2>1, <2>2
<1> QED
    BY <1>2, <1>3

\* Nothing is said and nothing is handled.
LEMMA SilenceReplicates ==
    ASSUME ReplicaInvariant, TypeOK', UNCHANGED <<up, down, clocks, my_regulators>>,
           \A g \in Federate : OwnClock(g)' = OwnClock(g)
    PROVE  ReplicaInvariant'
<1>1. \A g \in Federate : Said(g)'
    BY DEF ReplicaInvariant, Said
<1>2. \A f, g \in Federate : Heard(f, g)'
    BY DEF ReplicaInvariant, Heard
<1> QED
    BY <1>1, <1>2 DEF ReplicaInvariant

\* g says m, and of its clock exactly what m says.
LEMMA SpeakReplicates ==
    ASSUME ReplicaInvariant, TypeOK', NEW g \in Federate, NEW m \in Message, m.fed = g,
           up' = [up EXCEPT ![g] = Append(@, m)],
           UNCHANGED <<down, clocks, my_regulators>>,
           Fits(m, g, OwnClock(g)),
           OwnClock(g)' = ClockAfter(m, g, OwnClock(g)),
           \A k \in Federate \ {g} : OwnClock(k)' = OwnClock(k)
    PROVE  ReplicaInvariant'
<1> USE DEF ReplicaInvariant
<1>1. up[g] \in Seq(Message) /\ up'[g] = Append(up[g], m)
    BY DEF TypeOK
<1>2. Said(g)'
    <2>1. Follows(up[g], g, Clock(my_regulators, g), OwnClock(g))
        BY DEF Said
    <2>2. Follows(Append(up[g], m), g, Clock(my_regulators, g), ClockAfter(m, g, OwnClock(g)))
        BY <1>1, <2>1, FollowsAppend
    <2>3. Elems(up'[g]) = Elems(up[g]) \cup {m}
        BY <1>1, ElemsAppend
    <2> QED
        BY <1>1, <2>2, <2>3 DEF Said
<1>3. ASSUME NEW k \in Federate \ {g} PROVE Said(k)'
    <2>1. up'[k] = up[k]
        BY DEF TypeOK
    <2> QED
        BY <2>1 DEF Said
<1>4. \A f, k \in Federate : Heard(f, k)'
    BY DEF Heard
<1> QED
    BY <1>2, <1>3, <1>4
\* What the RTIG writes to f when it handles the message h: h, a message that says
\* nothing of clocks, or both.
Relayed(f, h) ==
    \/ down'[f] = down[f] /\ (Mute(h) \/ (f = h.fed /\ h.kind = "NULL"))
    \/ down'[f] = Append(down[f], h)
    \/ \E e \in Message : Mute(e) /\ Mute(h) /\ down'[f] = Append(down[f], e)
    \/ \E e \in Message : Mute(e) /\ down'[f] = Append(Append(down[f], h), e)

\* The RTIG handles the head of the stream of g and passes it on.
LEMMA RelayReplicates ==
    ASSUME ReplicaInvariant, TypeOK', NEW g \in Federate, NEW h, up[g] # <<>>, h = Head(up[g]),
           up' = [up EXCEPT ![g] = Tail(@)],
           UNCHANGED clocks,
           \A k \in Federate : OwnClock(k)' = OwnClock(k),
           \A k \in Federate : Clock(my_regulators', k) = ClockAfter(h, k, Clock(my_regulators, k)),
           \A f \in Federate : Relayed(f, h)
    PROVE  ReplicaInvariant'
<1> USE DEF ReplicaInvariant
<1>1. /\ up[g] \in Seq(Message) /\ up'[g] = Tail(up[g])
      /\ \A k \in Federate \ {g} : up'[k] = up[k]
    BY DEF TypeOK
<1>2. Elems(up[g]) = {h} \cup Elems(up'[g]) /\ h \in Message
    BY <1>1, ElemsTail
<1>3. h.fed = g
    BY <1>2 DEF Said
<1>4. /\ Fits(h, g, Clock(my_regulators, g))
      /\ Follows(up'[g], g, ClockAfter(h, g, Clock(my_regulators, g)), OwnClock(g))
    <2>1. Follows(up[g], g, Clock(my_regulators, g), OwnClock(g))
        BY DEF Said
    <2> QED
        BY <1>1, <2>1, FollowsTail
<1>5. Said(g)'
    BY <1>2, <1>4 DEF Said
<1>6. ASSUME NEW k \in Federate \ {g} PROVE Said(k)'
    <2>1. Neutral(h, k)
        BY <1>3 DEF Neutral
    <2>2. Clock(my_regulators', k) = Clock(my_regulators, k)
        BY <2>1, NeutralFits
    <2> QED
        BY <1>1, <2>2 DEF Said
<1>7. ASSUME NEW f \in Federate, NEW k \in Federate PROVE Heard(f, k)'
    <2>1. PICK c : c = Clock(my_regulators, k)
        OBVIOUS
    <2>2. PICK d : d = Clock(my_regulators', k)
        OBVIOUS
    <2>3. PICK e \in SUBSET Nat : /\ Follows(down[f], k, Clock(clocks[f], k), e)
                                  /\ e = {} <=> c = {}
                                  /\ f # k => e = c
        BY <2>1 DEF Heard
    <2>4. d = ClockAfter(h, k, c) /\ (k = g => Fits(h, k, c)) /\ (k # g => Neutral(h, k))
        BY <1>3, <1>4, <2>1, <2>2 DEF Neutral
    <2>5. PICK x : x = ClockAfter(h, k, e)
        OBVIOUS
    <2>6. Fits(h, k, e) /\ (x = {} <=> d = {}) /\ (f # k => x = d) /\ x \in SUBSET Nat
        <3>1. CASE k = g
            <4>1. Fits(h, k, e)
                BY <2>3, <2>4, <3>1 DEF Fits
            <4>2. x = {} <=> d = {}
                <5>1. ClockAfter(h, k, e) = {} <=> ClockAfter(h, k, c) = {}
                    BY <2>3, KeepsPresence
                <5> QED
                    BY <2>4, <2>5, <5>1
            <4> QED
                BY <1>2, <2>3, <2>4, <2>5, <4>1, <4>2, ClockAfterType
        <3>2. CASE k # g
            <4>1. Neutral(h, k)
                BY <2>4, <3>2
            <4>2. Fits(h, k, e) /\ x = e /\ d = c
                BY <2>4, <2>5, <4>1, NeutralFits
            <4> QED
                BY <2>3, <4>2
        <3> QED
            BY <3>1, <3>2
    <2>7. PICK s : s = down[f]
        OBVIOUS
    <2>8. PICK y : y = Clock(clocks[f], k)
        OBVIOUS
    <2>9. s \in Seq(Message) /\ Follows(s, k, y, e) /\ clocks'[f] = clocks[f]
        BY <2>3, <2>7, <2>8 DEF TypeOK
    <2>10. Append(s, h) \in Seq(Message) /\ Follows(Append(s, h), k, y, x)
        BY <1>2, <2>3, <2>5, <2>6, <2>9, FollowsAppend
    <2>11. ASSUME NEW z \in SUBSET Nat, Follows(down'[f], k, y, z),
                  z = {} <=> d = {}, f # k => z = d
           PROVE  Heard(f, k)'
        BY <2>2, <2>8, <2>9, <2>11 DEF Heard
    <2>12. CASE down'[f] = s /\ (Mute(h) \/ (f = h.fed /\ h.kind = "NULL"))
        <3>1. CASE Neutral(h, k)
            <4>1. d = c
                BY <2>4, <3>1, NeutralFits
            <4> QED
                BY <2>3, <2>9, <2>11, <2>12, <4>1
        <3>2. CASE ~ Neutral(h, k)
            <4>1. f = k /\ h.kind = "NULL" /\ k = g
                BY <1>3, <2>12, <3>2 DEF Neutral
            <4>2. d = {} <=> c = {}
                BY <1>3, <2>4, <4>1 DEF ClockAfter
            <4> QED
                BY <2>3, <2>9, <2>11, <2>12, <4>1, <4>2
        <3> QED
            BY <3>1, <3>2
    <2>13. CASE down'[f] = Append(s, h)
        BY <2>6, <2>10, <2>11, <2>13
    <2>14. ASSUME NEW m \in Message, Mute(m), Mute(h), down'[f] = Append(s, m)
           PROVE  Heard(f, k)'
        <3>1. Neutral(m, k) /\ Neutral(h, k)
            BY <2>14 DEF Neutral
        <3>2. d = c /\ Fits(m, k, e) /\ ClockAfter(m, k, e) = e
            BY <2>4, <3>1, NeutralFits
        <3>3. Follows(down'[f], k, y, e)
            BY <2>9, <2>14, <3>2, FollowsAppend
        <3> QED
            BY <2>3, <2>11, <3>2, <3>3
    <2>15. ASSUME NEW m \in Message, Mute(m), down'[f] = Append(Append(s, h), m)
           PROVE  Heard(f, k)'
        <3>1. Neutral(m, k)
            BY <2>15 DEF Neutral
        <3>2. Fits(m, k, x) /\ ClockAfter(m, k, x) = x
            BY <3>1, NeutralFits
        <3>3. Follows(down'[f], k, y, x)
            BY <2>10, <2>15, <3>2, FollowsAppend
        <3> QED
            BY <2>6, <2>11, <3>3
    <2> QED
        BY <2>7, <2>12, <2>13, <2>14, <2>15 DEF Relayed
<1> QED
    BY <1>5, <1>6, <1>7

\* The RTIA of f handles the head of its stream.
LEMMA ReceiveReplicates ==
    ASSUME ReplicaInvariant, TypeOK', NEW f \in Federate, down[f] # <<>>,
           down' = [down EXCEPT ![f] = Tail(@)],
           UNCHANGED <<up, my_regulators>>,
           \A k \in Federate : OwnClock(k)' = OwnClock(k),
           \A k \in Federate :
              Clock(clocks'[f], k) = ClockAfter(Head(down[f]), k, Clock(clocks[f], k)),
           \A j \in Federate \ {f} : clocks'[j] = clocks[j]
    PROVE  ReplicaInvariant'
<1> USE DEF ReplicaInvariant
<1>1. /\ down[f] \in Seq(Message) /\ down'[f] = Tail(down[f])
      /\ \A j \in Federate \ {f} : down'[j] = down[j]
    BY DEF TypeOK
<1>2. \A k \in Federate : Said(k)'
    BY DEF Said
<1>3. ASSUME NEW k \in Federate PROVE Heard(f, k)'
    <2>1. PICK e \in SUBSET Nat : /\ Follows(down[f], k, Clock(clocks[f], k), e)
                                  /\ e = {} <=> Clock(my_regulators, k) = {}
                                  /\ f # k => e = Clock(my_regulators, k)
        BY DEF Heard
    <2>2. Follows(Tail(down[f]), k, ClockAfter(Head(down[f]), k, Clock(clocks[f], k)), e)
        BY <1>1, <2>1, FollowsTail
    <2> QED
        BY <1>1, <2>1, <2>2 DEF Heard
<1>4. ASSUME NEW j \in Federate \ {f}, NEW k \in Federate PROVE Heard(j, k)'
    BY <1>1 DEF Heard
<1> QED
    BY <1>2, <1>3, <1>4
-----------------------------------------------------------------------------
(* The steps. *)

\* g says something that is not of its clock.
LEMMA MuteReplicates ==
    ASSUME ReplicaInvariant, TypeOK', NEW g \in Federate, NEW m \in Message, m.fed = g, Mute(m),
           up' = [up EXCEPT ![g] = Append(@, m)],
           UNCHANGED <<down, clocks, my_regulators, is_regulating, promised>>
    PROVE  ReplicaInvariant'
<1>1. Neutral(m, g)
    BY DEF Neutral
<1>2. Fits(m, g, OwnClock(g)) /\ ClockAfter(m, g, OwnClock(g)) = OwnClock(g)
    BY <1>1, NeutralFits
<1>3. \A k \in Federate : OwnClock(k)' = OwnClock(k)
    BY DEF OwnClock
<1> QED
    BY <1>2, <1>3, SpeakReplicates

\* setTimeRegulating says what it does.
LEMMA RegulateReplicates ==
    ASSUME ReplicaInvariant, TypeOK', NEW f \in Federate, NEW etat \in BOOLEAN,
           NEW lookahead \in Nat, SetTimeRegulating(f, etat, lookahead)
    PROVE  ReplicaInvariant'
<1>1. PICK date \in Nat : date = heure_courante[f] + lookahead
    <2>1. heure_courante[f] \in Nat
        BY DEF ReplicaInvariant, TypeOK
    <2> QED
        BY <2>1
<1>2. PICK m : m = Msg(IF etat THEN "REGULATOR_ON" ELSE "REGULATOR_OFF", f, date)
    OBVIOUS
<1>3. /\ m \in Message /\ m.fed = f /\ m.date = date
      /\ m.kind = IF etat THEN "REGULATOR_ON" ELSE "REGULATOR_OFF"
    BY <1>2, MsgType DEF Msg, Kinds
<1>4. /\ is_regulating[f] = ~ etat /\ is_regulating'[f] = etat
      /\ \A k \in Federate \ {f} : is_regulating'[k] = is_regulating[k]
    BY DEF SetTimeRegulating, ReplicaInvariant, TypeOK
<1>5. /\ etat => promised'[f] = date
      /\ \A k \in Federate \ {f} : promised'[k] = promised[k]
    BY <1>1 DEF SetTimeRegulating, ReplicaInvariant, TypeOK
<1>6. Fits(m, f, OwnClock(f))
    BY <1>3, <1>4 DEF Fits, OwnClock
<1>7. OwnClock(f)' = ClockAfter(m, f, OwnClock(f))
    BY <1>3, <1>4, <1>5 DEF ClockAfter, OwnClock
<1>8. \A k \in Federate \ {f} : OwnClock(k)' = OwnClock(k)
    BY <1>4, <1>5 DEF OwnClock
<1>9. up' = [up EXCEPT ![f] = Append(@, m)] /\ UNCHANGED <<down, clocks, my_regulators>>
    BY <1>1, <1>2 DEF SetTimeRegulating, rtigVars
<1> QED
    BY <1>3, <1>6, <1>7, <1>8, <1>9, SpeakReplicates

\* A regulating federate may send a NULL message, another does not.
LEMMA NullReplicates ==
    ASSUME ReplicaInvariant, TypeOK', NEW f \in Federate, NEW date \in Nat, NEW lookahead \in Nat,
           SendNullIfRegulating(f, date, lookahead),
           UNCHANGED <<is_regulating, down, clocks, my_regulators>>
    PROVE  ReplicaInvariant'
<1>1. CASE UNCHANGED promiseVars
    BY <1>1, SilenceReplicates DEF promiseVars, OwnClock
<1>2. ASSUME is_regulating[f], NEW promise \in Nat,
             up' = [up EXCEPT ![f] = Append(@, Msg("NULL", f, promise))],
             promised' = [promised EXCEPT ![f] = Later(@, promise)]
      PROVE  ReplicaInvariant'
    <2>1. PICK m : m = Msg("NULL", f, promise)
        OBVIOUS
    <2>2. m \in Message /\ m.fed = f /\ m.date = promise /\ m.kind = "NULL"
        BY <2>1, MsgType DEF Msg, Kinds
    <2>3. /\ promised'[f] = Later(promised[f], promise)
          /\ \A k \in Federate \ {f} : promised'[k] = promised[k]
        BY <1>2 DEF ReplicaInvariant, TypeOK
    <2>4. OwnClock(f) = {promised[f]} /\ OwnClock(f)' = {Later(promised[f], promise)}
        BY <1>2, <2>3 DEF OwnClock
    <2>5. Fits(m, f, OwnClock(f))
        BY <2>2, <2>4 DEF Fits
    <2>6. OwnClock(f)' = ClockAfter(m, f, OwnClock(f))
        <3>1. {Later(d, promise) : d \in {promised[f]}} = {Later(promised[f], promise)}
            OBVIOUS
        <3> QED
            BY <2>2, <2>4, <3>1 DEF ClockAfter
    <2>7. \A k \in Federate \ {f} : OwnClock(k)' = OwnClock(k)
        BY <2>3 DEF OwnClock
    <2> QED
        BY <1>2, <2>1, <2>2, <2>5, <2>6, <2>7, SpeakReplicates
<1>3. date + lookahead \in Nat
    OBVIOUS
<1> QED
    BY <1>1, <1>2, <1>3 DEF SendNullIfRegulating, SendNullMessage

\* The requests of a federate.
LEMMA RequestsReplicate ==
    ASSUME ReplicaInvariant, TypeOK', NEW f \in Federate, Request(f)
    PROVE  ReplicaInvariant'
<1>1. /\ Times \subseteq Nat /\ Lookaheads \subseteq Nat /\ heure_courante[f] \in Nat
      /\ lookahead_courant[f] \in Nat /\ RequestLookahead(f) \in Nat /\ spent[f] \in Nat
    BY TimesAssumption, LookaheadsAssumption DEF RequestLookahead, ReplicaInvariant, TypeOK
<1>2. CASE \/ \E lookahead \in Lookaheads : SetTimeRegulating(f, TRUE, lookahead)
           \/ SetTimeRegulating(f, FALSE, 0)
    <2>1. PICK etat \in BOOLEAN, lookahead \in Nat : SetTimeRegulating(f, etat, lookahead)
        BY <1>1, <1>2
    <2> QED
        BY <2>1, RegulateReplicates
<1>3. CASE \E etat \in BOOLEAN : SetTimeConstrained(f, etat)
    <2>1. PICK etat \in BOOLEAN : SetTimeConstrained(f, etat)
        BY <1>3
    <2>2. PICK m : m = Msg(IF etat THEN "CONSTRAINED_ON" ELSE "CONSTRAINED_OFF", f, 0)
        OBVIOUS
    <2>3. m \in Message /\ m.fed = f /\ Mute(m)
        BY <2>2, MsgType DEF Msg, Kinds, Mute
    <2> QED
        BY <2>1, <2>2, <2>3, MuteReplicates DEF SetTimeConstrained, rtigVars
<1>4. CASE \/ \E lookahead \in Lookaheads : SetLookahead(f, lookahead)
           \/ \E date \in Times : TimeAdvanceRequest(f, date)
           \/ \E date \in Times : TimeAdvanceRequestAvailable(f, date)
    <2>1. \E date, lookahead \in Nat : SendNullIfRegulating(f, date, lookahead)
        BY <1>1, <1>4 DEF SetLookahead, TimeAdvanceRequest, TimeAdvanceRequestAvailable
    <2>2. UNCHANGED <<is_regulating, down, clocks, my_regulators>>
        BY <1>4 DEF SetLookahead, TimeAdvanceRequest, TimeAdvanceRequestAvailable, BeginAdvance,
            roleVars, rtigVars
    <2> QED
        BY <2>1, <2>2, NullReplicates
<1>5. CASE \/ \E date \in Times : NextEventRequest(f, date)
           \/ \E date \in Times : NextEventRequestAvailable(f, date)
    BY <1>5, SilenceReplicates DEF NextEventRequest, NextEventRequestAvailable, BeginAdvance,
        promiseVars, roleVars, rtigVars, OwnClock
<1>6. CASE \/ \E date \in Times : SendDated(f, date) \/ DeleteObject(f, date)
           \/ SendReceiveOrder(f)
    <2>1. PICK kind \in {"EVENT", "RECEIVE_ORDER"}, date \in Nat : SendEvent(f, kind, date)
        BY <1>1, <1>6 DEF SendDated, DeleteObject, SendReceiveOrder
    <2>2. PICK m : m = [kind |-> kind, fed |-> f, date |-> date, id |-> spent[f] + 1]
        OBVIOUS
    <2>3. m \in Message /\ m.fed = f /\ Mute(m)
        BY <1>1, <2>2 DEF Message, Kinds, Mute
    <2> QED
        BY <2>1, <2>2, <2>3, MuteReplicates DEF SendEvent, roleVars, rtigVars
<1>7. CASE SynchronizationPointAchieved(f)
    <2>1. PICK m : m = Msg("ACHIEVED", f, 0)
        OBVIOUS
    <2>2. m \in Message /\ m.fed = f /\ Mute(m)
        BY <2>1, MsgType DEF Msg, Kinds, Mute
    <2> QED
        BY <1>7, <2>1, <2>2, MuteReplicates DEF SynchronizationPointAchieved, roleVars, rtigVars
<1> QED
    BY <1>2, <1>3, <1>4, <1>5, <1>6, <1>7 DEF Request

\* One iteration of tick.
LEMMA TickReplicates ==
    ASSUME ReplicaInvariant, TypeOK', NEW f \in Federate, Tick(f)
    PROVE  ReplicaInvariant'
<1>1. /\ UNCHANGED <<is_regulating, down, clocks, my_regulators>>
    BY DEF Tick, DeliverCommand, DeliverFifo, TimeAdvanceTso, TimeAdvanceDone, NextEventReached,
        NextEventShort, NextEventFree, TickFrame, roleVars, rtigVars
<1>2. /\ date_avancee[f] \in Nat /\ DateMin(f) \in Nat /\ lookahead_courant[f] \in Nat
      /\ \A g \in Others(clocks[f], f) : clocks[f][g] \in Nat
    BY DateMinType DEF ReplicaInvariant, TypeOK, ClockSet, Others
<1>3. CASE DeliverCommand(f) \/ DeliverFifo(f) \/ TimeAdvanceTso(f) \/ TimeAdvanceDone(f)
    <2>1. UNCHANGED promiseVars
        BY <1>3 DEF DeliverCommand, DeliverFifo, TimeAdvanceTso, TimeAdvanceDone
    <2> QED
        BY <1>1, <2>1, SilenceReplicates DEF promiseVars, OwnClock
<1>4. CASE NextEventReached(f) \/ NextEventShort(f) \/ NextEventFree(f)
    <2>1. \E date, lookahead \in Nat : SendNullIfRegulating(f, date, lookahead)
        BY <1>2, <1>4 DEF NextEventReached, NextEventShort, NextEventFree, SendNullIfRegulating
    <2> QED
        BY <1>1, <2>1, NullReplicates
<1> QED
    BY <1>3, <1>4 DEF Tick

\* One message handled by the RTIG.
LEMMA RtigReplicates ==
    ASSUME ReplicaInvariant, TypeOK', NEW g \in Federate, Rtig(g)
    PROVE  ReplicaInvariant'
<1>1. PICK h : h = Head(up[g])
    OBVIOUS
<1>2. /\ up[g] # <<>> /\ up' = [up EXCEPT ![g] = Tail(@)]
      /\ UNCHANGED <<is_regulating, promised, clocks>>
    BY DEF Rtig, UpdateRegulator, AddRegulator, RemoveRegulator, SetConstrained, Broadcast,
        UnregisterSynchronization, Takes, roleVars
<1>3. up[g] \in Seq(Message) /\ h \in Message /\ h.date \in Nat
    BY <1>1, <1>2, HeadTailType, MessageFields DEF ReplicaInvariant, TypeOK
<1>4. h.fed = g
    <2>1. h \in Elems(up[g])
        BY <1>1, <1>2, <1>3, ElemsTail
    <2> QED
        BY <2>1 DEF ReplicaInvariant, Said
<1>5. \A k \in Federate : OwnClock(k)' = OwnClock(k)
    BY <1>2 DEF OwnClock
<1>6. ClockSet(my_regulators) /\ \A f \in Federate : down[f] \in Seq(Message)
    BY DEF ReplicaInvariant, TypeOK
<1>7. ASSUME NEW k \in Federate
      PROVE  Clock(my_regulators', k) = ClockAfter(h, k, Clock(my_regulators, k))
    <2>1. CASE UpdateRegulator(g)
        <3>1. h.kind = "NULL" /\ my_regulators' = Update(my_regulators, g, h.date)
            BY <1>1, <2>1 DEF UpdateRegulator, Takes
        <3> QED
            BY <1>3, <1>4, <1>6, <3>1, CarriedOut
    <2>2. CASE AddRegulator(g)
        <3>1. h.kind = "REGULATOR_ON" /\ my_regulators' = Insert(my_regulators, g, h.date)
            BY <1>1, <2>2 DEF AddRegulator, Takes
        <3> QED
            BY <1>3, <1>4, <1>6, <3>1, CarriedOut
    <2>3. CASE RemoveRegulator(g)
        <3>1. h.kind = "REGULATOR_OFF" /\ my_regulators' = Remove(my_regulators, g)
            BY <1>1, <2>3 DEF RemoveRegulator, Takes
        <3> QED
            BY <1>3, <1>4, <1>6, <3>1, CarriedOut
    <2>4. CASE SetConstrained(g) \/ Broadcast(g) \/ UnregisterSynchronization(g)
        <3>1. Mute(h) /\ my_regulators' = my_regulators
            BY <1>1, <2>4 DEF SetConstrained, Broadcast, UnregisterSynchronization, Takes, Mute,
                rtigVars
        <3> QED
            BY <3>1, NeutralFits DEF Neutral
    <2> QED
        BY <2>1, <2>2, <2>3, <2>4 DEF Rtig
<1>8. ASSUME NEW f \in Federate PROVE Relayed(f, h)
    <2>1. PICK a \in Message, b \in Message, c \in Message :
             /\ a = Msg("REGULATION_ENABLED", g, h.date) /\ Mute(a)
             /\ b = Msg("CONSTRAINED_ENABLED", g, 0) /\ Mute(b)
             /\ c = Msg("SYNCHRONIZED", g, 0) /\ Mute(c)
        <3>1. /\ Msg("REGULATION_ENABLED", g, h.date) \in Message
              /\ Msg("CONSTRAINED_ENABLED", g, 0) \in Message
              /\ Msg("SYNCHRONIZED", g, 0) \in Message
            BY <1>3, MsgType DEF Kinds
        <3>2. /\ Mute(Msg("REGULATION_ENABLED", g, h.date))
              /\ Mute(Msg("CONSTRAINED_ENABLED", g, 0))
              /\ Mute(Msg("SYNCHRONIZED", g, 0))
            BY DEF Mute, Msg
        <3> QED
            BY <3>1, <3>2
    <2>2. CASE UpdateRegulator(g)
        BY <1>1, <1>4, <2>2 DEF UpdateRegulator, Takes, RespondToOthers, Relayed
    <2>3. CASE AddRegulator(g)
        <3>1. f # g => down'[f] = Append(down[f], h)
            BY <1>1, <2>3 DEF AddRegulator
        <3>2. f = g => down'[f] = Append(Append(down[f], h), a)
            <4>1. f = g => down'[f] = down[f] \o <<h, a>>
                BY <1>1, <2>1, <2>3 DEF AddRegulator
            <4>2. down[f] \o <<h, a>> = Append(Append(down[f], h), a)
                BY <1>3, <1>6
            <4> QED
                BY <4>1, <4>2
        <3> QED
            BY <2>1, <3>1, <3>2 DEF Relayed
    <2>4. CASE RemoveRegulator(g)
        BY <1>1, <2>4 DEF RemoveRegulator, RespondToAll, Relayed
    <2>5. CASE SetConstrained(g)
        <3>1. Mute(h) /\ (down' = down \/ down' = [down EXCEPT ![g] = Append(@, b)])
            BY <1>1, <2>1, <2>5 DEF SetConstrained, Takes, Mute
        <3>2. down'[f] = down[f] \/ down'[f] = Append(down[f], b)
            <4>1. DOMAIN down = Federate
                BY DEF ReplicaInvariant, TypeOK
            <4>2. f = g \/ f # g
                OBVIOUS
            <4> QED
                BY <3>1, <4>1, <4>2
        <3> QED
            BY <2>1, <3>1, <3>2 DEF Relayed
    <2>6. CASE Broadcast(g)
        <3>1. Mute(h) /\ (down'[f] = down[f] \/ down'[f] = Append(down[f], h))
            BY <1>1, <2>6 DEF Broadcast, Takes, Mute, RespondToOthers
        <3> QED
            BY <3>1 DEF Relayed
    <2>7. CASE UnregisterSynchronization(g)
        <3>1. Mute(h) /\ (down'[f] = down[f] \/ down'[f] = Append(down[f], c))
            BY <1>1, <2>1, <2>7 DEF UnregisterSynchronization, Takes, Mute, RespondToAll
        <3> QED
            BY <2>1, <3>1 DEF Relayed
    <2> QED
        BY <2>2, <2>3, <2>4, <2>5, <2>6, <2>7 DEF Rtig
<1> QED
    BY <1>1, <1>2, <1>5, <1>7, <1>8, RelayReplicates

\* One message handled by an RTIA.
LEMMA ProcessReplicates ==
    ASSUME ReplicaInvariant, TypeOK', NEW f \in Federate, ProcessNetworkMessage(f)
    PROVE  ReplicaInvariant'
<1>1. PICK h : h = Head(down[f])
    OBVIOUS
<1>2. /\ down[f] # <<>> /\ down' = [down EXCEPT ![f] = Tail(@)]
      /\ UNCHANGED <<up, my_regulators, is_regulating, promised>>
    BY DEF ProcessNetworkMessage, ReceiveClock, ReceiveCommand, ReceiveEvent, Receives, roleVars,
        rtigVars, promiseVars
<1>3. h \in Message /\ h.date \in Nat
    <2>1. down[f] \in Seq(Message)
        BY DEF ReplicaInvariant, TypeOK
    <2> QED
        BY <1>1, <1>2, <2>1, HeadTailType, MessageFields
<1>4. ClockSet(clocks[f]) /\ DOMAIN clocks = Federate
    BY DEF ReplicaInvariant, TypeOK
<1>5. \A j \in Federate \ {f} : clocks'[j] = clocks[j]
    BY <1>4 DEF ProcessNetworkMessage, ReceiveClock, ReceiveCommand, ReceiveEvent
<1>6. ASSUME NEW k \in Federate
      PROVE  Clock(clocks'[f], k) = ClockAfter(h, k, Clock(clocks[f], k))
    <2>1. CASE h.kind = "NULL" /\ clocks' = [clocks EXCEPT ![f] = Update(@, h.fed, h.date)]
        <3>1. clocks'[f] = Update(clocks[f], h.fed, h.date)
            BY <1>4, <2>1
        <3> QED
            BY <1>3, <1>4, <2>1, <3>1, CarriedOut
    <2>2. CASE h.kind = "REGULATOR_ON" /\ clocks' = [clocks EXCEPT ![f] = Insert(@, h.fed, h.date)]
        <3>1. clocks'[f] = Insert(clocks[f], h.fed, h.date)
            BY <1>4, <2>2
        <3> QED
            BY <1>3, <1>4, <2>2, <3>1, CarriedOut
    <2>3. CASE h.kind = "REGULATOR_OFF" /\ clocks' = [clocks EXCEPT ![f] = Remove(@, h.fed)]
        <3>1. clocks'[f] = Remove(clocks[f], h.fed)
            BY <1>4, <2>3
        <3> QED
            BY <1>3, <1>4, <2>3, <3>1, CarriedOut
    <2>4. CASE Mute(h) /\ UNCHANGED clocks
        BY <2>4, NeutralFits DEF Neutral
    <2> QED
        BY <1>1, <2>1, <2>2, <2>3, <2>4 DEF ProcessNetworkMessage, ReceiveClock, ReceiveCommand,
            ReceiveEvent, Receives, Mute
<1>7. \A k \in Federate : OwnClock(k)' = OwnClock(k)
    BY <1>2 DEF OwnClock
<1> QED
    BY <1>1, <1>2, <1>5, <1>6, <1>7, ReceiveReplicates
-----------------------------------------------------------------------------
(* The theorems. *)

\* Every step keeps the invariant.
LEMMA ReplicaStep == ReplicaInvariant /\ [Next]_vars => ReplicaInvariant'
<1> SUFFICES ASSUME ReplicaInvariant, [Next]_vars PROVE ReplicaInvariant'
    OBVIOUS
<1>1. TypeOK'
    BY TypeStep DEF ReplicaInvariant
<1>2. CASE UNCHANGED vars
    BY <1>1, <1>2, SilenceReplicates DEF vars, promiseVars, roleVars, rtigVars, OwnClock
<1> QED
    BY <1>1, <1>2, RequestsReplicate, TickReplicates, RtigReplicates, ProcessReplicates DEF Next

\* The RTIG and every RTIA are brought by what the streams hold to what the
\* regulators say of themselves, and every message of the streams fits, whatever
\* the federates do.
THEOREM ReplicaInvariantHolds == Spec => []ReplicaInvariant
<1>1. Init => ReplicaInvariant
    <2> SUFFICES ASSUME Init PROVE ReplicaInvariant
        OBVIOUS
    <2>1. TypeOK
        BY DEF Init, TypeOK, ClockSet, NoClock, Granted
    <2>2. \A f \in Federate : up[f] = <<>> /\ down[f] = <<>> /\ clocks[f] = NoClock
        BY DEF Init
    <2>3. /\ my_regulators = NoClock /\ \A g \in Federate : ~ is_regulating[g]
          /\ \A g : Clock(NoClock, g) = {}
        BY DEF Init, Clock, Has, NoClock
    <2>4. \A g \in Federate : Follows(<<>>, g, {}, {})
        BY FollowsEmpty
    <2>5. \A f \in Federate : Elems(up[f]) = {}
        BY <2>2 DEF Elems
    <2>6. \A g \in Federate : Said(g)
        BY <2>2, <2>3, <2>4, <2>5 DEF Said, OwnClock
    <2>7. \A f, g \in Federate : Heard(f, g)
        BY <2>2, <2>3, <2>4 DEF Heard
    <2> QED
        BY <2>1, <2>6, <2>7 DEF ReplicaInvariant
<1> QED
    BY <1>1, ReplicaStep, PTL DEF Spec

\* The clock sets of the RTIG and of the RTIAs are replicas of the federates'
\* regulation and promises, behind by what is in flight.
THEOREM ClocksAreReplicas == Spec => []ClocksReplicate
<1>1. ReplicaInvariant => ClocksReplicate
    <2> SUFFICES ASSUME ReplicaInvariant, NEW g \in Federate
                 PROVE  /\ Replayed(up[g], g, Clock(my_regulators, g)) = OwnClock(g)
                        /\ \A f \in Federate \ {g} :
                              Replayed(down[f], g, Clock(clocks[f], g)) = Clock(my_regulators, g)
        BY DEF ClocksReplicate
    <2>1. Replayed(up[g], g, Clock(my_regulators, g)) = OwnClock(g)
        <3>1. up[g] \in Seq(Message)
            BY DEF ReplicaInvariant, TypeOK
        <3>2. Follows(up[g], g, Clock(my_regulators, g), OwnClock(g))
            BY DEF ReplicaInvariant, Said
        <3> QED
            BY <3>1, <3>2, FollowsReplay
    <2>2. ASSUME NEW f \in Federate \ {g}
          PROVE  Replayed(down[f], g, Clock(clocks[f], g)) = Clock(my_regulators, g)
        <3>1. down[f] \in Seq(Message)
            BY DEF ReplicaInvariant, TypeOK
        <3>2. Follows(down[f], g, Clock(clocks[f], g), Clock(my_regulators, g))
            BY DEF ReplicaInvariant, Heard
        <3> QED
            BY <3>1, <3>2, FollowsReplay
    <2> QED
        BY <2>1, <2>2
<1> QED
    BY <1>1, ReplicaInvariantHolds, PTL

\* No message that is anywhere on a stream makes a clock operation throw when its
\* turn comes.
THEOREM MessagesFit == Spec => []EveryMessageFits
<1>1. ReplicaInvariant => EveryMessageFits
    <2> SUFFICES ASSUME ReplicaInvariant, NEW f \in Federate, NEW g \in Federate
                 PROVE  /\ \A i \in 1 .. Len(up[f]) :
                              Fits(up[f][i], g, Replay(up[f], g, Clock(my_regulators, g))[i - 1])
                        /\ \A i \in 1 .. Len(down[f]) :
                              Fits(down[f][i], g, Replay(down[f], g, Clock(clocks[f], g))[i - 1])
        BY DEF EveryMessageFits
    <2>1. up[f] \in Seq(Message) /\ down[f] \in Seq(Message)
        BY DEF ReplicaInvariant, TypeOK
    <2>2. ASSUME NEW i \in 1 .. Len(up[f])
          PROVE  Fits(up[f][i], g, Replay(up[f], g, Clock(my_regulators, g))[i - 1])
        <3>1. CASE f = g
            <4>1. Follows(up[g], g, Clock(my_regulators, g), OwnClock(g))
                BY DEF ReplicaInvariant, Said
            <4> QED
                BY <2>1, <2>2, <3>1, <4>1, FollowsReplay
        <3>2. CASE f # g
            <4>1. i \in DOMAIN up[f]
                BY <2>1
            <4>2. up[f][i].fed = f
                BY <4>1 DEF ReplicaInvariant, Said, Elems
            <4> QED
                BY <3>2, <4>2 DEF Fits
        <3> QED
            BY <3>1, <3>2
    <2>3. ASSUME NEW i \in 1 .. Len(down[f])
          PROVE  Fits(down[f][i], g, Replay(down[f], g, Clock(clocks[f], g))[i - 1])
        <3>1. PICK e \in SUBSET Nat : Follows(down[f], g, Clock(clocks[f], g), e)
            BY DEF ReplicaInvariant, Heard
        <3> QED
            BY <2>1, <2>3, <3>1, FollowsReplay
    <2> QED
        BY <2>2, <2>3
<1> QED
    BY <1>1, ReplicaInvariantHolds, PTL

\* What NoInternalError asks of the stream s and of the clock set c it is read by.
HeadPossible(s, c) ==
    s # <<>> => /\ Head(s).kind \in {"NULL", "REGULATOR_OFF"} => Has(c, Head(s).fed)
                /\ Head(s).kind = "REGULATOR_ON" => CanInsert(c, Head(s).fed)

\* No RTIA and no RTIG ever throws the RTIinternalError of LBTS::insert, update or
\* remove: the head of a stream always finds the clock it needs.
THEOREM NoClockOperationThrows == Spec => []NoInternalError
<1>1. ReplicaInvariant => NoInternalError
    <2> SUFFICES ASSUME ReplicaInvariant, NEW f \in Federate
                 PROVE  HeadPossible(up[f], my_regulators) /\ HeadPossible(down[f], clocks[f])
        BY DEF NoInternalError, HeadPossible
    <2>1. ASSUME NEW s \in Seq(Message), NEW c, s # <<>>, NEW e,
                 Follows(s, Head(s).fed, Clock(c, Head(s).fed), e)
          PROVE  HeadPossible(s, c)
        <3>1. Fits(Head(s), Head(s).fed, Clock(c, Head(s).fed))
            BY <2>1, FollowsTail
        <3> QED
            BY <3>1 DEF Fits, Clock, CanInsert, HeadPossible
    <2>2. up[f] \in Seq(Message) /\ down[f] \in Seq(Message)
        BY DEF ReplicaInvariant, TypeOK
    <2>3. HeadPossible(up[f], my_regulators)
        <3>1. CASE up[f] # <<>>
            <4>1. Head(up[f]).fed = f
                <5>1. Head(up[f]) \in Elems(up[f])
                    BY <2>2, <3>1, ElemsTail
                <5> QED
                    BY <5>1 DEF ReplicaInvariant, Said
            <4>2. Follows(up[f], f, Clock(my_regulators, f), OwnClock(f))
                BY DEF ReplicaInvariant, Said
            <4> QED
                BY <2>1, <2>2, <3>1, <4>1, <4>2
        <3> QED
            BY <3>1 DEF HeadPossible
    <2>4. HeadPossible(down[f], clocks[f])
        <3>1. CASE down[f] # <<>>
            <4>1. Head(down[f]).fed \in Federate
                BY <2>2, <3>1, HeadTailType, MessageFields
            <4>2. \E e : Follows(down[f], Head(down[f]).fed, Clock(clocks[f], Head(down[f]).fed), e)
                BY <4>1 DEF ReplicaInvariant, Heard
            <4> QED
                BY <2>1, <2>2, <3>1, <4>2
        <3> QED
            BY <3>1 DEF HeadPossible
    <2> QED
        BY <2>3, <2>4
<1> QED
    BY <1>1, ReplicaInvariantHolds, PTL
=============================================================================
