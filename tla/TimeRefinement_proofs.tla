----------------------- MODULE TimeRefinement_proofs ------------------------
(***************************************************************************)
(* TimeManagement implements ConservativeTime for disciplined federates:     *)
(* each event is at one place of its way to a federate at a time, and every  *)
(* step of a federate, of its RTIA or of the RTIG is a step of               *)
(* ConservativeTime or leaves what it speaks of unchanged.                   *)
(***************************************************************************)
EXTENDS TimeRefinement, TimeSafety_proofs

-----------------------------------------------------------------------------
(* The events of a sequence of messages. *)

\* t holds the events of s, each as often.
KeepsEvents(s, t) == Events(t) = Events(s) /\ (NoneTwice(s) => NoneTwice(t))

\* t holds the event e besides those of s.
GainsEvent(s, t, e) ==
    /\ e.kind = "EVENT" /\ Events(t) = Events(s) \cup {e}
    /\ NoneTwice(s) /\ e \notin Events(s) => NoneTwice(t)

\* t holds the events of s but e.
LosesEvent(s, t, e) ==
    /\ e.kind = "EVENT" /\ Events(s) = Events(t) \cup {e}
    /\ NoneTwice(s) => NoneTwice(t) /\ e \notin Events(t)

\* The events of a sequence are among its messages.
LEMMA EventsElems == \A s : Events(s) = {m \in Elems(s) : m.kind = "EVENT"}
BY DEF Events, Elems

\* Nothing is gained nor lost by a sequence that does not change.
LEMMA SameKeepsEvents == \A s : KeepsEvents(s, s)
BY DEF KeepsEvents

\* A message at the end of a sequence.
LEMMA AppendMoves ==
    ASSUME NEW S, NEW s \in Seq(S), NEW m
    PROVE  /\ m.kind # "EVENT" => KeepsEvents(s, Append(s, m))
           /\ m.kind = "EVENT" => GainsEvent(s, Append(s, m), m)
<1>1. PICK t : t = Append(s, m)
    OBVIOUS
<1>2. Elems(t) = Elems(s) \cup {m}
    BY <1>1, ElemsAppend
<1>3. /\ Len(s) \in Nat /\ Len(t) = Len(s) + 1
      /\ t[Len(s) + 1] = m
      /\ \A i \in 1 .. Len(s) : t[i] = s[i]
    BY <1>1, AppendProperties
<1>4. \A i \in 1 .. Len(s) : s[i] \in Elems(s)
    BY DEF Elems
<1>5. ASSUME NoneTwice(s), m.kind = "EVENT" => m \notin Elems(s)
      PROVE  NoneTwice(t)
    <2> SUFFICES ASSUME NEW i \in 1 .. Len(s) + 1, NEW j \in 1 .. Len(s) + 1,
                        t[i].kind = "EVENT", t[i] = t[j]
                 PROVE  i = j
        BY <1>3 DEF NoneTwice
    <2>1. CASE i \in 1 .. Len(s) /\ j \in 1 .. Len(s)
        BY <1>3, <1>5, <2>1 DEF NoneTwice
    <2>2. CASE i = Len(s) + 1 /\ j \in 1 .. Len(s)
        BY <1>3, <1>4, <1>5, <2>2
    <2>3. CASE i \in 1 .. Len(s) /\ j = Len(s) + 1
        BY <1>3, <1>4, <1>5, <2>3
    <2> QED
        BY <1>3, <2>1, <2>2, <2>3
<1>6. ASSUME m.kind # "EVENT" PROVE KeepsEvents(s, t)
    BY <1>2, <1>5, <1>6, EventsElems DEF KeepsEvents
<1>7. ASSUME m.kind = "EVENT" PROVE GainsEvent(s, t, m)
    BY <1>2, <1>5, <1>7, EventsElems DEF GainsEvent
<1> QED
    BY <1>1, <1>6, <1>7

\* Two messages at the end of a sequence are put there one by one.
LEMMA AppendTwo ==
    ASSUME NEW S, NEW s \in Seq(S), NEW a \in S, NEW b \in S
    PROVE  s \o <<a, b>> = Append(Append(s, a), b)
<1>1. <<a>> \in Seq(S) /\ <<b>> \in Seq(S) /\ <<a>> \o <<b>> = <<a, b>>
    <2>1. <<a>> \in Seq(S) /\ <<b>> \in Seq(S)
        OBVIOUS
    <2>2. PICK t : t = Append(<<a>>, b)
        OBVIOUS
    <2>3. t \in Seq(S) /\ Len(t) = 2 /\ t[1] = a /\ t[2] = b
        <3>1. Len(<<a>>) = 1 /\ <<a>>[1] = a
            OBVIOUS
        <3> QED
            BY <2>1, <2>2, <3>1, AppendProperties
    <2>4. PICK u : u = <<a, b>>
        OBVIOUS
    <2>5. u \in Seq(S) /\ Len(u) = 2 /\ u[1] = a /\ u[2] = b
        BY <2>4
    <2>6. t = u
        <3>1. \A i \in 1 .. Len(t) : t[i] = u[i]
            BY <2>3, <2>5
        <3> QED
            BY <2>3, <2>5, <3>1, SeqEqual
    <2>7. Append(<<a>>, b) = <<a>> \o <<b>>
        BY <2>1, AppendIsConcat
    <2> QED
        BY <2>1, <2>2, <2>4, <2>6, <2>7
<1>2. Append(s, a) = s \o <<a>> /\ Append(s, a) \in Seq(S)
    BY AppendIsConcat, AppendProperties
<1>3. Append(Append(s, a), b) = Append(s, a) \o <<b>>
    BY <1>2, AppendIsConcat
<1>4. (s \o <<a>>) \o <<b>> = s \o (<<a>> \o <<b>>)
    BY <1>1, ConcatAssociative
<1> QED
    BY <1>1, <1>2, <1>3, <1>4

\* A message taken from the front of a sequence.
LEMMA TailMoves ==
    ASSUME NEW S, NEW s \in Seq(S), s # <<>>
    PROVE  /\ Head(s).kind # "EVENT" => KeepsEvents(s, Tail(s))
           /\ Head(s).kind = "EVENT" => LosesEvent(s, Tail(s), Head(s))
<1>1. PICK t : t = Tail(s)
    OBVIOUS
<1>2. PICK h : h = Head(s)
    OBVIOUS
<1>3. Elems(s) = {h} \cup Elems(t)
    BY <1>1, <1>2, ElemsTail
<1>4. /\ Len(s) \in Nat \ {0} /\ Len(t) = Len(s) - 1 /\ h = s[1] /\ t \in Seq(S)
      /\ \A i \in 1 .. Len(t) : t[i] = s[i + 1]
    BY <1>1, <1>2, HeadTailProperties, EmptySeq
<1>5. ASSUME NoneTwice(s) PROVE NoneTwice(t)
    <2> SUFFICES ASSUME NEW i \in 1 .. Len(s) - 1, NEW j \in 1 .. Len(s) - 1,
                        t[i].kind = "EVENT", t[i] = t[j]
                 PROVE  i = j
        BY <1>4 DEF NoneTwice
    <2>1. i + 1 \in 1 .. Len(s) /\ j + 1 \in 1 .. Len(s) /\ t[i] = s[i + 1] /\ t[j] = s[j + 1]
        BY <1>4
    <2>2. i + 1 = j + 1
        BY <1>5, <2>1 DEF NoneTwice
    <2> QED
        BY <2>2
<1>6. ASSUME NoneTwice(s), h.kind = "EVENT" PROVE h \notin Elems(t)
    <2> SUFFICES ASSUME NEW i \in DOMAIN t, t[i] = h PROVE FALSE
        BY DEF Elems
    <2>1. i \in 1 .. Len(s) - 1
        BY <1>4
    <2>2. i + 1 \in 1 .. Len(s) /\ 1 \in 1 .. Len(s) /\ t[i] = s[i + 1]
        BY <1>4, <2>1
    <2>3. i + 1 = 1
        BY <1>4, <1>6, <2>2 DEF NoneTwice
    <2> QED
        BY <2>1, <2>3
<1>7. ASSUME h.kind # "EVENT" PROVE KeepsEvents(s, t)
    <2>1. Events(t) = Events(s)
        BY <1>3, <1>7, EventsElems
    <2> QED
        BY <1>5, <2>1 DEF KeepsEvents
<1>8. ASSUME h.kind = "EVENT" PROVE LosesEvent(s, t, h)
    BY <1>3, <1>5, <1>6, <1>8, EventsElems DEF LosesEvent
<1> QED
    BY <1>1, <1>2, <1>7, <1>8

\* An event put somewhere in a sequence.
LEMMA InsertMoves ==
    ASSUME NEW S, NEW s \in Seq(S), NEW m \in S, NEW k \in 0 .. Len(s), m.kind = "EVENT"
    PROVE  /\ GainsEvent(s, Inserted(s, k, m), m)
           /\ Elems(Inserted(s, k, m)) \subseteq Elems(s) \cup {m}
<1>1. PICK t : t = Inserted(s, k, m)
    OBVIOUS
<1>2. HasInserted(t, s, k, m)
    BY <1>1, InsertAt
<1>3. /\ Len(s) \in Nat /\ k \in 0 .. Len(s) /\ DOMAIN s = 1 .. Len(s)
      /\ Len(t) = Len(s) + 1 /\ DOMAIN t = 1 .. Len(s) + 1
      /\ \A i \in 1 .. k : t[i] = s[i]
      /\ t[k + 1] = m
      /\ \A i \in k + 2 .. Len(s) + 1 : t[i] = s[i - 1]
    BY <1>2 DEF HasInserted
<1>4. \A i \in 1 .. Len(s) + 1 :
         i # k + 1 => \E j \in 1 .. Len(s) : t[i] = s[j] /\ j = IF i <= k THEN i ELSE i - 1
    <2> SUFFICES ASSUME NEW i \in 1 .. Len(s) + 1, i # k + 1
                 PROVE  \E j \in 1 .. Len(s) : t[i] = s[j] /\ j = IF i <= k THEN i ELSE i - 1
        OBVIOUS
    <2>1. CASE i <= k
        <3>1. i \in 1 .. k /\ i \in 1 .. Len(s)
            BY <1>3, <2>1
        <3> QED
            BY <1>3, <2>1, <3>1
    <2>2. CASE ~ (i <= k)
        <3>1. i \in k + 2 .. Len(s) + 1 /\ i - 1 \in 1 .. Len(s)
            BY <1>3, <2>2
        <3> QED
            BY <1>3, <2>2, <3>1
    <2> QED
        BY <2>1, <2>2
<1>5. Elems(t) \subseteq Elems(s) \cup {m}
    BY <1>3, <1>4 DEF Elems
<1>6. Elems(s) \cup {m} \subseteq Elems(t)
    <2>1. m \in Elems(t)
        <3>1. k + 1 \in DOMAIN t
            BY <1>3
        <3> QED
            BY <1>3, <3>1 DEF Elems
    <2>2. ASSUME NEW i \in 1 .. Len(s) PROVE s[i] \in Elems(t)
        <3>1. CASE i <= k
            <4>1. i \in 1 .. k /\ i \in DOMAIN t
                BY <1>3, <3>1
            <4> QED
                BY <1>3, <4>1 DEF Elems
        <3>2. CASE ~ (i <= k)
            <4>1. i + 1 \in k + 2 .. Len(s) + 1 /\ i + 1 \in DOMAIN t /\ (i + 1) - 1 = i
                BY <1>3, <3>2
            <4>2. t[i + 1] = s[i]
                BY <1>3, <4>1
            <4> QED
                BY <4>1, <4>2 DEF Elems
        <3> QED
            BY <3>1, <3>2
    <2> QED
        BY <1>3, <2>1, <2>2 DEF Elems
<1>7. ASSUME NoneTwice(s), m \notin Elems(s) PROVE NoneTwice(t)
    <2> SUFFICES ASSUME NEW i \in 1 .. Len(s) + 1, NEW j \in 1 .. Len(s) + 1,
                        t[i].kind = "EVENT", t[i] = t[j]
                 PROVE  i = j
        BY <1>3 DEF NoneTwice
    <2>1. \A n \in 1 .. Len(s) + 1 : n # k + 1 => t[n] # m
        <3>1. \A n \in 1 .. Len(s) : s[n] \in Elems(s)
            BY DEF Elems
        <3> QED
            BY <1>4, <1>7, <3>1
    <2>2. CASE i = k + 1 \/ j = k + 1
        BY <1>3, <2>1, <2>2
    <2>3. CASE i # k + 1 /\ j # k + 1
        <3>1. PICK n \in 1 .. Len(s) : t[i] = s[n] /\ n = IF i <= k THEN i ELSE i - 1
            BY <1>4, <2>3
        <3>2. PICK o \in 1 .. Len(s) : t[j] = s[o] /\ o = IF j <= k THEN j ELSE j - 1
            BY <1>4, <2>3
        <3>3. n = o
            BY <1>7, <3>1, <3>2 DEF NoneTwice
        <3> QED
            BY <1>3, <2>3, <3>1, <3>2, <3>3
    <2> QED
        BY <2>2, <2>3
<1>8. GainsEvent(s, t, m)
    BY <1>5, <1>6, <1>7, EventsElems DEF GainsEvent
<1> QED
    BY <1>1, <1>5, <1>8

-----------------------------------------------------------------------------
(* How the events move in a step. *)

\* The events on the streams of F, on the streams to G and in the queues of H may
\* move; nothing else does.
OnlyAt(F, G, H) ==
    /\ \A k \in Federate \ F : KeepsEvents(up[k], up'[k])
    /\ \A k \in Federate \ G : KeepsEvents(down[k], down'[k])
    /\ \A k \in Federate \ H : tsos'[k] = tsos[k]
    /\ \A k \in Federate : spent'[k] \in Nat /\ spent[k] <= spent'[k]

Quiet == OnlyAt({}, {}, {})

\* f puts the new event e on its stream.
Sent(f, e) ==
    /\ OnlyAt({f}, {}, {}) /\ GainsEvent(up[f], up'[f], e)
    /\ e.fed = f /\ e.id = spent[f] + 1
    /\ e.id \in 1 .. MaxSpent /\ e.id <= spent'[f]

\* The RTIG broadcasts the event e of g.
Relayed(g, e) ==
    /\ OnlyAt({g}, Federate \ {g}, {}) /\ LosesEvent(up[g], up'[g], e)
    /\ \A k \in Federate \ {g} : GainsEvent(down[k], down'[k], e)

\* The RTIA of f puts the event e in its TSO queue.
Filed(f, e) ==
    /\ OnlyAt({}, {f}, {f}) /\ LosesEvent(down[f], down'[f], e)
    /\ GainsEvent(tsos[f], tsos'[f], e)
    /\ Elems(tsos'[f]) \subseteq Elems(tsos[f]) \cup {e}

\* The RTIA of f takes the event e without ordering it.
Taken(f, e) ==
    OnlyAt({}, {f}, {}) /\ LosesEvent(down[f], down'[f], e)

\* The event e is given to f in the order of the dates.
Given(f, e) ==
    /\ OnlyAt({}, {}, {f}) /\ LosesEvent(tsos[f], tsos'[f], e)
    /\ Elems(tsos'[f]) \subseteq Elems(tsos[f])

\* What is known of the events before a step.
LEMMA EventFacts ==
    ASSUME TypeOK, PathInvariant, EventInvariant
    PROVE  /\ \A g \in Federate : \A m \in Events(up[g]) : m.fed = g
           /\ \A k \in Federate : spent[k] \in Nat
           /\ \A k \in Federate :
                 \A m \in Events(up[k]) \cup Events(down[k]) \cup Events(tsos[k]) :
                    m.fed \in Federate /\ m.id <= spent[m.fed] /\ m.id \in 1 .. MaxSpent
           /\ MaxSpent \in Nat
<1>1. \A g \in Federate : \A m \in Events(up[g]) : m.fed = g
    BY EventsElems DEF PathInvariant, MessagesHold
<1>2. \A k \in Federate :
         \A m \in Events(up[k]) \cup Events(down[k]) \cup Events(tsos[k]) : m.fed \in Federate
    BY EventsElems, StreamTypes, MessageFields
<1> QED
    BY <1>1, <1>2, RolesAssumption DEF TypeOK, EventInvariant, EventsSpent

\* A step that moves no event.
LEMMA QuietMoves ==
    ASSUME TypeOK, PathInvariant, EventInvariant, Quiet
    PROVE  EventInvariant' /\ \A k \in Federate : Pending(k)' = Pending(k)
<1>1. \A k \in Federate :
         /\ Events(up'[k]) = Events(up[k]) /\ Events(down'[k]) = Events(down[k])
         /\ tsos'[k] = tsos[k] /\ spent[k] <= spent'[k] /\ spent'[k] \in Nat
         /\ NoneTwice(up[k]) => NoneTwice(up'[k])
         /\ NoneTwice(down[k]) => NoneTwice(down'[k])
    BY DEF Quiet, OnlyAt, KeepsEvents
<1>2. EventsOnce'
    BY <1>1 DEF EventInvariant, EventsOnce
<1>3. EventsSpent'
    <2>1. \A k \in Federate :
             \A m \in Events(up[k]) \cup Events(down[k]) \cup Events(tsos[k]) :
                m.id \in 1 .. MaxSpent /\ m.id <= spent'[m.fed]
        BY <1>1, EventFacts
    <2> QED
        BY <1>1, <2>1 DEF EventInvariant, EventsSpent
<1>4. \A k \in Federate : Pending(k)' = Pending(k)
    BY <1>1 DEF Pending, InFlight
<1> QED
    BY <1>2, <1>3, <1>4 DEF EventInvariant

\* A new event is pending at every other federate.
LEMMA SentMoves ==
    ASSUME TypeOK, PathInvariant, EventInvariant, NEW f \in Federate, NEW e, Sent(f, e)
    PROVE  /\ EventInvariant'
           /\ \A k \in Federate :
                 Pending(k)' = IF k = f THEN Pending(k) ELSE Pending(k) \cup {e}
<1>1. /\ \A k \in Federate :
            /\ Events(down'[k]) = Events(down[k])
            /\ tsos'[k] = tsos[k] /\ spent[k] <= spent'[k] /\ spent'[k] \in Nat
            /\ NoneTwice(down[k]) => NoneTwice(down'[k])
            /\ k # f => /\ Events(up'[k]) = Events(up[k])
                        /\ NoneTwice(up[k]) => NoneTwice(up'[k])
      /\ Events(up'[f]) = Events(up[f]) \cup {e}
      /\ NoneTwice(up[f]) /\ e \notin Events(up[f]) => NoneTwice(up'[f])
    BY DEF Sent, OnlyAt, KeepsEvents, GainsEvent
<1>2. /\ e.fed = f /\ e.id \in 1 .. MaxSpent /\ e.id = spent[f] + 1 /\ e.id <= spent'[f]
      /\ spent[f] \in Nat
    BY EventFacts DEF Sent
<1>3. ASSUME NEW k \in Federate,
             e \in Events(up[k]) \cup Events(down[k]) \cup Events(tsos[k])
      PROVE  FALSE
    <2>1. e.id <= spent[f]
        BY <1>2, <1>3, EventFacts
    <2> QED
        BY <1>2, <2>1
<1>4. EventsOnce'
    BY <1>1, <1>3 DEF EventInvariant, EventsOnce
<1>5. EventsSpent'
    <2>1. \A k \in Federate :
             \A m \in Events(up[k]) \cup Events(down[k]) \cup Events(tsos[k]) :
                m.id \in 1 .. MaxSpent /\ m.id <= spent'[m.fed]
        BY <1>1, EventFacts
    <2>2. \A k \in Federate : Events(up'[k]) \subseteq Events(up[k]) \cup {e}
        BY <1>1
    <2> QED
        BY <1>1, <1>2, <2>1, <2>2 DEF EventInvariant, EventsSpent
<1>6. ASSUME NEW k \in Federate
      PROVE  Pending(k)' = IF k = f THEN Pending(k) ELSE Pending(k) \cup {e}
    BY <1>1 DEF Pending, InFlight
<1> QED
    BY <1>4, <1>5, <1>6 DEF EventInvariant

\* An event that the RTIG broadcasts stays pending.
LEMMA RelayedMoves ==
    ASSUME TypeOK, PathInvariant, EventInvariant, NEW g \in Federate, NEW e, Relayed(g, e)
    PROVE  EventInvariant' /\ \A k \in Federate : Pending(k)' = Pending(k)
<1>1. /\ \A k \in Federate :
            /\ tsos'[k] = tsos[k] /\ spent[k] <= spent'[k] /\ spent'[k] \in Nat
            /\ k # g => /\ Events(up'[k]) = Events(up[k])
                        /\ NoneTwice(up[k]) => NoneTwice(up'[k])
                        /\ Events(down'[k]) = Events(down[k]) \cup {e}
                        /\ NoneTwice(down[k]) /\ e \notin Events(down[k])
                              => NoneTwice(down'[k])
      /\ Events(up[g]) = Events(up'[g]) \cup {e}
      /\ NoneTwice(up[g]) => NoneTwice(up'[g]) /\ e \notin Events(up'[g])
      /\ Events(down'[g]) = Events(down[g])
      /\ NoneTwice(down[g]) => NoneTwice(down'[g])
    BY DEF Relayed, OnlyAt, KeepsEvents, GainsEvent, LosesEvent
<1>2. /\ e \in Events(up[g]) /\ e \notin Events(up'[g]) /\ e.fed = g
      /\ \A k \in Federate : Events(up'[k]) \subseteq Events(up[k])
    BY <1>1, EventFacts DEF EventInvariant, EventsOnce
<1>3. \A k \in Federate : e \notin Events(down[k]) \cup Events(tsos[k])
    BY <1>2 DEF EventInvariant, EventsOnce
<1>4. \A k \in Federate : e \notin Events(up'[k])
    BY <1>1, <1>2, EventFacts
<1>5. EventsOnce'
    <2>1. \A k \in Federate : NoneTwice(up[k])' /\ NoneTwice(down[k])' /\ NoneTwice(tsos[k])'
        BY <1>1, <1>3 DEF EventInvariant, EventsOnce
    <2>2. \A k \in Federate : Events(down[k])' \subseteq Events(down[k]) \cup {e}
        BY <1>1
    <2> QED
        BY <1>1, <1>2, <1>3, <1>4, <2>1, <2>2, SMTT(30) DEF EventInvariant, EventsOnce
<1>6. EventsSpent'
    <2>1. \A k \in Federate :
             \A m \in Events(up[k]) \cup Events(down[k]) \cup Events(tsos[k]) \cup {e} :
                m.id \in 1 .. MaxSpent /\ m.id <= spent'[m.fed]
        BY <1>1, <1>2, EventFacts
    <2>2. \A k \in Federate : /\ Events(up'[k]) \subseteq Events(up[k])
                              /\ Events(down'[k]) \subseteq Events(down[k]) \cup {e}
        BY <1>1
    <2> QED
        BY <1>1, <2>1, <2>2 DEF EventInvariant, EventsSpent
<1>7. ASSUME NEW k \in Federate PROVE Pending(k)' = Pending(k)
    <2>1. CASE k = g
        BY <1>1, <2>1 DEF Pending, InFlight
    <2>2. CASE k # g
        BY <1>1, <2>2 DEF Pending, InFlight
    <2> QED
        BY <2>1, <2>2
<1> QED
    BY <1>5, <1>6, <1>7 DEF EventInvariant

\* An event that the RTIA of f orders stays pending.
LEMMA FiledMoves ==
    ASSUME TypeOK, PathInvariant, EventInvariant, NEW f \in Federate, NEW e, Filed(f, e)
    PROVE  EventInvariant' /\ \A k \in Federate : Pending(k)' = Pending(k)
<1>1. /\ \A k \in Federate :
            /\ Events(up'[k]) = Events(up[k]) /\ (NoneTwice(up[k]) => NoneTwice(up'[k]))
            /\ spent[k] <= spent'[k] /\ spent'[k] \in Nat
            /\ k # f => /\ Events(down'[k]) = Events(down[k]) /\ tsos'[k] = tsos[k]
                        /\ NoneTwice(down[k]) => NoneTwice(down'[k])
      /\ Events(down[f]) = Events(down'[f]) \cup {e}
      /\ NoneTwice(down[f]) => NoneTwice(down'[f]) /\ e \notin Events(down'[f])
      /\ Events(tsos'[f]) = Events(tsos[f]) \cup {e}
      /\ NoneTwice(tsos[f]) /\ e \notin Events(tsos[f]) => NoneTwice(tsos'[f])
      /\ e.kind = "EVENT" /\ Elems(tsos'[f]) \subseteq Elems(tsos[f]) \cup {e}
    BY DEF Filed, OnlyAt, KeepsEvents, GainsEvent, LosesEvent
<1>2. /\ e \in Events(down[f]) /\ e \notin Events(tsos[f]) /\ e \notin Events(down'[f])
      /\ \A k \in Federate : e \notin Events(up[k])
    BY <1>1 DEF EventInvariant, EventsOnce
<1>3. EventsOnce'
    <2>1. \A k \in Federate : NoneTwice(up[k])' /\ NoneTwice(down[k])' /\ NoneTwice(tsos[k])'
        BY <1>1, <1>2 DEF EventInvariant, EventsOnce
    <2> QED
        BY <1>1, <1>2, <2>1 DEF EventInvariant, EventsOnce
<1>4. EventsSpent'
    <2>1. \A k \in Federate :
             \A m \in Events(up[k]) \cup Events(down[k]) \cup Events(tsos[k]) \cup {e} :
                m.id \in 1 .. MaxSpent /\ m.id <= spent'[m.fed]
        BY <1>1, <1>2, EventFacts
    <2>2. \A k \in Federate : /\ Events(down'[k]) \subseteq Events(down[k])
                              /\ Events(tsos'[k]) \subseteq Events(tsos[k]) \cup {e}
                              /\ Elems(tsos'[k]) \subseteq Elems(tsos[k]) \cup {e}
        BY <1>1
    <2> QED
        BY <1>1, <2>1, <2>2 DEF EventInvariant, EventsSpent
<1>5. ASSUME NEW k \in Federate PROVE Pending(k)' = Pending(k)
    BY <1>1 DEF Pending, InFlight
<1> QED
    BY <1>3, <1>4, <1>5 DEF EventInvariant

\* An event taken by f, or given to it, is pending at f no more.
LEMMA GivenMoves ==
    ASSUME TypeOK, PathInvariant, EventInvariant, NEW f \in Federate, NEW e,
           Taken(f, e) \/ Given(f, e)
    PROVE  /\ EventInvariant'
           /\ e \in Pending(f)
           /\ \A k \in Federate :
                 Pending(k)' = IF k = f THEN Pending(k) \ {e} ELSE Pending(k)
<1>1. /\ \A k \in Federate :
            /\ Events(up'[k]) = Events(up[k]) /\ (NoneTwice(up[k]) => NoneTwice(up'[k]))
            /\ spent[k] <= spent'[k] /\ spent'[k] \in Nat
            /\ k # f => /\ Events(down'[k]) = Events(down[k]) /\ tsos'[k] = tsos[k]
                        /\ NoneTwice(down[k]) => NoneTwice(down'[k])
      /\ NoneTwice(down[f]) => NoneTwice(down'[f])
      /\ NoneTwice(tsos[f]) => NoneTwice(tsos'[f])
      /\ e.kind = "EVENT" /\ Elems(tsos'[f]) \subseteq Elems(tsos[f])
      /\ \/ /\ Events(down[f]) = Events(down'[f]) \cup {e} /\ tsos'[f] = tsos[f]
            /\ NoneTwice(down[f]) => e \notin Events(down'[f])
         \/ /\ Events(tsos[f]) = Events(tsos'[f]) \cup {e} /\ Events(down'[f]) = Events(down[f])
            /\ NoneTwice(tsos[f]) => e \notin Events(tsos'[f])
    BY DEF Taken, Given, OnlyAt, KeepsEvents, LosesEvent
<1>2. /\ e \in Events(down[f]) \cup Events(tsos[f])
      /\ e \notin Events(down'[f]) \cup Events(tsos'[f])
      /\ \A k \in Federate : e \notin Events(up[k])
      /\ Events(down'[f]) = Events(down[f]) \ {e} /\ Events(tsos'[f]) = Events(tsos[f]) \ {e}
    BY <1>1 DEF EventInvariant, EventsOnce
<1>3. EventsOnce'
    <2>1. \A k \in Federate : NoneTwice(up[k])' /\ NoneTwice(down[k])' /\ NoneTwice(tsos[k])'
        BY <1>1 DEF EventInvariant, EventsOnce
    <2> QED
        BY <1>1, <1>2, <2>1 DEF EventInvariant, EventsOnce
<1>4. EventsSpent'
    <2>1. \A k \in Federate :
             \A m \in Events(up[k]) \cup Events(down[k]) \cup Events(tsos[k]) :
                m.id \in 1 .. MaxSpent /\ m.id <= spent'[m.fed]
        BY <1>1, EventFacts
    <2>2. \A k \in Federate : /\ Events(down'[k]) \subseteq Events(down[k])
                              /\ Events(tsos'[k]) \subseteq Events(tsos[k])
                              /\ Elems(tsos'[k]) \subseteq Elems(tsos[k])
        BY <1>1, <1>2
    <2> QED
        BY <1>1, <2>1, <2>2 DEF EventInvariant, EventsSpent
<1>5. ASSUME NEW k \in Federate
      PROVE  Pending(k)' = IF k = f THEN Pending(k) \ {e} ELSE Pending(k)
    <2>1. CASE k = f
        BY <1>1, <1>2, <2>1 DEF Pending, InFlight
    <2>2. CASE k # f
        BY <1>1, <2>2 DEF Pending, InFlight
    <2> QED
        BY <2>1, <2>2
<1>6. e \in Pending(f)
    BY <1>2 DEF Pending, InFlight
<1> QED
    BY <1>3, <1>4, <1>5, <1>6 DEF EventInvariant

-----------------------------------------------------------------------------
(* The steps of ConservativeTime. *)

\* What a step of TimeManagement must be.
Implements == EventInvariant' /\ [Abstract!Next]_(Abstract!vars)

\* A step that changes nothing ConservativeTime speaks of.
LEMMA Stutters ==
    ASSUME \A k \in Federate : Pending(k)' = Pending(k),
           UNCHANGED <<is_regulating, is_constrained, promised, horizon>>
    PROVE  UNCHANGED Abstract!vars
BY DEF Abstract!vars

\* The same of a step that moves no event.
LEMMA QuietStutters ==
    ASSUME TypeOK, PathInvariant, EventInvariant, Quiet,
           UNCHANGED <<is_regulating, is_constrained, promised, horizon>>
    PROVE  Implements
<1>1. EventInvariant' /\ \A k \in Federate : Pending(k)' = Pending(k)
    BY QuietMoves
<1> QED
    BY <1>1, Stutters DEF Implements

\* f alone promises something, and takes nothing back.
Promising(f) ==
    /\ promised'[f] \in Nat /\ promised[f] <= promised'[f]
    /\ promised' = [promised EXCEPT ![f] = promised'[f]]

\* A regulator promises more.
LEMMA PromiseStep ==
    ASSUME NEW f \in Federate, is_regulating[f], Promising(f),
           \A k \in Federate : Pending(k)' = Pending(k),
           UNCHANGED <<is_regulating, is_constrained, horizon>>
    PROVE  Abstract!Next
<1>1. Abstract!Promise(f)
    BY DEF Abstract!Promise, Abstract!Raise, Promising
<1> QED
    BY <1>1 DEF Abstract!Next

\* f is given an event in the order of the dates.
LEMMA DeliverStep ==
    ASSUME NEW f \in Federate, NEW e \in Event, is_constrained[f], e \in Pending(f),
           horizon[f] <= e.date, Abstract!Safe(f, e.date), Promising(f),
           \A k \in Federate : Pending(k)' = IF k = f THEN Pending(k) \ {e} ELSE Pending(k),
           horizon' = [horizon EXCEPT ![f] = e.date],
           UNCHANGED <<is_regulating, is_constrained>>
    PROVE  Abstract!Next
<1>1. [k \in Federate |-> Pending(k)]' =
         [[k \in Federate |-> Pending(k)] EXCEPT ![f] = @ \ {e}]
    OBVIOUS
<1>2. Abstract!Deliver(f, e)
    BY <1>1 DEF Abstract!Deliver, Abstract!Raise, Promising
<1> QED
    BY <1>2 DEF Abstract!Next

\* f is granted a date.
LEMMA GrantStep ==
    ASSUME NEW f \in Federate, NEW date \in Nat, horizon[f] <= date,
           is_constrained[f] => Abstract!Safe(f, date), Promising(f),
           \A k \in Federate : Pending(k)' = Pending(k),
           horizon \in [Federate -> Nat], horizon' = [horizon EXCEPT ![f] = date],
           UNCHANGED <<is_regulating, is_constrained>>
    PROVE  Abstract!Next
<1>1. horizon'[f] = date
    OBVIOUS
<1>2. Abstract!Grant(f)
    BY <1>1 DEF Abstract!Grant, Abstract!Raise, Promising
<1> QED
    BY <1>2 DEF Abstract!Next

\* A message at the end of the stream of f that is no event.
LEMMA SpeakQuiet ==
    ASSUME TypeOK, NEW f \in Federate, NEW m \in Message, m.kind # "EVENT",
           up' = [up EXCEPT ![f] = Append(@, m)],
           \A k \in Federate : spent'[k] \in Nat /\ spent[k] <= spent'[k],
           UNCHANGED <<down, tsos>>
    PROVE  Quiet
<1>1. \A k \in Federate : KeepsEvents(up[k], up'[k])
    BY AppendMoves, SameKeepsEvents DEF TypeOK
<1> QED
    BY <1>1, SameKeepsEvents DEF Quiet, OnlyAt

\* Nothing on a stream or in a queue.
LEMMA SilentQuiet ==
    ASSUME TypeOK, UNCHANGED <<up, down, tsos, spent>>
    PROVE  Quiet
<1>1. \A k \in Federate : spent'[k] \in Nat /\ spent[k] <= spent'[k]
    BY DEF TypeOK
<1> QED
    BY <1>1, SameKeepsEvents DEF Quiet, OnlyAt

\* A NULL message, or none: nothing moves, and a regulator may promise more.
LEMMA NullPromises ==
    ASSUME TypeOK, NEW f \in Federate, NEW date \in Nat, NEW lookahead \in Nat,
           SendNullIfRegulating(f, date, lookahead)
    PROVE  /\ \A k \in Federate : KeepsEvents(up[k], up'[k])
           /\ Promising(f)
           /\ ~ is_regulating[f] => UNCHANGED promised
<1>1. promised[f] \in Nat /\ promised \in [Federate -> Nat]
    BY DEF TypeOK
<1>2. CASE UNCHANGED promiseVars
    BY <1>1, <1>2, SameKeepsEvents DEF promiseVars, Promising
<1>3. CASE is_regulating[f] /\ ~ UNCHANGED promiseVars
    <2>1. PICK p : p = date + lookahead
        OBVIOUS
    <2>2. PICK m : m = Msg("NULL", f, p)
        OBVIOUS
    <2>3. p \in Nat /\ m \in Message /\ m.kind # "EVENT"
        BY <2>1, <2>2, MsgType DEF Msg, Kinds
    <2>4. /\ up' = [up EXCEPT ![f] = Append(@, m)]
          /\ promised' = [promised EXCEPT ![f] = Later(@, p)]
        BY <1>3, <2>1, <2>2 DEF SendNullIfRegulating, SendNullMessage
    <2>5. \A k \in Federate : KeepsEvents(up[k], up'[k])
        BY <2>3, <2>4, AppendMoves, SameKeepsEvents DEF TypeOK
    <2>6. Later(promised[f], p) \in Nat /\ promised[f] <= Later(promised[f], p)
        BY <1>1, <2>3 DEF Later
    <2>7. promised'[f] = Later(promised[f], p)
        BY <1>1, <2>4
    <2>8. Promising(f)
        BY <2>4, <2>6, <2>7 DEF Promising
    <2> QED
        BY <1>3, <2>5, <2>8
<1> QED
    BY <1>2, <1>3 DEF SendNullIfRegulating

\* A NULL message alone is a promise.
LEMMA NullStep ==
    ASSUME TypeOK, PathInvariant, EventInvariant, NEW f \in Federate,
           NEW date \in Nat, NEW lookahead \in Nat, SendNullIfRegulating(f, date, lookahead),
           UNCHANGED <<down, tsos, spent, is_regulating, is_constrained, horizon>>
    PROVE  Implements
<1>1. /\ \A k \in Federate : KeepsEvents(up[k], up'[k])
      /\ Promising(f)
      /\ ~ is_regulating[f] => UNCHANGED promised
    BY NullPromises
<1>2. \A k \in Federate : spent'[k] \in Nat /\ spent[k] <= spent'[k]
    BY DEF TypeOK
<1>3. Quiet
    BY <1>1, <1>2, SameKeepsEvents DEF Quiet, OnlyAt
<1>4. EventInvariant' /\ \A k \in Federate : Pending(k)' = Pending(k)
    BY <1>3, QuietMoves
<1>5. CASE is_regulating[f]
    BY <1>1, <1>4, <1>5, PromiseStep DEF Implements
<1>6. CASE ~ is_regulating[f]
    BY <1>1, <1>4, <1>6, Stutters DEF Implements
<1> QED
    BY <1>5, <1>6

-----------------------------------------------------------------------------
(* What the federates ask for. *)

\* The events pending at f are events that ConservativeTime knows.
LEMMA PendingTypes ==
    ASSUME SafetyInvariant, EventInvariant, NEW f \in Federate, NEW e \in Pending(f)
    PROVE  e \in Event /\ e.date \in Nat
<1> USE DEF SafetyInvariant
<1>1. PICK k \in Federate : e \in Events(up[k]) \cup Events(down[k]) \cup Events(tsos[k])
    BY DEF Pending, InFlight
<1>2. e \in Message /\ e.kind = "EVENT"
    BY <1>1, EventsElems, StreamTypes
<1>3. e.id \in 1 .. MaxSpent
    BY <1>1, EventFacts
<1>4. e.date \in Times
    <2>1. CASE e \in Events(tsos[k])
        BY <2>1, EventsElems DEF FederateInvariant, Queue
    <2>2. CASE e \in Events(up[k]) \cup Events(down[k])
        BY <2>2, EventsElems DEF PathInvariant, MessagesHold, Genuine
    <2> QED
        BY <1>1, <2>1, <2>2
<1> QED
    BY <1>2, <1>3, <1>4 DEF Event, Message

\* A federate that has not started has been granted nothing.
LEMMA NothingBeforeStart ==
    ASSUME SafetyInvariant, NEW f \in Federate, phase[f] = "starting"
    PROVE  \A k \in Federate : horizon[k] = 0
<1>1. f \in unsynchronized
    BY DEF SafetyInvariant, PathInvariant, StartupHolds
<1>2. ASSUME NEW k \in Federate PROVE ~ Started(k)
    BY <1>1 DEF SafetyInvariant, PathInvariant, StartupHolds, Synced, Started
<1> QED
    BY <1>2 DEF SafetyInvariant, FederateInvariant, Local

\* What a federate has spent only grows.
LEMMA SpendGrows ==
    ASSUME TypeOK, NEW f \in Federate, NEW cost \in Nat, Spend(f, cost)
    PROVE  \A k \in Federate : spent'[k] \in Nat /\ spent[k] <= spent'[k]
<1>1. spent \in [Federate -> Nat] /\ spent' = [spent EXCEPT ![f] = spent[f] + cost]
    BY DEF TypeOK, Spend
<1>2. spent'[f] = spent[f] + cost /\ \A k \in Federate \ {f} : spent'[k] = spent[k]
    BY <1>1
<1>3. spent[f] + cost \in Nat /\ spent[f] <= spent[f] + cost
    BY <1>1
<1> QED
    BY <1>1, <1>2, <1>3

\* Time regulation on and off.
LEMMA SetTimeRegulatingImplements ==
    ASSUME SafetyInvariant, EventInvariant, Disciplined, NEW f \in Federate,
           NEW etat \in BOOLEAN, NEW lookahead \in Nat, SetTimeRegulating(f, etat, lookahead)
    PROVE  Implements
<1> USE DEF SafetyInvariant
<1>1. PICK m : m = Msg(IF etat THEN "REGULATOR_ON" ELSE "REGULATOR_OFF", f,
                       heure_courante[f] + lookahead)
    OBVIOUS
<1>2. heure_courante[f] + lookahead \in Nat /\ promised \in [Federate -> Nat]
    BY DEF TypeOK
<1>3. m \in Message /\ m.kind # "EVENT"
    BY <1>1, <1>2, MsgType DEF Msg, Kinds
<1>4. up' = [up EXCEPT ![f] = Append(@, m)] /\ UNCHANGED <<down, tsos, is_constrained, horizon>>
    BY <1>1 DEF SetTimeRegulating, queueVars
<1>5. \A k \in Federate : spent'[k] \in Nat /\ spent[k] <= spent'[k]
    <2>1. Spend(f, IF etat /\ phase[f] # "starting" THEN 1 ELSE 0)
        BY DEF SetTimeRegulating
    <2> QED
        BY <2>1, SpendGrows
<1>6. Quiet
    BY <1>3, <1>4, <1>5, SpeakQuiet
<1>7. EventInvariant' /\ \A k \in Federate : Pending(k)' = Pending(k)
    BY <1>6, QuietMoves
<1>8. [k \in Federate |-> Pending(k)]' = [k \in Federate |-> Pending(k)]
    BY <1>7
<1>9. is_regulating' = [is_regulating EXCEPT ![f] = etat] /\ is_regulating[f] # etat
      /\ is_regulating \in [Federate -> BOOLEAN]
    BY DEF SetTimeRegulating, TypeOK
<1>10. CASE etat
    <2>1. phase[f] = "starting"
        BY <1>10 DEF SetTimeRegulating, MayEnable, Disciplined
    <2>2. promised' = [promised EXCEPT ![f] = heure_courante[f] + lookahead]
        BY <1>10 DEF SetTimeRegulating
    <2>3. promised'[f] = heure_courante[f] + lookahead
        BY <1>2, <2>2
    <2>4. \A k \in Federate : horizon[k] <= promised'[f]
        BY <1>2, <2>1, <2>3, NothingBeforeStart
    <2>5. f \notin {k \in Federate : is_regulating[k]}
        BY <1>9, <1>10
    <2>6. {k \in Federate : is_regulating[k]}' = {k \in Federate : is_regulating[k]} \cup {f}
        BY <1>9, <1>10
    <2>7. Abstract!Regulate(f)
        BY <1>2, <1>4, <1>8, <2>2, <2>3, <2>4, <2>5, <2>6 DEF Abstract!Regulate
    <2> QED
        BY <1>7, <2>7 DEF Abstract!Next, Implements
<1>11. CASE ~ etat
    <2>1. promised' = promised
        BY <1>2, <1>11 DEF SetTimeRegulating
    <2>2. {k \in Federate : is_regulating[k]}' = {k \in Federate : is_regulating[k]} \ {f}
        BY <1>9, <1>11
    <2>3. Abstract!Unregulate(f)
        BY <1>4, <1>8, <2>1, <2>2 DEF Abstract!Unregulate
    <2> QED
        BY <1>7, <2>3 DEF Abstract!Next, Implements
<1> QED
    BY <1>10, <1>11

\* Time constraint on and off.
LEMMA SetTimeConstrainedImplements ==
    ASSUME SafetyInvariant, EventInvariant, Disciplined, NEW f \in Federate,
           NEW etat \in BOOLEAN, SetTimeConstrained(f, etat)
    PROVE  Implements
<1> USE DEF SafetyInvariant
<1>1. PICK m : m = Msg(IF etat THEN "CONSTRAINED_ON" ELSE "CONSTRAINED_OFF", f, 0)
    OBVIOUS
<1>2. m \in Message /\ m.kind # "EVENT"
    BY <1>1, MsgType DEF Msg, Kinds
<1>3. /\ up' = [up EXCEPT ![f] = Append(@, m)]
      /\ UNCHANGED <<down, tsos, is_regulating, promised, horizon>>
    BY <1>1 DEF SetTimeConstrained, queueVars
<1>4. \A k \in Federate : spent'[k] \in Nat /\ spent[k] <= spent'[k]
    <2>1. Spend(f, IF etat /\ phase[f] = "starting" THEN 0 ELSE 1)
        BY DEF SetTimeConstrained
    <2> QED
        BY <2>1, SpendGrows
<1>5. Quiet
    BY <1>2, <1>3, <1>4, SpeakQuiet
<1>6. EventInvariant' /\ \A k \in Federate : Pending(k)' = Pending(k)
    BY <1>5, QuietMoves
<1>7. [k \in Federate |-> Pending(k)]' = [k \in Federate |-> Pending(k)]
    BY <1>6
<1>8. is_constrained' = [is_constrained EXCEPT ![f] = etat]
      /\ is_constrained \in [Federate -> BOOLEAN]
    BY DEF SetTimeConstrained, TypeOK
<1>9. CASE etat
    <2>1. phase[f] = "starting"
        BY <1>9 DEF SetTimeConstrained, MayEnable, Disciplined
    <2>2. horizon[f] = 0
        BY <2>1, NothingBeforeStart
    <2>3. \A e \in Pending(f) : e.date \in Nat
        BY PendingTypes
    <2>4. Abstract!Safe(f, horizon[f])
        BY <2>2, <2>3 DEF Abstract!Safe, TypeOK
    <2>5. {k \in Federate : is_constrained[k]}' = {k \in Federate : is_constrained[k]} \cup {f}
        BY <1>8, <1>9
    <2>6. Abstract!Constrain(f)
        BY <1>3, <1>7, <2>4, <2>5 DEF Abstract!Constrain
    <2> QED
        BY <1>6, <2>6 DEF Abstract!Next, Implements
<1>10. CASE ~ etat
    <2>1. {k \in Federate : is_constrained[k]}' = {k \in Federate : is_constrained[k]} \ {f}
        BY <1>8, <1>10
    <2>2. Abstract!Unconstrain(f)
        BY <1>3, <1>7, <2>1 DEF Abstract!Unconstrain
    <2> QED
        BY <1>6, <2>2 DEF Abstract!Next, Implements
<1> QED
    BY <1>9, <1>10

\* A dated event, or a dated deletion.
LEMMA SendImplements ==
    ASSUME SafetyInvariant, EventInvariant, Disciplined, NEW f \in Federate, NEW date \in Times,
           SendDated(f, date) \/ DeleteObject(f, date)
    PROVE  Implements
<1> USE DEF SafetyInvariant
<1>1. /\ CanSpend(f) /\ SendEvent(f, "EVENT", date)
      /\ MaySendDated(f) /\ TestValidTime(f, date)
    BY DEF SendDated, DeleteObject, MayDelete, MaySendDated, Disciplined
<1>2. is_regulating[f] /\ promised[f] <= date
    BY <1>1, ValidTimeRespects
<1>3. spent[f] \in Nat /\ date \in Nat
    BY TimesAssumption DEF TypeOK
<1>4. PICK n : n = spent[f] + 1
    OBVIOUS
<1>5. n \in 1 .. MaxSpent /\ n \in Nat /\ spent[f] <= n
    BY <1>1, <1>3, <1>4, RolesAssumption DEF CanSpend
<1>6. PICK e : e = [kind |-> "EVENT", fed |-> f, date |-> date, id |-> n]
    OBVIOUS
<1>7. /\ e \in Event /\ e \in Message /\ e.kind = "EVENT" /\ e.fed = f /\ e.date = date
      /\ e.id = n
    BY <1>3, <1>5, <1>6 DEF Event, Message, Kinds
<1>8. /\ up' = [up EXCEPT ![f] = Append(@, e)] /\ spent' = [spent EXCEPT ![f] = n]
      /\ UNCHANGED <<down, tsos, is_regulating, is_constrained, promised, horizon>>
    BY <1>1, <1>4, <1>6 DEF SendEvent, queueVars, roleVars
<1>9. Sent(f, e)
    <2>1. \A k \in Federate \ {f} : KeepsEvents(up[k], up'[k])
        BY <1>8, SameKeepsEvents DEF TypeOK
    <2>2. GainsEvent(up[f], up'[f], e)
        BY <1>7, <1>8, AppendMoves DEF TypeOK
    <2>3. \A k \in Federate : spent'[k] \in Nat /\ spent[k] <= spent'[k]
        <3>1. spent'[f] = n /\ \A k \in Federate \ {f} : spent'[k] = spent[k]
            BY <1>8 DEF TypeOK
        <3>2. \A k \in Federate : spent[k] \in Nat
            BY DEF TypeOK
        <3> QED
            BY <1>5, <3>1, <3>2
    <2>4. spent'[f] = n
        BY <1>8 DEF TypeOK
    <2>5. OnlyAt({f}, {}, {})
        BY <1>8, <2>1, <2>3, SameKeepsEvents DEF OnlyAt
    <2> QED
        BY <1>4, <1>5, <1>7, <2>2, <2>4, <2>5 DEF Sent
<1>10. /\ EventInvariant'
       /\ \A k \in Federate : Pending(k)' = IF k = f THEN Pending(k) ELSE Pending(k) \cup {e}
    BY <1>9, SentMoves
<1>11. Abstract!Send(f, e)
    BY <1>2, <1>7, <1>8, <1>10 DEF Abstract!Send
<1> QED
    BY <1>7, <1>10, <1>11 DEF Abstract!Next, Implements

\* The requests of a disciplined federate.
LEMMA RequestsImplement ==
    ASSUME SafetyInvariant, EventInvariant, Disciplined, NEW f \in Federate, Request(f)
    PROVE  Implements
<1> USE DEF SafetyInvariant
<1>1. /\ Times \subseteq Nat /\ Lookaheads \subseteq Nat
      /\ heure_courante[f] \in Nat /\ lookahead_courant[f] \in Nat /\ RequestLookahead(f) \in Nat
    BY TimesAssumption, LookaheadsAssumption, FederateTypes DEF RequestLookahead
<1>2. CASE \/ \E lookahead \in Lookaheads : SetTimeRegulating(f, TRUE, lookahead)
           \/ SetTimeRegulating(f, FALSE, 0)
    BY <1>1, <1>2, SetTimeRegulatingImplements
<1>3. CASE \E etat \in BOOLEAN : SetTimeConstrained(f, etat)
    BY <1>3, SetTimeConstrainedImplements
<1>4. CASE \E lookahead \in Lookaheads : SetLookahead(f, lookahead)
    BY <1>1, <1>4, NullStep DEF SetLookahead, roleVars, queueVars
<1>5. CASE \/ \E date \in Times : TimeAdvanceRequest(f, date)
           \/ \E date \in Times : TimeAdvanceRequestAvailable(f, date)
    BY <1>1, <1>5, NullStep
        DEF TimeAdvanceRequest, TimeAdvanceRequestAvailable, BeginAdvance, roleVars, queueVars
<1>6. CASE \E date \in Times : NextEventRequest(f, date)
    BY <1>6, SilentQuiet, QuietStutters
        DEF NextEventRequest, BeginAdvance, roleVars, queueVars, promiseVars
<1>7. CASE \E date \in Times : SendDated(f, date) \/ DeleteObject(f, date)
    BY <1>7, SendImplements
<1>8. CASE SendReceiveOrder(f)
    <2>1. PICK m : m = [kind |-> "RECEIVE_ORDER", fed |-> f, date |-> 0, id |-> spent[f] + 1]
        OBVIOUS
    <2>2. spent[f] + 1 \in Nat
        BY DEF TypeOK
    <2>3. m \in Message /\ m.kind # "EVENT"
        BY <2>1, <2>2 DEF Message, Kinds
    <2>4. /\ up' = [up EXCEPT ![f] = Append(@, m)] /\ Spend(f, 1)
          /\ UNCHANGED <<down, tsos, is_regulating, is_constrained, promised, horizon>>
        BY <1>8, <2>1 DEF SendReceiveOrder, SendEvent, Spend, queueVars, roleVars
    <2> QED
        BY <2>3, <2>4, SpendGrows, SpeakQuiet, QuietStutters
<1>9. CASE SynchronizationPointAchieved(f)
    <2>1. PICK m : m = Msg("ACHIEVED", f, 0)
        OBVIOUS
    <2>2. m \in Message /\ m.kind # "EVENT"
        BY <2>1, MsgType DEF Msg, Kinds
    <2>3. /\ up' = [up EXCEPT ![f] = Append(@, m)]
          /\ UNCHANGED <<down, tsos, spent, is_regulating, is_constrained, promised, horizon>>
        BY <1>9, <2>1 DEF SynchronizationPointAchieved, queueVars, roleVars
    <2>4. \A k \in Federate : spent'[k] \in Nat /\ spent[k] <= spent'[k]
        BY <2>3 DEF TypeOK
    <2> QED
        BY <2>2, <2>3, <2>4, SpeakQuiet, QuietStutters
<1>10. ~ \E date \in Times : NextEventRequestAvailable(f, date)
    BY DEF NextEventRequestAvailable, Disciplined
<1> QED
    BY <1>2, <1>3, <1>4, <1>5, <1>6, <1>7, <1>8, <1>9, <1>10 DEF Request

-----------------------------------------------------------------------------
(* What a tick does. *)

\* The LBTS and the TSO queue of a started federate say what is safe: no clock is
\* above its regulator's promise, nor above an event of that regulator in flight.
LEMMA ReachedIsSafe ==
    ASSUME SafetyInvariant, EventInvariant, NEW f \in Federate, Started(f), NEW date \in Nat,
           AtMost(date, clocks[f], f), \A m \in Elems(tsos[f]) : date <= m.date
    PROVE  Abstract!Safe(f, date)
<1> USE DEF SafetyInvariant
<1>1. \A g \in Others(clocks[f], f) : clocks[f][g] \in Nat
    BY FederateTypes
<1>2. ASSUME NEW e \in Pending(f) PROVE date <= e.date
    <2>1. CASE e \in Events(tsos[f])
        BY <2>1, EventsElems
    <2>2. CASE e \in InFlight(f)
        <3>1. e.kind = "EVENT" /\ e.fed \in Federate \ {f} /\ e \in Path(f, e.fed) /\ e.date \in Nat
            BY <2>2, InFlightOnPath
        <3>2. e.fed \in Others(clocks[f], f) /\ clocks[f][e.fed] <= e.date
            BY <3>1, StartedKnows DEF Others
        <3>3. date <= clocks[f][e.fed]
            BY <3>2 DEF AtMost
        <3> QED
            BY <1>1, <3>1, <3>2, <3>3
    <2> QED
        BY <2>1, <2>2 DEF Pending
<1>3. ASSUME NEW g \in Federate \ {f}, is_regulating[g] PROVE date <= promised[g]
    <2>1. g \in Others(clocks[f], f)
        BY <1>3, StartedKnows DEF Others
    <2>2. clocks[f][g] <= promised[g] /\ promised[g] \in Nat
        BY <2>1 DEF PathInvariant, ClocksHold, Others, TypeOK
    <2>3. date <= clocks[f][g]
        BY <2>1 DEF AtMost
    <2> QED
        BY <1>1, <2>1, <2>2, <2>3
<1> QED
    BY <1>2, <1>3 DEF Abstract!Safe

\* The first message of the TSO queue is given to f.
LEMMA TsoStep ==
    ASSUME SafetyInvariant, EventInvariant, NEW f \in Federate, Started(f), is_constrained[f],
           tsos[f] # <<>>, AtMost(Head(tsos[f]).date, clocks[f], f), DeliverTso(f),
           Promising(f), \A k \in Federate : KeepsEvents(up[k], up'[k]),
           UNCHANGED <<down, spent, clocks, is_regulating, is_constrained>>
    PROVE  Implements
<1> USE DEF SafetyInvariant
<1>1. PICK h : h = Head(tsos[f])
    OBVIOUS
<1>2. /\ h \in Elems(tsos[f]) /\ \A m \in Elems(tsos[f]) : h.date <= m.date
      /\ Elems(Tail(tsos[f])) \subseteq Elems(tsos[f])
    BY <1>1, HeadIsEarliest DEF FederateInvariant
<1>3. h.kind = "EVENT" /\ horizon[f] <= h.date /\ h.date \in Nat /\ horizon[f] \in Nat
    BY <1>2, FederateTypes DEF EventInvariant, EventsSpent, FederateInvariant, Queue
<1>4. /\ tsos' = [tsos EXCEPT ![f] = Tail(@)]
      /\ horizon' = [horizon EXCEPT ![f] = Later(horizon[f], h.date)]
    BY <1>1 DEF DeliverTso
<1>5. horizon' = [horizon EXCEPT ![f] = h.date]
    <2>1. Later(horizon[f], h.date) = h.date
        BY <1>3 DEF Later
    <2> QED
        BY <1>4, <2>1
<1>6. Given(f, h)
    <2>1. LosesEvent(tsos[f], tsos'[f], h)
        BY <1>1, <1>3, <1>4, TailMoves DEF TypeOK
    <2>2. tsos'[f] = Tail(tsos[f]) /\ \A k \in Federate \ {f} : tsos'[k] = tsos[k]
        BY <1>4 DEF TypeOK
    <2>3. \A k \in Federate : spent'[k] \in Nat /\ spent[k] <= spent'[k]
        BY DEF TypeOK
    <2> QED
        BY <1>2, <2>1, <2>2, <2>3, SameKeepsEvents DEF Given, OnlyAt
<1>7. /\ EventInvariant' /\ h \in Pending(f)
      /\ \A k \in Federate : Pending(k)' = IF k = f THEN Pending(k) \ {h} ELSE Pending(k)
    BY <1>6, GivenMoves
<1>8. h \in Event
    BY <1>7, PendingTypes
<1>9. Abstract!Safe(f, h.date)
    BY <1>1, <1>2, <1>3, ReachedIsSafe
<1>10. Abstract!Next
    BY <1>3, <1>5, <1>7, <1>8, <1>9, DeliverStep
<1> QED
    BY <1>7, <1>10 DEF Implements

\* An advance ends with a grant.
LEMMA AdvanceGrants ==
    ASSUME SafetyInvariant, EventInvariant, NEW f \in Federate, Started(f), NEW date \in Nat,
           horizon[f] <= date, TimeAdvanceGrant(f, date), Promising(f),
           is_constrained[f] => /\ AtMost(date, clocks[f], f)
                                /\ \A m \in Elems(tsos[f]) : date <= m.date,
           \A k \in Federate : KeepsEvents(up[k], up'[k]),
           UNCHANGED <<down, spent, is_regulating, is_constrained>>
    PROVE  Implements
<1> USE DEF SafetyInvariant
<1>1. horizon \in [Federate -> Nat] /\ horizon[f] \in Nat
    BY DEF TypeOK
<1>2. horizon' = [horizon EXCEPT ![f] = Later(horizon[f], date)] /\ UNCHANGED tsos
    BY DEF TimeAdvanceGrant
<1>3. horizon' = [horizon EXCEPT ![f] = date]
    <2>1. Later(horizon[f], date) = date
        BY <1>1 DEF Later
    <2> QED
        BY <1>2, <2>1
<1>4. is_constrained[f] => Abstract!Safe(f, date)
    BY ReachedIsSafe
<1>5. Quiet
    <2>1. \A k \in Federate : spent'[k] \in Nat /\ spent[k] <= spent'[k]
        BY DEF TypeOK
    <2> QED
        BY <1>2, <2>1, SameKeepsEvents DEF Quiet, OnlyAt
<1>6. EventInvariant' /\ \A k \in Federate : Pending(k)' = Pending(k)
    BY <1>5, QuietMoves
<1>7. Abstract!Next
    BY <1>1, <1>3, <1>4, <1>6, GrantStep
<1> QED
    BY <1>6, <1>7 DEF Implements

\* timeAdvance gives an event or grants the date asked for.
LEMMA TimeAdvanceImplements ==
    ASSUME SafetyInvariant, EventInvariant, NEW f \in Federate,
           TimeAdvanceTso(f) \/ TimeAdvanceDone(f)
    PROVE  Implements
<1> USE DEF SafetyInvariant
<1>1. /\ avancee_en_cours[f] \in {"TAR", "TARA"} /\ UNCHANGED promiseVars
      /\ UNCHANGED <<down, spent, clocks, is_regulating, is_constrained>>
    BY DEF TimeAdvanceTso, TimeAdvanceDone, Advancing, TickFrame, roleVars
<1>2. FederateInvariant(f) /\ horizon[f] \in Nat /\ date_avancee[f] \in Nat /\ promised[f] \in Nat
    BY FederateTypes
<1>3. Started(f) /\ horizon[f] <= date_avancee[f]
    BY <1>1, <1>2 DEF FederateInvariant, Local, Idle, EventBase
<1>4. Promising(f) /\ \A k \in Federate : KeepsEvents(up[k], up'[k])
    BY <1>1, <1>2, SameKeepsEvents DEF promiseVars, Promising, TypeOK
<1>5. CASE TimeAdvanceTso(f)
    <2>1. /\ is_constrained[f] /\ tsos[f] # <<>>
          /\ AtMost(Head(tsos[f]).date, clocks[f], f) /\ DeliverTso(f)
        BY <1>5 DEF TimeAdvanceTso, HasTso
    <2> QED
        BY <1>1, <1>3, <1>4, <2>1, TsoStep
<1>6. CASE TimeAdvanceDone(f)
    <2>1. TimeAdvanceGrant(f, date_avancee[f])
        BY <1>6 DEF TimeAdvanceDone
    <2>2. ASSUME is_constrained[f]
          PROVE  /\ AtMost(date_avancee[f], clocks[f], f)
                 /\ \A m \in Elems(tsos[f]) : date_avancee[f] <= m.date
        <3>1. LbtsAllows(f, date_avancee[f])
              /\ ~ (HasTso(f, date_avancee[f]) /\ AtMost(Head(tsos[f]).date, clocks[f], f))
            BY <1>6, <2>2 DEF TimeAdvanceDone
        <3>2. \A g \in Others(clocks[f], f) : clocks[f][g] \in Nat
            BY FederateTypes
        <3>3. AtMost(date_avancee[f], clocks[f], f)
            BY <1>2, <3>1, <3>2 DEF LbtsAllows, Below, AtMost
        <3>4. CASE tsos[f] = <<>>
            <4>1. Elems(tsos[f]) = {}
                BY <3>4 DEF Elems
            <4> QED
                BY <3>3, <4>1
        <3>5. CASE tsos[f] # <<>>
            <4>1. PICK h : h = Head(tsos[f])
                OBVIOUS
            <4>2. h \in Elems(tsos[f]) /\ \A m \in Elems(tsos[f]) : h.date <= m.date
                BY <1>2, <3>5, <4>1, HeadIsEarliest DEF FederateInvariant
            <4>3. \A m \in Elems(tsos[f]) : m.date \in Nat
                BY FederateTypes
            <4>4. date_avancee[f] < h.date
                BY <1>2, <3>1, <3>2, <3>3, <3>5, <4>1, <4>2, <4>3 DEF HasTso, AtMost
            <4> QED
                BY <1>2, <3>3, <4>2, <4>3, <4>4
        <3> QED
            BY <3>4, <3>5
    <2> QED
        BY <1>1, <1>2, <1>3, <1>4, <2>1, <2>2, AdvanceGrants
<1> QED
    BY <1>5, <1>6

\* nextEventAdvance gives an event, grants a date or promises what it can.
LEMMA NextEventImplements ==
    ASSUME SafetyInvariant, EventInvariant, NEW f \in Federate,
           NextEventReached(f) \/ NextEventShort(f) \/ NextEventFree(f)
    PROVE  Implements
<1> USE DEF SafetyInvariant
<1>1. /\ avancee_en_cours[f] \in {"NER", "NERA"}
      /\ UNCHANGED <<down, spent, clocks, is_regulating, is_constrained>>
    BY DEF NextEventReached, NextEventShort, NextEventFree, Advancing, TickFrame, roleVars
<1>2. FederateInvariant(f) /\ Queue(f) /\ horizon[f] \in Nat /\ lookahead_courant[f] \in Nat
    BY FederateTypes DEF FederateInvariant
<1>3. /\ Started(f) /\ horizon[f] <= date_avancee[f]
      /\ date_avancee[f] \in Times /\ date_avancee[f] \in Nat
    BY <1>1, <1>2, FederateTypes DEF FederateInvariant, Local, Idle, EventBase
<1>4. \A g \in Others(clocks[f], f) : clocks[f][g] \in Nat
    BY FederateTypes
<1>5. CASE NextEventReached(f)
    <2>1. PICK dm : dm = DateMin(f)
        OBVIOUS
    <2>2. /\ is_constrained[f] /\ LbtsAllows(f, dm)
          /\ SendNullIfRegulating(f, dm, lookahead_courant[f])
          /\ IF HasTso(f, dm) THEN DeliverTso(f) ELSE TimeAdvanceGrant(f, dm)
        BY <1>5, <2>1 DEF NextEventReached
    <2>3. /\ dm \in Nat /\ \A m \in Elems(tsos[f]) : dm <= m.date
          /\ dm = date_avancee[f] \/ \E m \in Elems(tsos[f]) : dm = m.date
          /\ HasTso(f, dm) => tsos[f] # <<>> /\ Head(tsos[f]).date = dm
        BY <1>2, <1>3, <2>1, DateMinFacts
    <2>4. AtMost(dm, clocks[f], f)
        BY <1>4, <2>2, <2>3 DEF LbtsAllows, Below, AtMost
    <2>5. horizon[f] <= dm
        BY <1>2, <1>3, <2>2, <2>3 DEF Queue
    <2>6. Promising(f) /\ \A k \in Federate : KeepsEvents(up[k], up'[k])
        BY <1>2, <2>2, <2>3, NullPromises
    <2>7. CASE HasTso(f, dm)
        BY <1>1, <1>3, <2>2, <2>3, <2>4, <2>6, <2>7, TsoStep
    <2>8. CASE ~ HasTso(f, dm)
        BY <1>1, <1>3, <2>2, <2>3, <2>4, <2>5, <2>6, <2>8, AdvanceGrants
    <2> QED
        BY <2>7, <2>8
<1>6. CASE NextEventShort(f)
    <2>1. PICK g \in Others(clocks[f], f) :
             SendNullIfRegulating(f, clocks[f][g], lookahead_courant[f])
        BY <1>6 DEF NextEventShort, SendNullIfRegulating
    <2>2. UNCHANGED <<tsos, horizon>>
        BY <1>6 DEF NextEventShort
    <2> QED
        BY <1>1, <1>2, <1>4, <2>1, <2>2, NullStep
<1>7. CASE NextEventFree(f)
    <2>1. /\ ~ is_constrained[f] /\ TimeAdvanceGrant(f, date_avancee[f])
          /\ SendNullIfRegulating(f, date_avancee[f], lookahead_courant[f])
        BY <1>7 DEF NextEventFree
    <2>2. Promising(f) /\ \A k \in Federate : KeepsEvents(up[k], up'[k])
        BY <1>2, <1>3, <2>1, NullPromises
    <2> QED
        BY <1>1, <1>3, <2>1, <2>2, AdvanceGrants
<1> QED
    BY <1>5, <1>6, <1>7

\* A tick, whatever it gives.
LEMMA TickImplements ==
    ASSUME SafetyInvariant, EventInvariant, NEW f \in Federate, Tick(f)
    PROVE  Implements
<1>1. CASE DeliverCommand(f) \/ DeliverFifo(f)
    BY <1>1, SilentQuiet, QuietStutters
        DEF DeliverCommand, DeliverFifo, roleVars, promiseVars, SafetyInvariant
<1> QED
    BY <1>1, TimeAdvanceImplements, NextEventImplements DEF Tick

-----------------------------------------------------------------------------
(* The RTIG and the RTIA relay. *)

\* The RTIG changes nothing ConservativeTime speaks of.
LEMMA RtigImplements ==
    ASSUME SafetyInvariant, EventInvariant, NEW g \in Federate, Rtig(g)
    PROVE  Implements
<1> USE DEF SafetyInvariant
<1>1. PICK h : h = Head(up[g])
    OBVIOUS
<1>2. /\ up[g] # <<>> /\ up' = [up EXCEPT ![g] = Tail(@)]
      /\ UNCHANGED <<tsos, spent, is_regulating, is_constrained, promised, horizon>>
    BY DEF Rtig, UpdateRegulator, AddRegulator, RemoveRegulator, SetConstrained, Broadcast,
        UnregisterSynchronization, Takes, roleVars, queueVars
<1>3. /\ up'[g] = Tail(up[g]) /\ \A k \in Federate \ {g} : up'[k] = up[k]
      /\ up[g] \in Seq(Message) /\ \A k \in Federate : down[k] \in Seq(Message)
      /\ \A k \in Federate : spent'[k] \in Nat /\ spent[k] <= spent'[k]
    BY <1>2 DEF TypeOK
<1>4. CASE h.kind = "EVENT"
    <2>1. down' = [k \in Federate |-> IF k = g THEN down[k] ELSE Append(down[k], h)]
        BY <1>1, <1>4 DEF Rtig, UpdateRegulator, AddRegulator, RemoveRegulator, SetConstrained,
            Broadcast, UnregisterSynchronization, Takes, RespondToOthers
    <2>2. LosesEvent(up[g], up'[g], h)
        BY <1>1, <1>2, <1>3, <1>4, TailMoves
    <2>3. \A k \in Federate \ {g} : GainsEvent(down[k], down'[k], h)
        BY <1>3, <1>4, <2>1, AppendMoves
    <2>4. Relayed(g, h)
        BY <1>2, <1>3, <2>1, <2>2, <2>3, SameKeepsEvents DEF Relayed, OnlyAt
    <2>5. EventInvariant' /\ \A k \in Federate : Pending(k)' = Pending(k)
        BY <2>4, RelayedMoves
    <2> QED
        BY <1>2, <2>5, Stutters DEF Implements
<1>5. CASE h.kind # "EVENT"
    <2>1. \A k \in Federate : KeepsEvents(down[k], down'[k])
        <3> SUFFICES ASSUME NEW k \in Federate PROVE KeepsEvents(down[k], down'[k])
            OBVIOUS
        <3>1. CASE down'[k] = down[k]
            BY <3>1, SameKeepsEvents
        <3>2. ASSUME NEW m, m.kind # "EVENT", down'[k] = Append(down[k], m)
              PROVE  KeepsEvents(down[k], down'[k])
            BY <1>3, <3>2, AppendMoves
        <3>3. ASSUME NEW kind \in Kinds \ {"EVENT"}, NEW date,
                     down'[k] = Append(down[k], Msg(kind, g, date))
              PROVE  KeepsEvents(down[k], down'[k])
            <4>1. Msg(kind, g, date).kind # "EVENT"
                BY DEF Msg
            <4> QED
                BY <3>2, <3>3, <4>1
        <3>4. CASE UpdateRegulator(g) \/ RemoveRegulator(g) \/ Broadcast(g)
            BY <1>1, <1>5, <3>1, <3>2, <3>4
                DEF UpdateRegulator, RemoveRegulator, Broadcast, RespondToOthers, RespondToAll
        <3>5. CASE AddRegulator(g)
            <4>1. PICK n : n = Msg("REGULATION_ENABLED", g, h.date)
                OBVIOUS
            <4>2. \/ down'[k] = Append(down[k], h)
                  \/ down'[k] = down[k] \o <<h, n>>
                BY <1>1, <3>5, <4>1 DEF AddRegulator
            <4>3. CASE down'[k] = down[k] \o <<h, n>>
                <5>1. h \in Message
                    BY <1>1, <1>2, <1>3, HeadTailType
                <5>2. PICK t : t = Append(down[k], h)
                    OBVIOUS
                <5>3. t \in Seq(Message)
                    BY <1>3, <5>1, <5>2
                <5>4. down'[k] = Append(t, n)
                    <6>1. n \in Message
                        BY <4>1, <5>1, MsgType, MessageFields DEF Kinds
                    <6> QED
                        BY <1>3, <4>3, <5>1, <5>2, <6>1, AppendTwo
                <5>5. n.kind # "EVENT"
                    BY <4>1 DEF Msg
                <5>6. KeepsEvents(down[k], t) /\ KeepsEvents(t, down'[k])
                    BY <1>3, <1>5, <5>2, <5>3, <5>4, <5>5, AppendMoves
                <5> QED
                    BY <5>6 DEF KeepsEvents
            <4> QED
                BY <1>5, <3>2, <4>2, <4>3
        <3>6. CASE SetConstrained(g)
            <4>1. CASE down' = [down EXCEPT ![g] = Append(@, Msg("CONSTRAINED_ENABLED", g, 0))]
                <5>1. \/ down'[k] = down[k]
                      \/ down'[k] = Append(down[k], Msg("CONSTRAINED_ENABLED", g, 0))
                    BY <4>1 DEF TypeOK
                <5>2. "CONSTRAINED_ENABLED" \in Kinds \ {"EVENT"}
                    BY DEF Kinds
                <5> QED
                    BY <3>1, <3>3, <5>1, <5>2
            <4>2. CASE UNCHANGED down
                BY <3>1, <4>2
            <4> QED
                BY <3>6, <4>1, <4>2 DEF SetConstrained
        <3>7. CASE UnregisterSynchronization(g)
            BY <1>3, <3>1, <3>3, <3>7 DEF UnregisterSynchronization, RespondToAll, Kinds
        <3> QED
            BY <3>4, <3>5, <3>6, <3>7 DEF Rtig
    <2>2. \A k \in Federate : KeepsEvents(up[k], up'[k])
        BY <1>1, <1>2, <1>3, <1>5, TailMoves, SameKeepsEvents
    <2>3. Quiet
        BY <1>2, <1>3, <2>1, <2>2 DEF Quiet, OnlyAt
    <2> QED
        BY <1>2, <2>3, QuietStutters
<1> QED
    BY <1>4, <1>5

\* An RTIA that receives an event for a federate that is not constrained lets it
\* have it; nothing else it receives is spoken of by ConservativeTime.
LEMMA ProcessImplements ==
    ASSUME SafetyInvariant, EventInvariant, NEW f \in Federate, ProcessNetworkMessage(f)
    PROVE  Implements
<1> USE DEF SafetyInvariant
<1>1. PICK h : h = Head(down[f])
    OBVIOUS
<1>2. /\ down[f] # <<>> /\ down' = [down EXCEPT ![f] = Tail(@)]
      /\ UNCHANGED <<up, spent, is_regulating, is_constrained, promised, horizon>>
    BY DEF ProcessNetworkMessage, ReceiveClock, ReceiveCommand, ReceiveEvent, Receives,
        roleVars, promiseVars
<1>3. /\ down'[f] = Tail(down[f]) /\ \A k \in Federate \ {f} : down'[k] = down[k]
      /\ down[f] \in Seq(Message)
      /\ \A k \in Federate : spent'[k] \in Nat /\ spent[k] <= spent'[k]
    BY <1>2 DEF TypeOK
<1>4. h \in Message
    BY <1>1, <1>2, <1>3, HeadTailType
<1>5. CASE h.kind # "EVENT"
    <2>1. UNCHANGED tsos
        BY <1>1, <1>5 DEF ProcessNetworkMessage, ReceiveClock, ReceiveCommand, ReceiveEvent,
            Receives, queueVars
    <2>2. Quiet
        BY <1>1, <1>2, <1>3, <1>5, <2>1, TailMoves, SameKeepsEvents DEF Quiet, OnlyAt
    <2> QED
        BY <1>2, <2>2, QuietStutters
<1>6. CASE h.kind = "EVENT"
    <2>1. LosesEvent(down[f], down'[f], h)
        BY <1>1, <1>2, <1>3, <1>6, TailMoves
    <2>2. ReceiveEvent(f)
        BY <1>1, <1>6 DEF ProcessNetworkMessage, ReceiveClock, ReceiveCommand, Receives
    <2>3. CASE is_constrained[f] /\ InsertTso(f, h)
        <3>1. PICK k \in 0 .. Len(tsos[f]) : tsos' = [tsos EXCEPT ![f] = Inserted(tsos[f], k, h)]
            BY <2>3 DEF InsertTso, Inserted
        <3>2. tsos[f] \in Seq(Message) /\ tsos'[f] = Inserted(tsos[f], k, h)
              /\ \A j \in Federate \ {f} : tsos'[j] = tsos[j]
            BY <3>1 DEF TypeOK
        <3>3. /\ GainsEvent(tsos[f], tsos'[f], h)
              /\ Elems(tsos'[f]) \subseteq Elems(tsos[f]) \cup {h}
            BY <1>4, <1>6, <3>2, InsertMoves
        <3>4. Filed(f, h)
            BY <1>2, <1>3, <2>1, <3>2, <3>3, SameKeepsEvents DEF Filed, OnlyAt
        <3>5. EventInvariant' /\ \A j \in Federate : Pending(j)' = Pending(j)
            BY <3>4, FiledMoves
        <3> QED
            BY <1>2, <3>5, Stutters DEF Implements
    <2>4. CASE ~ is_constrained[f] /\ UNCHANGED tsos
        <3>1. Taken(f, h)
            BY <1>2, <1>3, <2>1, <2>4, SameKeepsEvents DEF Taken, OnlyAt
        <3>2. /\ EventInvariant' /\ h \in Pending(f)
              /\ \A k \in Federate : Pending(k)' = IF k = f THEN Pending(k) \ {h} ELSE Pending(k)
            BY <3>1, GivenMoves
        <3>3. [k \in Federate |-> Pending(k)]' =
                 [[k \in Federate |-> Pending(k)] EXCEPT ![f] = @ \ {h}]
            BY <3>2
        <3>4. Abstract!Take(f, h)
            BY <1>2, <2>4, <3>2, <3>3 DEF Abstract!Take
        <3>5. h \in Event
            BY <3>2, PendingTypes
        <3> QED
            BY <3>2, <3>4, <3>5 DEF Abstract!Next, Implements
    <2> QED
        BY <1>1, <1>6, <2>2, <2>3, <2>4 DEF ReceiveEvent
<1> QED
    BY <1>5, <1>6

-----------------------------------------------------------------------------
(* The refinement. *)

\* Before anything happens there is no event.
LEMMA InitImplements == Init => EventInvariant /\ Abstract!Init
<1> SUFFICES ASSUME Init PROVE EventInvariant /\ Abstract!Init
    OBVIOUS
<1>1. \A f \in Federate : up[f] = <<>> /\ down[f] = <<>> /\ tsos[f] = <<>>
    BY DEF Init
<1>2. \A f \in Federate : /\ Events(up[f]) = {} /\ Events(down[f]) = {} /\ Events(tsos[f]) = {}
                          /\ Elems(tsos[f]) = {}
                          /\ NoneTwice(up[f]) /\ NoneTwice(down[f]) /\ NoneTwice(tsos[f])
    BY <1>1 DEF Events, Elems, NoneTwice
<1>3. EventInvariant
    BY <1>2 DEF EventInvariant, EventsOnce, EventsSpent
<1>4. \A f \in Federate : Pending(f) = {}
    BY <1>2 DEF Pending, InFlight
<1>5. Abstract!Init
    BY <1>4 DEF Abstract!Init, Init
<1> QED
    BY <1>3, <1>5

\* Every step of disciplined federates, their RTIAs and the RTIG is a step of
\* ConservativeTime.
LEMMA StepImplements ==
    ASSUME Disciplined
    PROVE  SafetyInvariant /\ EventInvariant /\ [Next]_vars => Implements
<1> SUFFICES ASSUME SafetyInvariant, EventInvariant, [Next]_vars PROVE Implements
    OBVIOUS
<1>1. CASE UNCHANGED vars
    BY <1>1, SilentQuiet, QuietStutters DEF vars, roleVars, queueVars, promiseVars, SafetyInvariant
<1>2. CASE Next
    BY <1>2, RequestsImplement, TickImplements, RtigImplements, ProcessImplements DEF Next
<1> QED
    BY <1>1, <1>2

\* No event is ever at two places of its way to a federate, nor twice at one: a
\* federate is given each event once.
THEOREM EventsAreNotDuplicated ==
    ASSUME Disciplined
    PROVE  Spec => []EventInvariant
<1>1. Init => EventInvariant
    BY InitImplements
<1>2. SafetyInvariant /\ EventInvariant /\ [Next]_vars => EventInvariant'
    BY StepImplements DEF Implements
<1> QED
    BY <1>1, <1>2, SafetyInvariantHolds, PTL DEF Spec

\* The RTIAs and the RTIG, for any number of federates, are an implementation of
\* conservative time management: all that a federation of disciplined federates
\* can do is what it could do if every federate saw at once what the others
\* promise and send.
THEOREM RefinesConservativeTime ==
    ASSUME Disciplined
    PROVE  Spec => ImplementsConservativeTime
<1>1. Init => Abstract!Init
    BY InitImplements
<1>2. SafetyInvariant /\ EventInvariant /\ [Next]_vars => [Abstract!Next]_(Abstract!vars)
    BY StepImplements DEF Implements
<1> QED
    BY <1>1, <1>2, SafetyInvariantHolds, EventsAreNotDuplicated, PTL
        DEF Spec, ImplementsConservativeTime, Abstract!Spec

\* From any safe state, such as one in which the federates have all made their
\* first calls, and not only from the start, each step of disciplined federates,
\* their RTIAs and the RTIG is a step of conservative time management.
THEOREM EachStepIsConservative ==
    ASSUME Disciplined
    PROVE  SafetyInvariant /\ EventInvariant /\ [][Next]_vars => EachStepImplements
<1>1. SafetyInvariant /\ EventInvariant /\ [Next]_vars
         => /\ SafetyInvariant' /\ EventInvariant'
            /\ [Abstract!Next]_(Abstract!vars)
    BY StepSafe, StepImplements DEF Implements
<1> QED
    BY <1>1, PTL DEF EachStepImplements
=============================================================================
