-------------------------- MODULE Federation_proofs --------------------------
(***************************************************************************)
(* Points end together (EndsTogether), whatever federates join, resign or    *)
(* are lost, and the federation implements Rendezvous.  The constants are    *)
(* any.  The invariant is FederationInvariant.                               *)
(***************************************************************************)
EXTENDS FederationRefinement, SequenceTheorems, FiniteSetTheorems, TLAPS

(***************************************************************************)
(* Streams and queues: what they hold and whether their elements respect a   *)
(* relation, after each operation of the model on them.                      *)
(***************************************************************************)

LEMMA Holds ==
    ASSUME NEW S, NEW s \in Seq(S), NEW e
    PROVE  e \in ToSet(s) <=> \E i \in 1 .. Len(s) : s[i] = e
BY DEF ToSet

LEMMA HeldInSet ==
    ASSUME NEW S, NEW s \in Seq(S)
    PROVE  ToSet(s) \subseteq S
BY DEF ToSet

LEMMA EmptyStream ==
    ASSUME NEW R
    PROVE  ToSet(<<>>) = {} /\ Respects(<<>>, R)
BY DEF ToSet, Respects

LEMMA Appended ==
    ASSUME NEW S, NEW s \in Seq(S), NEW e \in S
    PROVE  /\ Append(s, e) \in Seq(S)
           /\ ToSet(Append(s, e)) = ToSet(s) \cup {e}
           /\ \A R : Respects(Append(s, e), R) <=>
                       Respects(s, R) /\ \A x \in ToSet(s) : <<x, e>> \in R
<1> DEFINE t == Append(s, e)
<1>1. /\ t \in Seq(S) /\ Len(t) = Len(s) + 1 /\ t[Len(s) + 1] = e
      /\ \A i \in 1 .. Len(s) : t[i] = s[i]
  BY AppendProperties
<1>2. Len(s) \in Nat
  OBVIOUS
<1> HIDE DEF t
<1>3. ToSet(t) = ToSet(s) \cup {e}
  <2>1. \A i \in 1 .. Len(t) : t[i] \in ToSet(s) \cup {e}
    BY <1>1, <1>2 DEF ToSet
  <2>2. \A i \in 1 .. Len(s) : s[i] \in ToSet(t)
    BY <1>1, <1>2 DEF ToSet
  <2>3. e \in ToSet(t)
    BY <1>1, <1>2 DEF ToSet
  <2> QED
    BY <2>1, <2>2, <2>3, <1>1 DEF ToSet
<1>4. ASSUME NEW R
      PROVE  Respects(t, R) <=> Respects(s, R) /\ \A x \in ToSet(s) : <<x, e>> \in R
  <2>1. ASSUME Respects(t, R)
        PROVE  Respects(s, R) /\ \A i \in 1 .. Len(s) : <<s[i], e>> \in R
    <3>1. \A i, j \in 1 .. Len(s) : i < j => <<s[i], s[j]>> \in R
      BY <1>1, <1>2, <2>1 DEF Respects
    <3>2. \A i \in 1 .. Len(s) : <<t[i], t[Len(s) + 1]>> \in R
      BY <1>1, <1>2, <2>1 DEF Respects
    <3> QED
      BY <3>1, <3>2, <1>1, <1>2 DEF Respects
  <2>2. ASSUME Respects(s, R), \A i \in 1 .. Len(s) : <<s[i], e>> \in R
        PROVE  Respects(t, R)
    <3> SUFFICES ASSUME NEW i \in 1 .. Len(t), NEW j \in 1 .. Len(t), i < j
                 PROVE  <<t[i], t[j]>> \in R
      BY DEF Respects
    <3>1. CASE j = Len(s) + 1
      BY <3>1, <2>2, <1>1, <1>2
    <3>2. CASE j # Len(s) + 1
      BY <3>2, <2>2, <1>1, <1>2 DEF Respects
    <3> QED
      BY <3>1, <3>2
  <2>3. (\A x \in ToSet(s) : <<x, e>> \in R) <=> \A i \in 1 .. Len(s) : <<s[i], e>> \in R
    BY <1>2 DEF ToSet
  <2> QED
    BY <2>1, <2>2, <2>3
<1> QED
  BY <1>1, <1>3, <1>4 DEF t

LEMMA Taken ==
    ASSUME NEW S, NEW s \in Seq(S), s # <<>>
    PROVE  /\ Head(s) \in S /\ Tail(s) \in Seq(S)
           /\ ToSet(s) = {Head(s)} \cup ToSet(Tail(s))
           /\ \A R : Respects(s, R) =>
                       Respects(Tail(s), R) /\ \A x \in ToSet(Tail(s)) : <<Head(s), x>> \in R
<1> DEFINE t == Tail(s)
<1>1. /\ t \in Seq(S) /\ Len(t) = Len(s) - 1 /\ Head(s) \in S /\ Head(s) = s[1]
      /\ \A i \in 1 .. Len(t) : t[i] = s[i + 1]
  BY HeadTailProperties
<1>2. Len(s) \in Nat \ {0}
  OBVIOUS
<1> HIDE DEF t
<1>3. ToSet(s) = {s[1]} \cup ToSet(t)
  <2>1. \A i \in 1 .. Len(s) : i = 1 \/ (i - 1 \in 1 .. Len(t) /\ s[i] = t[i - 1])
    BY <1>1, <1>2
  <2>2. \A i \in 1 .. Len(t) : i + 1 \in 1 .. Len(s) /\ t[i] = s[i + 1]
    BY <1>1, <1>2
  <2>3. \A e \in ToSet(s) : e = s[1] \/ e \in ToSet(t)
    BY <2>1, Holds, <1>1
  <2>4. \A e \in ToSet(t) : e \in ToSet(s)
    BY <2>2, Holds, <1>1
  <2>5. s[1] \in ToSet(s)
    BY <1>2, Holds
  <2> QED
    BY <2>3, <2>4, <2>5
<1>4. ASSUME NEW R, Respects(s, R)
      PROVE  Respects(t, R) /\ \A x \in ToSet(t) : <<s[1], x>> \in R
  <2>1. \A i, j \in 1 .. Len(t) : i < j => <<t[i], t[j]>> \in R
    BY <1>1, <1>2, <1>4 DEF Respects
  <2>2. \A j \in 1 .. Len(t) : <<s[1], t[j]>> \in R
    BY <1>1, <1>2, <1>4 DEF Respects
  <2>3. \A x \in ToSet(t) : <<s[1], x>> \in R
    BY <2>2, Holds, <1>1
  <2> QED
    BY <2>1, <2>3 DEF Respects
<1> QED
  BY <1>1, <1>3, <1>4 DEF t

LEMMA Joined ==
    ASSUME NEW S, NEW s \in Seq(S), NEW u \in Seq(S)
    PROVE  /\ s \o u \in Seq(S)
           /\ ToSet(s \o u) = ToSet(s) \cup ToSet(u)
           /\ \A R : Respects(s, R) /\ Respects(u, R)
                      /\ (\A x \in ToSet(s), y \in ToSet(u) : <<x, y>> \in R)
                    => Respects(s \o u, R)
<1> DEFINE t == s \o u
<1>1. /\ t \in Seq(S) /\ Len(t) = Len(s) + Len(u)
      /\ \A i \in 1 .. Len(s) + Len(u) : t[i] = IF i <= Len(s) THEN s[i] ELSE u[i - Len(s)]
  BY ConcatProperties
<1>2. Len(s) \in Nat /\ Len(u) \in Nat
  OBVIOUS
<1> HIDE DEF t
<1>3. /\ \A i \in 1 .. Len(s) : i \in 1 .. Len(t) /\ t[i] = s[i]
      /\ \A i \in 1 .. Len(u) : i + Len(s) \in 1 .. Len(t) /\ t[i + Len(s)] = u[i]
  <2>1. ASSUME NEW i \in 1 .. Len(s)
        PROVE  i \in 1 .. Len(t) /\ t[i] = s[i]
    BY <1>1, <1>2
  <2>2. ASSUME NEW i \in 1 .. Len(u)
        PROVE  i + Len(s) \in 1 .. Len(t) /\ t[i + Len(s)] = u[i]
    <3>1. i + Len(s) \in 1 .. Len(s) + Len(u) /\ ~ (i + Len(s) <= Len(s))
          /\ (i + Len(s)) - Len(s) = i
      BY <1>2
    <3> QED
      BY <3>1, <1>1
  <2> QED
    BY <2>1, <2>2
<1>4. \A i \in 1 .. Len(t) :
         \/ i \in 1 .. Len(s) /\ t[i] = s[i]
         \/ i - Len(s) \in 1 .. Len(u) /\ t[i] = u[i - Len(s)]
  BY <1>1, <1>2
<1>5. ToSet(t) = ToSet(s) \cup ToSet(u)
  <2>1. \A e \in ToSet(t) : e \in ToSet(s) \/ e \in ToSet(u)
    BY <1>4, <1>1, Holds
  <2>2. \A e \in ToSet(s) : e \in ToSet(t)
    BY <1>3, <1>1, Holds
  <2>3. \A e \in ToSet(u) : e \in ToSet(t)
    BY <1>3, <1>1, Holds
  <2> QED
    BY <2>1, <2>2, <2>3
<1>6. ASSUME NEW R, Respects(s, R), Respects(u, R),
             \A x \in ToSet(s), y \in ToSet(u) : <<x, y>> \in R
      PROVE  Respects(t, R)
  <2> SUFFICES ASSUME NEW i \in 1 .. Len(t), NEW j \in 1 .. Len(t), i < j
               PROVE  <<t[i], t[j]>> \in R
    BY DEF Respects
  <2>0. \A k, l \in 1 .. Len(s) : k < l => <<s[k], s[l]>> \in R
    BY <1>6 DEF Respects
  <2>1. CASE j \in 1 .. Len(s)
    <3>1. i \in 1 .. Len(s)
      BY <2>1, <1>2
    <3> QED
      BY <3>1, <2>1, <1>3, <2>0
  <2>2. CASE i \in 1 .. Len(s) /\ j \notin 1 .. Len(s)
    <3>1. t[i] \in ToSet(s) /\ t[j] \in ToSet(u)
      BY <2>2, <1>3, <1>4, Holds
    <3> QED
      BY <3>1, <1>6
  <2>3. CASE i \notin 1 .. Len(s)
    <3>1. /\ i - Len(s) \in 1 .. Len(u) /\ t[i] = u[i - Len(s)]
          /\ j - Len(s) \in 1 .. Len(u) /\ t[j] = u[j - Len(s)]
      BY <2>3, <1>2, <1>4
    <3> QED
      BY <3>1, <1>2, <1>6 DEF Respects
  <2> QED
    BY <2>1, <2>2, <2>3
<1> QED
  BY <1>1, <1>5, <1>6 DEF t

LEMMA Single ==
    ASSUME NEW S, NEW e \in S
    PROVE  <<e>> \in Seq(S) /\ ToSet(<<e>>) = {e} /\ \A R : Respects(<<e>>, R)
BY DEF ToSet, Respects

\* What goes to the front of a queue.
LEMMA PutFirst ==
    ASSUME NEW S, NEW s \in Seq(S), NEW e \in S
    PROVE  /\ <<e>> \o s \in Seq(S)
           /\ ToSet(<<e>> \o s) = ToSet(s) \cup {e}
           /\ \A R : Respects(s, R) /\ (\A x \in ToSet(s) : <<e, x>> \in R)
                    => Respects(<<e>> \o s, R)
<1>1. <<e>> \in Seq(S) /\ ToSet(<<e>>) = {e} /\ \A R : Respects(<<e>>, R)
  BY Single
<1>2. /\ <<e>> \o s \in Seq(S)
      /\ ToSet(<<e>> \o s) = {e} \cup ToSet(s)
  BY <1>1, Joined
<1>3. ASSUME NEW R, Respects(s, R), \A x \in ToSet(s) : <<e, x>> \in R
      PROVE  Respects(<<e>> \o s, R)
  BY <1>1, <1>3, Joined
<1> QED
  BY <1>2, <1>3

\* What is left of a stream that breaks.
LEMMA Cut ==
    ASSUME NEW S, NEW s \in Seq(S), NEW k \in 0 .. Len(s)
    PROVE  /\ SubSeq(s, 1, k) \in Seq(S)
           /\ ToSet(SubSeq(s, 1, k)) \subseteq ToSet(s)
           /\ \A R : Respects(s, R) => Respects(SubSeq(s, 1, k), R)
<1> DEFINE t == SubSeq(s, 1, k)
<1>1. /\ t \in Seq(S) /\ Len(t) = k
      /\ \A i \in 1 .. k : t[i] = s[i]
  <2>1. \A i \in 1 .. k : s[i] \in S
    OBVIOUS
  <2> QED
    BY <2>1, SubSeqProperties
<1>2. 1 .. k \subseteq 1 .. Len(s)
  OBVIOUS
<1> HIDE DEF t
<1>3. ToSet(t) \subseteq ToSet(s)
  BY <1>1, <1>2, Holds
<1>4. \A R : Respects(s, R) => Respects(t, R)
  BY <1>1, <1>2 DEF Respects
<1> QED
  BY <1>1, <1>3, <1>4 DEF t

\* What is left of a stream when one answer is taken out of it.
LEMMA TakenOut ==
    ASSUME NEW S, NEW s \in Seq(S), NEW k \in 1 .. Len(s)
    PROVE  /\ RemoveAt(s, k) \in Seq(S)
           /\ ToSet(s) = {s[k]} \cup ToSet(RemoveAt(s, k))
           /\ \A R : Respects(s, R) =>
                 /\ Respects(RemoveAt(s, k), R)
                 /\ \A x \in ToSet(RemoveAt(s, k)) :
                       <<x, s[k]>> \in R \/ <<s[k], x>> \in R
<1> DEFINE p == SubSeq(s, 1, k - 1)
           q == SubSeq(s, k + 1, Len(s))
           t == RemoveAt(s, k)
<1>1. p \in Seq(S) /\ Len(p) = k - 1 /\ \A i \in 1 .. k - 1 : p[i] = s[i]
  <2>1. \A i \in 1 .. k - 1 : s[i] \in S
    OBVIOUS
  <2> QED
    BY <2>1, SubSeqProperties
<1>2. q \in Seq(S) /\ Len(q) = Len(s) - k /\ \A i \in 1 .. Len(s) - k : q[i] = s[i + k]
  <2>1. \A i \in k + 1 .. Len(s) : s[i] \in S
    OBVIOUS
  <2>2. /\ q \in Seq(S) /\ Len(q) = IF k + 1 <= Len(s) THEN Len(s) - (k + 1) + 1 ELSE 0
        /\ \A i \in 1 .. Len(s) - (k + 1) + 1 : q[i] = s[k + 1 + i - 1]
    <3> HIDE DEF q
    <3>1. k + 1 \in Int /\ Len(s) \in Int
      OBVIOUS
    <3> QED
      BY <2>1, <3>1, SubSeqProperties DEF q
  <2> HIDE DEF q
  <2> QED
    BY <2>2
<1>3. t = p \o q
  BY DEF RemoveAt
<1> HIDE DEF p, q, t
<1>4. /\ t \in Seq(S) /\ Len(t) = Len(s) - 1
      /\ \A i \in 1 .. Len(t) : t[i] = IF i < k THEN s[i] ELSE s[i + 1]
  <2>1. /\ t \in Seq(S) /\ Len(t) = Len(p) + Len(q)
        /\ \A i \in 1 .. Len(p) + Len(q) : t[i] = IF i <= Len(p) THEN p[i] ELSE q[i - Len(p)]
    BY <1>1, <1>2, <1>3, ConcatProperties
  <2>2. Len(t) = Len(s) - 1
    BY <2>1, <1>1, <1>2
  <2>3. ASSUME NEW i \in 1 .. Len(t)
        PROVE  t[i] = IF i < k THEN s[i] ELSE s[i + 1]
    <3>1. CASE i < k
      BY <3>1, <2>1, <2>2, <1>1
    <3>2. CASE i >= k
      <4>1. /\ i - Len(p) \in 1 .. Len(s) - k /\ i - Len(p) + k = i + 1
            /\ ~ (i <= Len(p))
        BY <3>2, <2>2, <1>1
      <4>2. t[i] = q[i - Len(p)]
        BY <4>1, <2>1
      <4>3. q[i - Len(p)] = s[(i - Len(p)) + k]
        BY <4>1, <1>2
      <4> QED
        BY <4>1, <4>2, <4>3, <3>2
    <3> QED
      BY <3>1, <3>2
  <2> QED
    BY <2>1, <2>2, <2>3
<1>5. \A i \in 1 .. Len(s) : i = k \/ \E j \in 1 .. Len(t) : t[j] = s[i]
  <2> SUFFICES ASSUME NEW i \in 1 .. Len(s), i # k
               PROVE  \E j \in 1 .. Len(t) : t[j] = s[i]
    OBVIOUS
  <2>1. CASE i < k
    BY <2>1, <1>4
  <2>2. CASE i > k
    <3>1. i - 1 \in 1 .. Len(t) /\ t[i - 1] = s[i]
      BY <2>2, <1>4
    <3> QED
      BY <3>1
  <2> QED
    BY <2>1, <2>2
<1>6. \A j \in 1 .. Len(t) : \E i \in 1 .. Len(s) : i # k /\ t[j] = s[i]
  <2> SUFFICES ASSUME NEW j \in 1 .. Len(t)
               PROVE  \E i \in 1 .. Len(s) : i # k /\ t[j] = s[i]
    OBVIOUS
  <2>1. CASE j < k
    BY <2>1, <1>4
  <2>2. CASE j >= k
    <3>1. j + 1 \in 1 .. Len(s) /\ j + 1 # k /\ t[j] = s[j + 1]
      BY <2>2, <1>4
    <3> QED
      BY <3>1
  <2> QED
    BY <2>1, <2>2
<1>7. ToSet(s) = {s[k]} \cup ToSet(t)
  <2>1. ASSUME NEW e \in ToSet(s)
        PROVE  e = s[k] \/ e \in ToSet(t)
    <3>1. PICK i \in 1 .. Len(s) : s[i] = e
      BY Holds
    <3>2. CASE i # k
      <4>1. \E j \in 1 .. Len(t) : t[j] = e
        BY <1>5, <3>1, <3>2
      <4> QED
        BY <4>1, <1>4, Holds
    <3> QED
      BY <3>1, <3>2
  <2>2. \A e \in ToSet(t) : e \in ToSet(s)
    BY <1>6, <1>4, Holds
  <2>3. s[k] \in ToSet(s)
    BY Holds
  <2> QED
    BY <2>1, <2>2, <2>3
<1>8. ASSUME NEW R, Respects(s, R)
      PROVE  /\ Respects(t, R)
             /\ \A x \in ToSet(t) : <<x, s[k]>> \in R \/ <<s[k], x>> \in R
  <2>1. \A i, j \in 1 .. Len(t) : i < j => <<t[i], t[j]>> \in R
    BY <1>8, <1>4, SMTT(30) DEF Respects
  <2>2. \A x \in ToSet(t) : \E i \in 1 .. Len(s) : i # k /\ x = s[i]
    BY <1>6, <1>4, Holds
  <2>3. \A i \in 1 .. Len(s) : i # k => <<s[i], s[k]>> \in R \/ <<s[k], s[i]>> \in R
    BY <1>8 DEF Respects
  <2> QED
    BY <2>1, <2>2, <2>3 DEF Respects
<1> QED
  BY <1>4, <1>7, <1>8 DEF t

\* The announces to a federate that joins.
LEMMA Listed ==
    ASSUME NEW S, IsFiniteSet(S)
    PROVE  /\ SetToSeq(S) \in Seq(S)
           /\ ToSet(SetToSeq(S)) = S
           /\ \A R : (\A x, y \in S : x # y => <<x, y>> \in R) => Respects(SetToSeq(S), R)
<1> DEFINE n == Cardinality(S)
           t == SetToSeq(S)
<1>1. n \in Nat /\ ExistsBijection(1 .. n, S)
  BY FS_CardinalityType
<1>2. \E f \in [1 .. n -> S] : IsInjective(f)
  BY <1>1 DEF ExistsBijection, Bijection, Injection, IsInjective
<1>3. t \in [1 .. n -> S] /\ IsInjective(t)
  BY <1>2 DEF SetToSeq
<1> HIDE DEF t
<1>4. t \in Seq(S) /\ Len(t) = n /\ \A i, j \in 1 .. n : i # j => t[i] # t[j]
  BY <1>1, <1>3 DEF IsInjective
<1>5. ToSet(t) = S
  <2>1. IsFiniteSet(1 .. n) /\ Cardinality(1 .. n) = n
    BY <1>1, FS_Interval
  <2>2. t \in Injection(1 .. n, S)
    BY <1>3, <1>4 DEF Injection, IsInjective
  <2>3. t \in Surjection(1 .. n, S)
    BY <2>1, <2>2, FS_Injection
  <2> QED
    BY <2>3, <1>4 DEF Surjection, ToSet
<1>6. ASSUME NEW R, \A x, y \in S : x # y => <<x, y>> \in R
      PROVE  Respects(t, R)
  <2>1. \A i \in 1 .. Len(t) : t[i] \in S
    BY <1>4
  <2> QED
    BY <1>4, <1>6, <2>1, <1>1 DEF Respects
<1> QED
  BY <1>4, <1>5, <1>6 DEF t

(***************************************************************************)
(* Points, requests and notices.                                             *)
(***************************************************************************)

LEMMA Points ==
    ASSUME NEW p \in Point
    PROVE  p.of \in Label \cup SavesAndRestores /\ p.round \in Nat
BY DEF Point, SavesAndRestores

LEMMA NewPoints ==
    ASSUME NEW x \in Label \cup SavesAndRestores, round \in Nat
    PROVE  /\ NewPoint(x) \in Point
           /\ NewPoint(x).of = x /\ NewPoint(x).round = round + 1
BY DEF NewPoint, Point, SavesAndRestores

LEMMA Requests ==
    /\ \A kind \in {"JOIN", "RESIGN", "REGISTER", "REQUEST"},
          x \in Label \cup SavesAndRestores, S \in FederateSets \cup {Federate},
          dated \in BOOLEAN :
          /\ Ask(kind, x, S, dated) \in Request
          /\ Ask(kind, x, S, dated).kind = kind /\ Ask(kind, x, S, dated).of = x
    /\ \A x \in Label \cup SavesAndRestores, ok \in BOOLEAN :
          [kind |-> "ANSWER", of |-> x, ok |-> ok] \in Request
    /\ \A m \in Request :
          /\ m.of \in Label \cup SavesAndRestores
          /\ m.kind = "REGISTER" => m.to \in FederateSets \cup {Federate}
          /\ m.kind = "REQUEST" => m.dated \in BOOLEAN
          /\ m.kind = "ANSWER" => m.ok \in BOOLEAN
BY DEF Ask, Request, SavesAndRestores

LEMMA PlainRequests ==
    ASSUME NEW kind \in {"JOIN", "RESIGN"}
    PROVE  /\ Ask(kind, Save, Federate, FALSE) \in Request
           /\ Ask(kind, Save, Federate, FALSE).kind = kind
BY DEF Ask, Request

LEMMA Notices ==
    /\ \A p \in Point, ok \in BOOLEAN :
          /\ Start(p) \in Notice /\ Start(p).kind = "START" /\ Start(p).point = p
          /\ End(p, ok) \in Notice /\ End(p, ok).kind = "END"
          /\ End(p, ok).point = p /\ End(p, ok).ok = ok
    /\ Exception \in Notice /\ Exception.kind = "EXCEPTION"
    /\ \A kind \in Replies : [kind |-> kind] \in Notice
    /\ \A n \in Notice :
          /\ n.kind \in {"START", "END"} => n.point \in Point /\ n.ok \in BOOLEAN
          /\ n.kind \in {"START", "END", "EXCEPTION"} \/ n.kind \in Replies
          /\ n.kind = "EXCEPTION" => n = Exception
          /\ n.kind = "START" => n.kind \notin Replies
BY DEF Start, End, Exception, Replies, Notice

LEMMA Relations ==
    /\ \A m, r \in Request :
          <<m, r>> \in RequestsFit <=>
             /\ m.kind \notin {"JOIN", "RESIGN"} /\ r.kind # "JOIN"
             /\ m.kind = "ANSWER" /\ r.kind = "ANSWER" => m.of # r.of
    /\ \A n, r \in Notice :
          /\ <<n, r>> \in OneReply <=> (n.kind \in Replies => r.kind \notin Replies)
          /\ <<n, r>> \in OneStart <=>
                (n.kind = "START" /\ r.kind = "START" => n.point.of # r.point.of)
<1>1. ASSUME NEW m \in Request, NEW r \in Request
      PROVE  <<m, r>> \in RequestsFit <=>
                /\ m.kind \notin {"JOIN", "RESIGN"} /\ r.kind # "JOIN"
                /\ m.kind = "ANSWER" /\ r.kind = "ANSWER" => m.of # r.of
  BY DEF RequestsFit
<1>2. ASSUME NEW n \in Notice, NEW r \in Notice
      PROVE  /\ <<n, r>> \in OneReply <=> (n.kind \in Replies => r.kind \notin Replies)
             /\ <<n, r>> \in OneStart <=>
                   (n.kind = "START" /\ r.kind = "START" => n.point.of # r.point.of)
  BY DEF OneReply, OneStart
<1> QED
  BY <1>1, <1>2

\* What the RTIG sends on a link, which it does unless it is closed.
LEMMA Sent ==
    ASSUME NEW f, NEW q, NEW m
    PROVE  Send(f, q, m) \in {q, Append(q, m)}
BY DEF Send

LEMMA ThePendingPoint ==
    ASSUME TypeOK, NEW p \in pending
    PROVE  PendingPoint(p.of) = p
<1>1. \A q \in pending : q.of = p.of => q = p
  BY DEF TypeOK
<1>2. \E q \in pending \cup {[of |-> p.of, round |-> 0]} :
         q.of = p.of /\ (q \in pending \/ \A r \in pending : r.of # p.of)
  OBVIOUS
<1>3. PendingPoint(p.of) \in pending /\ PendingPoint(p.of).of = p.of
  <2> DEFINE q == PendingPoint(p.of)
  <2>1. q.of = p.of /\ (q \in pending \/ \A r \in pending : r.of # p.of)
    BY <1>2 DEF PendingPoint
  <2> QED
    BY <2>1
<1> QED
  BY <1>1, <1>3

(***************************************************************************)
(* What a step leaves alone.                                                 *)
(***************************************************************************)

Member(g) == g \in members
Unlinked(g) == g \in unlinked
Referenced(g) == g \in referenced

\* What LinkHolds and AsksHold say of g.
FederateHolds(g) == LinkHolds(g) /\ (Linked(g) => AsksHold(g))

\* The link, the queues and the duties of g are what they were.
Untouched(g) ==
    /\ rtia'[g] = rtia[g] /\ up'[g] = up[g] /\ down'[g] = down[g]
    /\ commands'[g] = commands[g] /\ duties'[g] = duties[g] /\ owed'[g] = owed[g]
    /\ Member(g)' = Member(g) /\ Unlinked(g)' = Unlinked(g)
    /\ Referenced(g)' = Referenced(g)

LEMMA UntouchedLinked ==
    ASSUME NEW g, Member(g)' = Member(g), Unlinked(g)' = Unlinked(g)
    PROVE  Linked(g)' = Linked(g)
BY DEF Linked, Member, Unlinked

LEMMA UntouchedHolds ==
    ASSUME NEW g \in Federate, Untouched(g), FederateHolds(g)
    PROVE  FederateHolds(g)'
<1>1. /\ Linked(g)' = Linked(g) /\ (g \in members)' = (g \in members)
      /\ (g \in referenced)' = (g \in referenced)
  BY UntouchedLinked DEF Untouched, Member, Referenced
<1>2. /\ rtia'[g] = rtia[g] /\ up'[g] = up[g] /\ down'[g] = down[g]
      /\ commands'[g] = commands[g] /\ duties'[g] = duties[g] /\ owed'[g] = owed[g]
  BY DEF Untouched
<1>3. ASSUME NEW m, UpHolds(g, m)
      PROVE  UpHolds(g, m)'
  BY <1>1, <1>2, <1>3 DEF UpHolds
<1>4. ASSUME NEW n, DownHolds(g, n)
      PROVE  DownHolds(g, n)'
  BY <1>1, <1>2, <1>4 DEF DownHolds
<1>5. LinkHolds(g)'
  <2>1. LinkHolds(g)
    BY DEF FederateHolds
  <2>2. /\ \A m \in ToSet(up'[g]) : UpHolds(g, m)'
        /\ \A n \in ToSet(down'[g]) : DownHolds(g, n)'
    BY <2>1, <1>2, <1>3, <1>4 DEF LinkHolds
  <2>3. g \notin referenced' \cup members' <=> g \notin referenced \cup members
    BY <1>1
  <2> QED
    BY <2>1, <2>2, <2>3, <1>1, <1>2 DEF LinkHolds
<1>6. ASSUME AsksHold(g)
      PROVE  AsksHold(g)'
  BY <1>2, <1>6 DEF AsksHold, AskedOnce, Told, Queued, Due, Answering, InTransit
<1> QED
  BY <1>1, <1>5, <1>6 DEF FederateHolds

\* A step of one federate, or of the RTIG for one federate.
LEMMA OneMoves ==
    ASSUME FederationInvariant, NEW f \in Federate,
           \A g \in Federate \ {f} : Untouched(g), FederateHolds(f)',
           TypeOK', EndsHold', FailuresHold'
    PROVE  FederationInvariant'
<1>1. \A g \in Federate : FederateHolds(g)
  BY DEF FederationInvariant, FederateHolds
<1>2. \A g \in Federate : FederateHolds(g)'
  BY <1>1, UntouchedHolds
<1> QED
  BY <1>2 DEF FederationInvariant, FederateHolds

\* A step that tells no end, and after which all is as pending as it was but for a
\* point of the next number.
LEMMA EndsStayHeld ==
    ASSUME TypeOK, EndsHold, FailuresHold,
           \A g \in Federate : \A m \in InTransit(g)' : m.kind = "END" => m \in InTransit(g),
           \/ pending' = pending /\ round' = round
           \/ \E p \in Point : /\ pending' = pending \cup {p} /\ p.round = round + 1
                                /\ round' = round + 1,
           \A x \in failed' : x \in failed \/ x.point \in pending,
           \A g \in Federate : rtia[g] = "lost" => rtia'[g] = "lost"
    PROVE  EndsHold'
<1>1. IsFiniteSet(pending') /\ \A p \in pending' : p.round <= round'
  <2>1. CASE pending' = pending /\ round' = round
    BY <2>1 DEF EndsHold
  <2>2. ASSUME NEW p \in Point, pending' = pending \cup {p}, p.round = round + 1,
               round' = round + 1
        PROVE  IsFiniteSet(pending') /\ \A q \in pending' : q.round <= round'
    <3>1. IsFiniteSet(pending')
      BY <2>2, FS_AddElement DEF EndsHold
    <3>2. round \in Nat /\ \A q \in pending : q.round \in Nat /\ q.round <= round
      BY Points DEF TypeOK, EndsHold
    <3> QED
      BY <3>1, <3>2, <2>2
  <2> QED
    BY <2>1, <2>2
<1>2. ASSUME NEW g \in Federate, NEW m \in InTransit(g)', m.kind = "END"
      PROVE  /\ m.point.round <= round' /\ m.point \notin pending'
             /\ m.ok => \A x \in failed' : x.point = m.point => rtia'[x.by] = "lost"
  <2>1. m \in InTransit(g)
    BY <1>2
  <2>2. /\ m.point.round <= round /\ m.point \notin pending
        /\ m.ok => \A x \in failed : x.point = m.point => rtia[x.by] = "lost"
    BY <2>1, <1>2 DEF EndsHold
  <2>3. m.point \in Point /\ round \in Nat
    <3>1. ToSet(down[g]) \subseteq Notice /\ ToSet(commands[g]) \subseteq Notice
      <4>1. /\ down[g] \in Seq(Notice)
            /\ commands[g] \in Seq({n \in Notice : n.kind \in {"START", "END"}})
        BY DEF TypeOK
      <4> QED
        BY <4>1, HeldInSet
    <3>2. m \in Notice
      BY <3>1, <2>1 DEF InTransit
    <3> QED
      BY <3>2, <1>2, Notices DEF TypeOK
  <2>4. m.point.round <= round' /\ m.point \notin pending'
    BY <2>2, <2>3, Points
  <2>5. ASSUME m.ok, NEW x \in failed', x.point = m.point
        PROVE  rtia'[x.by] = "lost"
    <3>1. x \in failed
      BY <2>5, <2>2
    <3>2. x.by \in Federate
      BY <3>1 DEF TypeOK
    <3> QED
      BY <3>1, <3>2, <2>5, <2>2
  <2> QED
    BY <2>4, <2>5
<1> QED
  BY <1>1, <1>2 DEF EndsHold

\* A step that takes no answer in and lets no failure be forgotten.
LEMMA FailuresStayHeld ==
    ASSUME TypeOK, FailuresHold,
           failed' = failed, round' \in {round, round + 1},
           \A p \in pending' :
              \/ p \notin pending /\ p.round = round + 1
              \/ p \in pending /\ (p.of \in SavesAndRestores /\ Status(p.of)' => Status(p.of)),
           \A g \in Federate :
              \/ rtia'[g] = "lost"
              \/ /\ rtia[g] # "lost"
                 /\ \A m \in ToSet(up[g]) : m.kind = "ANSWER" => m \in ToSet(up'[g])
    PROVE  FailuresHold'
<1> SUFFICES ASSUME NEW x \in failed
             PROVE  /\ x.point.of \in SavesAndRestores /\ x.point.round <= round'
                    /\ x.point \in pending' /\ Status(x.point.of)' =>
                          \/ rtia'[x.by] = "lost"
                          \/ \E m \in ToSet(up'[x.by]) :
                                m.kind = "ANSWER" /\ m.of = x.point.of /\ ~ m.ok
  BY DEF FailuresHold
<1>1. x.point \in Point /\ x.by \in Federate /\ round \in Nat
  BY DEF TypeOK
<1>2. /\ x.point.of \in SavesAndRestores /\ x.point.round <= round
      /\ x.point \in pending /\ Status(x.point.of) =>
            \/ rtia[x.by] = "lost"
            \/ \E m \in ToSet(up[x.by]) : m.kind = "ANSWER" /\ m.of = x.point.of /\ ~ m.ok
  BY DEF FailuresHold
<1>3. x.point.round \in Nat
  BY <1>1, Points
<1>4. ASSUME x.point \in pending', Status(x.point.of)'
      PROVE  x.point \in pending /\ Status(x.point.of)
  <2>1. x.point.round # round + 1
    BY <1>1, <1>2, <1>3
  <2> QED
    BY <2>1, <1>2, <1>4
<1> QED
  BY <1>1, <1>2, <1>3, <1>4

(***************************************************************************)
(* What a federate and its RTIA say.                                         *)
(***************************************************************************)

LEMMA Typed ==
    ASSUME TypeOK, NEW g \in Federate
    PROVE  /\ up[g] \in Seq(Request) /\ down[g] \in Seq(Notice)
           /\ commands[g] \in Seq(Notice)
           /\ ToSet(up[g]) \subseteq Request /\ ToSet(down[g]) \subseteq Notice
           /\ \A n \in ToSet(commands[g]) : n \in Notice /\ n.kind \in {"START", "END"}
           /\ InTransit(g) \subseteq Notice
           /\ duties[g] \subseteq Point
           /\ owed[g] \subseteq pending /\ pending \subseteq Point
<1> DEFINE Commands == {n \in Notice : n.kind \in {"START", "END"}}
<1>1. /\ up[g] \in Seq(Request) /\ down[g] \in Seq(Notice) /\ commands[g] \in Seq(Commands)
      /\ duties[g] \subseteq Point /\ owed[g] \subseteq pending /\ pending \subseteq Point
  BY DEF TypeOK
<1>2. commands[g] \in Seq(Notice)
  BY <1>1, SeqMonotonic
<1>3. /\ ToSet(up[g]) \subseteq Request /\ ToSet(down[g]) \subseteq Notice
      /\ ToSet(commands[g]) \subseteq Commands
  BY <1>1, HeldInSet
<1> QED
  BY <1>1, <1>2, <1>3 DEF InTransit

\* The place of f in the federation is what it was.
PlaceKept(f) ==
    Member(f)' = Member(f) /\ Unlinked(f)' = Unlinked(f) /\ Referenced(f)' = Referenced(f)

LEMMA PlaceStays ==
    ASSUME NEW f, PlaceKept(f)
    PROVE  /\ Linked(f)' = Linked(f) /\ (f \in members' <=> f \in members)
           /\ (f \in referenced' <=> f \in referenced)
           /\ (f \notin referenced' \cup members' <=> f \notin referenced \cup members)
<1>1. Member(f)' = Member(f) /\ Unlinked(f)' = Unlinked(f) /\ Referenced(f)' = Referenced(f)
  BY DEF PlaceKept
<1>2. Linked(f)' = Linked(f)
  BY <1>1, UntouchedLinked
<1> QED
  BY <1>1, <1>2 DEF Member, Referenced

\* Nothing of a member says that it joins or resigns.
LEMMA NothingOfAMember ==
    ASSUME TypeOK, NEW f \in Federate, FederateHolds(f), rtia[f] = "member"
    PROVE  /\ Linked(f) /\ AsksHold(f) /\ LinkHolds(f)
           /\ \A m \in ToSet(up[f]) : m.kind \notin {"JOIN", "RESIGN"}
           /\ \A n \in ToSet(down[f]) : n.kind \notin Replies
<1>1. LinkHolds(f) /\ Linked(f) /\ AsksHold(f)
  BY DEF FederateHolds, LinkHolds
<1>2. \A n \in ToSet(down[f]) : n.kind \notin Replies
  BY <1>1 DEF LinkHolds, DownHolds, Replies
<1> QED
  BY <1>1, <1>2 DEF LinkHolds

\* A point that f has been told of is the only one of its label it owes.
LEMMA OneDuty ==
    ASSUME TypeOK, NEW f \in Federate, AsksHold(f), NEW p \in duties[f]
    PROVE  /\ p \in pending /\ p \in owed[f] /\ p \in Point
           /\ \A q \in duties[f] : q.of = p.of => q = p
           /\ ~ Told(f, p.of) /\ ~ Queued(f, p.of) /\ ~ Answering(f, p.of)
<1>1. duties[f] \subseteq owed[f] /\ owed[f] \subseteq pending /\ pending \subseteq Point
  BY Typed DEF AsksHold
<1>2. \A q, r \in pending : q.of = r.of => q = r
  BY DEF TypeOK
<1>3. p.of \in Label \cup SavesAndRestores
  BY <1>1, Points
<1>4. AskedOnce(f, p.of) /\ Due(f, p.of)
  BY <1>3 DEF AsksHold, Due
<1> QED
  BY <1>1, <1>2, <1>4 DEF AskedOnce

LEMMA MemberSays ==
    ASSUME TypeOK, NEW f \in Federate, FederateHolds(f), rtia[f] = "member",
           NEW m \in Request, m.kind \in {"REGISTER", "REQUEST", "ANSWER"},
           m.kind = "REGISTER" => m.of \in Label,
           m.kind = "REQUEST" => m.of \in SavesAndRestores,
           IF m.kind = "ANSWER"
             THEN \E p \in duties[f] : p.of = m.of /\ duties'[f] = duties[f] \ {p}
             ELSE duties'[f] = duties[f],
           up'[f] = Append(up[f], m), PlaceKept(f),
           rtia'[f] = rtia[f], down'[f] = down[f], commands'[f] = commands[f],
           owed'[f] = owed[f]
    PROVE  FederateHolds(f)'
<1>0. /\ Linked(f) /\ AsksHold(f) /\ LinkHolds(f)
      /\ \A r \in ToSet(up[f]) : r.kind \notin {"JOIN", "RESIGN"}
      /\ \A n \in ToSet(down[f]) : n.kind \notin Replies
  BY NothingOfAMember
<1>1. /\ Linked(f)' = Linked(f) /\ (f \in members' <=> f \in members)
      /\ (f \in referenced' <=> f \in referenced)
      /\ (f \notin referenced' \cup members' <=> f \notin referenced \cup members)
  BY PlaceStays
<1>2. up[f] \in Seq(Request) /\ ToSet(up[f]) \subseteq Request
  BY Typed
<1>3. /\ ToSet(up'[f]) = ToSet(up[f]) \cup {m}
      /\ \A R : Respects(up'[f], R) <=>
                  Respects(up[f], R) /\ \A r \in ToSet(up[f]) : <<r, m>> \in R
  BY <1>2, Appended
<1>4. m.kind = "ANSWER" => ~ Answering(f, m.of)
  BY <1>0, OneDuty
<1>5. Respects(up'[f], RequestsFit)
  <2>1. \A r \in ToSet(up[f]) : r.kind = "ANSWER" /\ m.kind = "ANSWER" => r.of # m.of
    BY <1>4 DEF Answering
  <2>2. \A r \in ToSet(up[f]) : <<r, m>> \in RequestsFit
    BY <2>1, <1>0, <1>2, Relations
  <2> QED
    BY <2>2, <1>3, <1>0 DEF LinkHolds
<1>6. \A r \in ToSet(up'[f]) : UpHolds(f, r)'
  <2>1. UpHolds(f, m)'
    BY <1>0, <1>1 DEF UpHolds
  <2>2. ASSUME NEW r \in ToSet(up[f])
        PROVE  UpHolds(f, r)'
    <3>1. UpHolds(f, r) /\ r.kind \notin {"JOIN", "RESIGN"}
      BY <1>0 DEF LinkHolds
    <3> QED
      BY <3>1, <1>0, <1>1 DEF UpHolds
  <2> QED
    BY <2>1, <2>2, <1>3
<1>7. \A n \in ToSet(down'[f]) : DownHolds(f, n)'
  BY <1>0, <1>1 DEF DownHolds, Replies
<1>8. LinkHolds(f)'
  BY <1>0, <1>1, <1>3, <1>5, <1>6, <1>7 DEF LinkHolds, Linked
<1>9. AsksHold(f)'
  <2>1. duties'[f] \subseteq owed'[f] /\ duties'[f] \subseteq duties[f]
    BY <1>0 DEF AsksHold
  <2>2. InTransit(f)' = InTransit(f)
    BY DEF InTransit
  <2>3. ASSUME NEW x \in Label \cup SavesAndRestores
        PROVE  AskedOnce(f, x)' /\ (Answering(f, x)' => \E p \in owed'[f] : p.of = x)
    <3>0. AskedOnce(f, x) /\ (Answering(f, x) => \E p \in owed[f] : p.of = x)
      BY <1>0 DEF AsksHold
    <3>1. Told(f, x)' = Told(f, x) /\ Queued(f, x)' = Queued(f, x)
      BY DEF Told, Queued
    <3>2. Due(f, x)' => Due(f, x)
      BY <2>1 DEF Due
    <3>3. CASE m.kind = "ANSWER" /\ m.of = x
      <4>1. PICK p \in duties[f] : p.of = x /\ duties'[f] = duties[f] \ {p}
        BY <3>3
      <4>2. ~ Told(f, x) /\ ~ Queued(f, x) /\ p \in owed[f] /\ ~ Due(f, x)'
        BY <4>1, <1>0, OneDuty DEF Due
      <4> QED
        BY <4>1, <4>2, <3>1 DEF AskedOnce
    <3>4. CASE ~ (m.kind = "ANSWER" /\ m.of = x)
      <4>1. Answering(f, x)' = Answering(f, x)
        BY <3>4, <1>3 DEF Answering
      <4> QED
        BY <4>1, <3>0, <3>1, <3>2 DEF AskedOnce
    <3> QED
      BY <3>3, <3>4
  <2> QED
    BY <2>1, <2>2, <2>3, <1>0 DEF AsksHold
<1> QED
  BY <1>8, <1>9 DEF FederateHolds

\* An exception read from the stream changes nothing that is known of f.
LEMMA ExceptionRead ==
    ASSUME TypeOK, NEW f \in Federate,
           \/ down'[f] = down[f]
           \/ /\ down[f] # <<>> /\ down'[f] = Tail(down[f])
              /\ Head(down[f]).kind = "EXCEPTION"
    PROVE  /\ ToSet(down'[f]) \subseteq ToSet(down[f])
           /\ \A n \in ToSet(down[f]) : n.kind # "EXCEPTION" => n \in ToSet(down'[f])
           /\ \A R : Respects(down[f], R) => Respects(down'[f], R)
<1>1. down[f] \in Seq(Notice)
  BY Typed
<1>2. CASE down'[f] = down[f]
  BY <1>2
<1>3. CASE /\ down[f] # <<>> /\ down'[f] = Tail(down[f])
           /\ Head(down[f]).kind = "EXCEPTION"
  <2>1. /\ ToSet(down[f]) = {Head(down[f])} \cup ToSet(down'[f])
        /\ \A R : Respects(down[f], R) => Respects(down'[f], R)
    BY <1>1, <1>3, Taken
  <2> QED
    BY <2>1, <1>3
<1> QED
  BY <1>2, <1>3

\* What AsksHold says stays true when nothing is asked and nothing is answered.
LEMMA AsksStay ==
    ASSUME TypeOK, NEW f \in Federate, AsksHold(f),
           \A n : n.kind = "START" => (n \in ToSet(down'[f]) <=> n \in ToSet(down[f])),
           Respects(down'[f], OneStart),
           \A m \in ToSet(up'[f]) : m.kind = "ANSWER" => m \in ToSet(up[f]),
           commands'[f] = commands[f], duties'[f] = duties[f], owed'[f] = owed[f]
    PROVE  AsksHold(f)'
<1>1. ASSUME NEW x \in Label \cup SavesAndRestores
      PROVE  AskedOnce(f, x)' /\ (Answering(f, x)' => \E p \in owed'[f] : p.of = x)
  <2>1. AskedOnce(f, x) /\ (Answering(f, x) => \E p \in owed[f] : p.of = x)
    BY DEF AsksHold
  <2>2. Told(f, x)' <=> Told(f, x)
    BY DEF Told
  <2>3. Queued(f, x)' = Queued(f, x) /\ Due(f, x)' = Due(f, x)
    BY DEF Queued, Due
  <2>4. Answering(f, x)' => Answering(f, x)
    BY DEF Answering
  <2> QED
    BY <2>1, <2>2, <2>3, <2>4 DEF AskedOnce
<1>2. \A n \in InTransit(f)' : n.kind = "START" => n.point \in owed'[f]
  BY DEF InTransit, AsksHold
<1> QED
  BY <1>1, <1>2 DEF AsksHold

\* f resigns, or its RTIA ends.
LEMMA MemberResigns ==
    ASSUME TypeOK, NEW f \in Federate, FederateHolds(f), rtia[f] = "member",
           NEW m \in Request, m.kind = "RESIGN", up'[f] = Append(up[f], m),
           rtia'[f] \in {"resigning", "ending"}, PlaceKept(f),
           \/ down'[f] = down[f]
           \/ /\ down[f] # <<>> /\ down'[f] = Tail(down[f])
              /\ Head(down[f]).kind = "EXCEPTION",
           commands'[f] = commands[f], duties'[f] = duties[f], owed'[f] = owed[f]
    PROVE  FederateHolds(f)'
<1>0. /\ Linked(f) /\ AsksHold(f) /\ LinkHolds(f)
      /\ \A r \in ToSet(up[f]) : r.kind \notin {"JOIN", "RESIGN"}
      /\ \A n \in ToSet(down[f]) : n.kind \notin Replies
  BY NothingOfAMember
<1>1. /\ Linked(f)' = Linked(f) /\ (f \in members' <=> f \in members)
      /\ (f \in referenced' <=> f \in referenced)
      /\ (f \notin referenced' \cup members' <=> f \notin referenced \cup members)
  BY PlaceStays
<1>2. up[f] \in Seq(Request) /\ ToSet(up[f]) \subseteq Request
  BY Typed
<1>3. /\ ToSet(up'[f]) = ToSet(up[f]) \cup {m}
      /\ \A R : Respects(up'[f], R) <=>
                  Respects(up[f], R) /\ \A r \in ToSet(up[f]) : <<r, m>> \in R
  BY <1>2, Appended
<1>4. /\ ToSet(down'[f]) \subseteq ToSet(down[f])
      /\ \A n \in ToSet(down[f]) : n.kind # "EXCEPTION" => n \in ToSet(down'[f])
      /\ \A R : Respects(down[f], R) => Respects(down'[f], R)
  BY ExceptionRead
<1>5. Respects(up'[f], RequestsFit)
  <2>1. \A r \in ToSet(up[f]) : <<r, m>> \in RequestsFit
    BY <1>0, <1>2, Relations
  <2> QED
    BY <2>1, <1>3, <1>0 DEF LinkHolds
<1>6. \A r \in ToSet(up'[f]) : UpHolds(f, r)'
  <2>1. UpHolds(f, m)'
    BY <1>0, <1>1, <1>4 DEF UpHolds
  <2>2. ASSUME NEW r \in ToSet(up[f])
        PROVE  UpHolds(f, r)'
    <3>1. UpHolds(f, r) /\ r.kind \notin {"JOIN", "RESIGN"}
      BY <1>0 DEF LinkHolds
    <3> QED
      BY <3>1, <1>0, <1>1 DEF UpHolds
  <2> QED
    BY <2>1, <2>2, <1>3
<1>7. \A n \in ToSet(down'[f]) : DownHolds(f, n)'
  BY <1>0, <1>4 DEF DownHolds, Replies
<1>8. LinkHolds(f)'
  <2>1. Respects(down'[f], OneReply)
    BY <1>0, <1>4 DEF LinkHolds
  <2>2. f \in referenced'
    BY <1>0, <1>1 DEF LinkHolds
  <2> QED
    BY <2>1, <2>2, <1>1, <1>5, <1>6, <1>7 DEF LinkHolds
<1>9. AsksHold(f)'
  <2>1. \A n : n.kind = "START" => (n \in ToSet(down'[f]) <=> n \in ToSet(down[f]))
    BY <1>4
  <2>2. Respects(down'[f], OneStart)
    BY <1>0, <1>4 DEF AsksHold
  <2>3. \A r \in ToSet(up'[f]) : r.kind = "ANSWER" => r \in ToSet(up[f])
    BY <1>3
  <2> QED
    BY <2>1, <2>2, <2>3, <1>0, AsksStay
<1> QED
  BY <1>8, <1>9 DEF FederateHolds

LEMMA OutsiderJoins ==
    ASSUME TypeOK, NEW f \in Federate, FederateHolds(f), rtia[f] \in {"out", "resigned"},
           NEW m \in Request, m.kind = "JOIN", up'[f] = Append(up[f], m),
           rtia'[f] = "joining", PlaceKept(f), down'[f] = down[f],
           commands'[f] = commands[f], duties'[f] = duties[f], owed'[f] = owed[f]
    PROVE  FederateHolds(f)'
<1>0. LinkHolds(f) /\ f \notin members /\ up[f] = <<>>
  BY DEF FederateHolds, LinkHolds
<1>1. /\ Linked(f)' = Linked(f) /\ (f \in members' <=> f \in members)
      /\ (f \in referenced' <=> f \in referenced)
      /\ (f \notin referenced' \cup members' <=> f \notin referenced \cup members)
  BY PlaceStays
<1>2. \A n \in ToSet(down[f]) : n.kind \notin Replies
  BY <1>0 DEF LinkHolds, DownHolds, Replies
<1>3. ToSet(up'[f]) = {m} /\ \A R : Respects(up'[f], R)
  <2>1. /\ up[f] \in Seq(Request) /\ ToSet(up[f]) = {}
        /\ \A R : Respects(up[f], R)
    BY <1>0, Typed, EmptyStream
  <2>2. /\ ToSet(up'[f]) = ToSet(up[f]) \cup {m}
        /\ \A R : Respects(up'[f], R) <=>
                    Respects(up[f], R) /\ \A x \in ToSet(up[f]) : <<x, m>> \in R
    BY <2>1, Appended
  <2> QED
    BY <2>1, <2>2
<1>4. UpHolds(f, m)' /\ \A n \in ToSet(down'[f]) : DownHolds(f, n)'
  BY <1>0, <1>1, <1>2 DEF UpHolds, DownHolds, Replies
<1>5. LinkHolds(f)'
  BY <1>0, <1>1, <1>3, <1>4 DEF LinkHolds
<1> QED
  BY <1>5, <1>0, <1>1 DEF FederateHolds, Linked

\* A callback is queued, at either end of the queue.
LEMMA NoticeQueued ==
    ASSUME TypeOK, NEW f \in Federate, FederateHolds(f), rtia[f] = "member",
           down[f] # <<>>, Head(down[f]).kind # "EXCEPTION",
           down'[f] = Tail(down[f]),
           commands'[f] = InsertCommand(commands[f], Head(down[f])),
           rtia'[f] = rtia[f], up'[f] = up[f], PlaceKept(f),
           duties'[f] = duties[f], owed'[f] = owed[f]
    PROVE  /\ FederateHolds(f)'
           /\ commands'[f] \in Seq({n \in Notice : n.kind \in {"START", "END"}})
           /\ InTransit(f)' = InTransit(f)
<1> DEFINE m == Head(down[f])
           Commands == {n \in Notice : n.kind \in {"START", "END"}}
<1>0. /\ Linked(f) /\ AsksHold(f) /\ LinkHolds(f)
      /\ \A r \in ToSet(up[f]) : r.kind \notin {"JOIN", "RESIGN"}
      /\ \A n \in ToSet(down[f]) : n.kind \notin Replies
  BY NothingOfAMember
<1>1. /\ Linked(f)' = Linked(f) /\ (f \in members' <=> f \in members)
      /\ (f \in referenced' <=> f \in referenced)
      /\ (f \notin referenced' \cup members' <=> f \notin referenced \cup members)
  BY PlaceStays
<1>2. /\ down[f] \in Seq(Notice) /\ ToSet(down[f]) \subseteq Notice
      /\ ToSet(commands[f]) \subseteq Notice
  BY Typed
<1>3. /\ m \in Notice /\ ToSet(down[f]) = {m} \cup ToSet(down'[f])
      /\ \A R : Respects(down[f], R) =>
                  Respects(down'[f], R) /\ \A x \in ToSet(down'[f]) : <<m, x>> \in R
  BY <1>2, Taken
<1>4. m \in Commands
  BY <1>0, <1>3, Notices
<1> HIDE DEF m
<1>5. commands[f] \in Seq(Commands)
  BY DEF TypeOK
<1>6. /\ commands'[f] \in Seq(Commands)
      /\ ToSet(commands'[f]) = ToSet(commands[f]) \cup {m}
      /\ \A R : /\ Respects(commands[f], R)
                /\ \A x \in ToSet(commands[f]) : <<x, m>> \in R /\ <<m, x>> \in R
             => Respects(commands'[f], R)
  <2> HIDE DEF Commands
  <2>1. CASE commands'[f] = <<m>> \o commands[f]
    <3>1. /\ <<m>> \o commands[f] \in Seq(Commands)
          /\ ToSet(<<m>> \o commands[f]) = ToSet(commands[f]) \cup {m}
          /\ \A R : Respects(commands[f], R) /\ (\A x \in ToSet(commands[f]) : <<m, x>> \in R)
                   => Respects(<<m>> \o commands[f], R)
      BY <1>4, <1>5, PutFirst
    <3> QED
      BY <2>1, <3>1
  <2>2. CASE commands'[f] = Append(commands[f], m)
    <3>1. /\ Append(commands[f], m) \in Seq(Commands)
          /\ ToSet(Append(commands[f], m)) = ToSet(commands[f]) \cup {m}
          /\ \A R : Respects(Append(commands[f], m), R) <=>
                      Respects(commands[f], R) /\ \A x \in ToSet(commands[f]) : <<x, m>> \in R
      BY <1>4, <1>5, Appended
    <3> QED
      BY <2>2, <3>1
  <2> QED
    BY <2>1, <2>2 DEF InsertCommand, m
<1>7. InTransit(f)' = InTransit(f)
  BY <1>3, <1>6 DEF InTransit
<1>8. LinkHolds(f)'
  <2>1. \A n \in ToSet(down'[f]) : DownHolds(f, n)'
    BY <1>0, <1>3 DEF DownHolds, Replies
  <2>2. \A r \in ToSet(up'[f]) : UpHolds(f, r)'
    <3>1. \A r \in ToSet(up[f]) : UpHolds(f, r)
      BY <1>0 DEF LinkHolds
    <3> QED
      BY <3>1, <1>0, <1>1 DEF UpHolds
  <2>3. Respects(down'[f], OneReply) /\ f \in referenced'
    BY <1>0, <1>1, <1>3 DEF LinkHolds
  <2> QED
    BY <2>1, <2>2, <2>3, <1>0, <1>1 DEF LinkHolds
<1>9. AsksHold(f)'
  <2>1. \A n \in ToSet(down'[f]) :
          m.kind = "START" /\ n.kind = "START" => n.point.of # m.point.of
    <3>1. \A n \in ToSet(down'[f]) : <<m, n>> \in OneStart /\ n \in Notice
      BY <1>0, <1>2, <1>3 DEF AsksHold
    <3> QED
      BY <3>1, <1>3, Relations
  <2>2. ASSUME NEW x \in Label \cup SavesAndRestores
        PROVE  AskedOnce(f, x)' /\ (Answering(f, x)' => \E p \in owed'[f] : p.of = x)
    <3>1. AskedOnce(f, x) /\ (Answering(f, x) => \E p \in owed[f] : p.of = x)
      BY <1>0 DEF AsksHold
    <3>2. Due(f, x)' = Due(f, x) /\ Answering(f, x)' = Answering(f, x)
      BY DEF Due, Answering
    <3>3. Told(f, x)' => Told(f, x)
      BY <1>3 DEF Told
    <3>4. CASE m.kind = "START" /\ m.point.of = x
      <4>1. Told(f, x) /\ ~ Told(f, x)'
        BY <3>4, <2>1, <1>3 DEF Told
      <4> QED
        BY <4>1, <3>1, <3>2 DEF AskedOnce
    <3>5. CASE ~ (m.kind = "START" /\ m.point.of = x)
      <4>1. Queued(f, x)' => Queued(f, x)
        BY <3>5, <1>6 DEF Queued
      <4> QED
        BY <4>1, <3>1, <3>2, <3>3 DEF AskedOnce
    <3> QED
      BY <3>4, <3>5
  <2>3. Respects(commands'[f], OneStart)
    <3>1. \A n \in ToSet(commands[f]) :
            m.kind = "START" /\ n.kind = "START" => n.point.of # m.point.of
      <4> SUFFICES ASSUME NEW n \in ToSet(commands[f]), m.kind = "START", n.kind = "START",
                          n.point.of = m.point.of
                   PROVE  FALSE
        OBVIOUS
      <4>1. Told(f, m.point.of) /\ Queued(f, m.point.of)
        BY <1>3 DEF Told, Queued
      <4>2. m.point.of \in Label \cup SavesAndRestores
        BY <1>3, Notices, Points
      <4> QED
        BY <4>1, <4>2, <1>0 DEF AsksHold, AskedOnce
    <3>2. \A n \in ToSet(commands[f]) : <<n, m>> \in OneStart /\ <<m, n>> \in OneStart
      BY <3>1, <1>2, <1>3, Relations
    <3> QED
      BY <3>2, <1>6, <1>0 DEF AsksHold
  <2> QED
    BY <2>2, <2>3, <1>0, <1>3, <1>7 DEF AsksHold
<1> QED
  BY <1>6, <1>7, <1>8, <1>9 DEF FederateHolds

\* The answer a federate waits for is taken out of the stream.
LEMMA AnswerAwaited ==
    ASSUME TypeOK, NEW f \in Federate, FederateHolds(f),
           rtia[f] \in {"joining", "resigning", "ending"},
           NEW i \in 1 .. Len(down[f]),
           down[f][i].kind \in (IF rtia[f] = "joining" THEN {"JOINED", "JOIN_REFUSED"}
                                                       ELSE {"RESIGNED"}),
           down'[f] = RemoveAt(down[f], i),
           rtia'[f] = StateAfter(rtia[f], down[f][i].kind),
           PlaceKept(f), up'[f] = up[f], commands'[f] = commands[f],
           duties'[f] = duties[f], owed'[f] = owed[f]
    PROVE  /\ FederateHolds(f)'
           /\ ToSet(down'[f]) \subseteq ToSet(down[f])
           /\ rtia'[f] \in {"member", "refused", "resigned", "gone"}
<1> DEFINE n == down[f][i]
<1>0. LinkHolds(f) /\ (Linked(f) => AsksHold(f))
  BY DEF FederateHolds
<1>1. /\ Linked(f)' = Linked(f) /\ (f \in members' <=> f \in members)
      /\ (f \in referenced' <=> f \in referenced)
      /\ (f \notin referenced' \cup members' <=> f \notin referenced \cup members)
  BY PlaceStays
<1>2. down[f] \in Seq(Notice) /\ ToSet(down[f]) \subseteq Notice /\ n \in Notice
  BY Typed
<1>3. /\ ToSet(down[f]) = {n} \cup ToSet(down'[f])
      /\ \A R : Respects(down[f], R) =>
           /\ Respects(down'[f], R)
           /\ \A x \in ToSet(down'[f]) : <<x, n>> \in R \/ <<n, x>> \in R
  BY <1>2, TakenOut
<1> HIDE DEF n
<1>4. n.kind \in Replies /\ DownHolds(f, n)
  BY <1>0, <1>3 DEF n, Replies, LinkHolds
<1>5. \A x \in ToSet(down'[f]) : x.kind \notin Replies
  <2>1. \A x \in ToSet(down'[f]) : <<x, n>> \in OneReply \/ <<n, x>> \in OneReply
    BY <1>0, <1>3 DEF LinkHolds
  <2> QED
    BY <2>1, <1>2, <1>3, <1>4, Relations
<1>6. \A m \in ToSet(up[f]) : UpHolds(f, m) /\ m.kind \notin {"JOIN", "RESIGN"} /\ Linked(f)
  BY <1>0, <1>3, <1>4 DEF LinkHolds, UpHolds
<1>7. \/ n.kind = "JOINED" /\ rtia'[f] = "member" /\ Linked(f)
      \/ n.kind = "JOIN_REFUSED" /\ rtia'[f] = "refused"
      \/ n.kind = "RESIGNED" /\ rtia'[f] = "resigned" /\ f \notin members /\ up[f] = <<>>
      \/ n.kind = "RESIGNED" /\ rtia'[f] = "gone" /\ f \notin members /\ up[f] = <<>>
  <2>1. CASE n.kind = "JOINED"
    <3>1. rtia'[f] = "member"
      BY <2>1 DEF StateAfter, n
    <3>2. rtia[f] # "lost"
      OBVIOUS
    <3> QED
      BY <2>1, <3>1, <3>2, <1>4 DEF DownHolds
  <2>2. CASE n.kind = "JOIN_REFUSED"
    BY <2>2 DEF StateAfter, n
  <2>3. CASE n.kind = "RESIGNED"
    <3>1. rtia'[f] \in {"resigned", "gone"}
      <4>1. CASE rtia[f] = "resigning"
        BY <4>1, <2>3 DEF StateAfter, n
      <4>2. CASE rtia[f] # "resigning"
        BY <4>2, <2>3 DEF StateAfter, n
      <4> QED
        BY <4>1, <4>2
    <3> QED
      BY <2>3, <3>1, <1>4 DEF DownHolds
  <2> QED
    BY <2>1, <2>2, <2>3, <1>4 DEF Replies
<1>8. LinkHolds(f)'
  <2>1. \A x \in ToSet(down'[f]) : DownHolds(f, x)'
    BY <1>5 DEF DownHolds, Replies
  <2>2. \A m \in ToSet(up'[f]) : UpHolds(f, m)'
    BY <1>1, <1>6 DEF UpHolds
  <2>3. Respects(down'[f], OneReply) /\ Respects(up'[f], RequestsFit)
    BY <1>0, <1>3 DEF LinkHolds
  <2>4. f \notin referenced' => ~ Linked(f)'
    BY <1>0, <1>1 DEF LinkHolds
  <2>5. f \notin referenced' \cup members' =>
          /\ duties'[f] = {} /\ commands'[f] = <<>>
          /\ \A x \in ToSet(down'[f]) : x.kind # "START"
    BY <1>0, <1>1, <1>3 DEF LinkHolds
  <2>6. /\ rtia'[f] = "member" =>
              Linked(f)' /\ \A m \in ToSet(up'[f]) : m.kind \notin {"JOIN", "RESIGN"}
        /\ rtia'[f] \in {"out", "resigned"} => f \notin members' /\ up'[f] = <<>>
    BY <1>1, <1>6, <1>7
  <2> QED
    BY <2>1, <2>2, <2>3, <2>4, <2>5, <2>6 DEF LinkHolds
<1>9. ASSUME Linked(f)
      PROVE  AsksHold(f)'
  <2>1. \A x : x.kind = "START" => (x \in ToSet(down'[f]) <=> x \in ToSet(down[f]))
    BY <1>3, <1>4 DEF Replies
  <2>2. Respects(down'[f], OneStart)
    BY <1>0, <1>3, <1>9 DEF AsksHold
  <2> QED
    BY <2>1, <2>2, <1>0, <1>9, AsksStay
<1> QED
  BY <1>1, <1>3, <1>7, <1>8, <1>9 DEF FederateHolds

\* A callback is given to the federate.
LEMMA CallbackGiven ==
    ASSUME TypeOK, NEW f \in Federate, FederateHolds(f), rtia[f] = "member",
           commands[f] # <<>>, commands'[f] = Tail(commands[f]),
           duties'[f] = IF Head(commands[f]).kind = "START"
                          THEN duties[f] \cup {Head(commands[f]).point} ELSE duties[f],
           rtia'[f] = rtia[f], up'[f] = up[f], down'[f] = down[f], PlaceKept(f),
           owed'[f] = owed[f]
    PROVE  /\ FederateHolds(f)'
           /\ InTransit(f)' \subseteq InTransit(f)
<1> DEFINE m == Head(commands[f])
<1>0. /\ Linked(f) /\ AsksHold(f) /\ LinkHolds(f)
      /\ \A r \in ToSet(up[f]) : r.kind \notin {"JOIN", "RESIGN"}
      /\ \A n \in ToSet(down[f]) : n.kind \notin Replies
  BY NothingOfAMember
<1>1. /\ Linked(f)' = Linked(f) /\ (f \in members' <=> f \in members)
      /\ (f \in referenced' <=> f \in referenced)
      /\ (f \notin referenced' \cup members' <=> f \notin referenced \cup members)
  BY PlaceStays
<1>2. /\ commands[f] \in Seq(Notice) /\ \A n \in ToSet(commands[f]) : n \in Notice
  BY Typed
<1>3. /\ m \in Notice /\ ToSet(commands[f]) = {m} \cup ToSet(commands'[f])
      /\ \A R : Respects(commands[f], R) =>
                  Respects(commands'[f], R) /\ \A x \in ToSet(commands'[f]) : <<m, x>> \in R
  BY <1>2, Taken
<1> HIDE DEF m
<1>4. duties'[f] = IF m.kind = "START" THEN duties[f] \cup {m.point} ELSE duties[f]
  BY DEF m
<1>5. InTransit(f)' \subseteq InTransit(f)
  BY <1>3 DEF InTransit
<1>6. LinkHolds(f)'
  <2>1. \A n \in ToSet(down'[f]) : DownHolds(f, n)'
    BY <1>0 DEF DownHolds, Replies
  <2>2. \A r \in ToSet(up'[f]) : UpHolds(f, r)'
    <3>1. \A r \in ToSet(up[f]) : UpHolds(f, r)
      BY <1>0 DEF LinkHolds
    <3> QED
      BY <3>1, <1>0, <1>1 DEF UpHolds
  <2>3. f \in referenced'
    BY <1>0, <1>1 DEF LinkHolds
  <2> QED
    BY <2>1, <2>2, <2>3, <1>0, <1>1 DEF LinkHolds
<1>7. AsksHold(f)'
  <2>1. \A n \in ToSet(commands'[f]) :
          m.kind = "START" /\ n.kind = "START" => n.point.of # m.point.of
    <3>1. \A n \in ToSet(commands'[f]) : <<m, n>> \in OneStart /\ n \in Notice
      BY <1>0, <1>2, <1>3 DEF AsksHold
    <3> QED
      BY <3>1, <1>3, Relations
  <2>2. ASSUME NEW x \in Label \cup SavesAndRestores
        PROVE  AskedOnce(f, x)' /\ (Answering(f, x)' => \E p \in owed'[f] : p.of = x)
    <3>1. AskedOnce(f, x) /\ (Answering(f, x) => \E p \in owed[f] : p.of = x)
      BY <1>0 DEF AsksHold
    <3>2. Told(f, x)' = Told(f, x) /\ Answering(f, x)' = Answering(f, x)
      BY DEF Told, Answering
    <3>3. Queued(f, x)' => Queued(f, x)
      BY <1>3 DEF Queued
    <3>4. CASE m.kind = "START" /\ m.point.of = x
      <4>1. Queued(f, x) /\ ~ Queued(f, x)'
        BY <3>4, <2>1, <1>3 DEF Queued
      <4> QED
        BY <4>1, <3>1, <3>2 DEF AskedOnce
    <3>5. CASE ~ (m.kind = "START" /\ m.point.of = x)
      <4>1. Due(f, x)' => Due(f, x)
        BY <3>5, <1>4 DEF Due
      <4> QED
        BY <4>1, <3>1, <3>2, <3>3 DEF AskedOnce
    <3> QED
      BY <3>4, <3>5
  <2>3. m.kind = "START" => m.point \in owed[f]
    BY <1>0, <1>3 DEF AsksHold, InTransit
  <2>4. duties'[f] \subseteq owed'[f]
    BY <2>3, <1>0, <1>4 DEF AsksHold
  <2>5. Respects(commands'[f], OneStart) /\ Respects(down'[f], OneStart)
    BY <1>0, <1>3 DEF AsksHold
  <2>6. \A n \in InTransit(f)' : n.kind = "START" => n.point \in owed'[f]
    BY <1>0, <1>5 DEF AsksHold
  <2> QED
    BY <2>2, <2>4, <2>5, <2>6 DEF AsksHold
<1> QED
  BY <1>5, <1>6, <1>7 DEF FederateHolds

\* A federate is lost, with the end of what it has said.
LEMMA FederateLost ==
    ASSUME TypeOK, NEW f \in Federate, FederateHolds(f),
           rtia[f] \in {"member", "joining", "resigning"}, rtia'[f] = "lost",
           NEW k \in 0 .. Len(up[f]), up'[f] = SubSeq(up[f], 1, k),
           PlaceKept(f), down'[f] = down[f], commands'[f] = commands[f],
           duties'[f] = duties[f], owed'[f] = owed[f]
    PROVE  FederateHolds(f)'
<1>0. LinkHolds(f) /\ (Linked(f) => AsksHold(f))
  BY DEF FederateHolds
<1>1. /\ Linked(f)' = Linked(f) /\ (f \in members' <=> f \in members)
      /\ (f \in referenced' <=> f \in referenced)
      /\ (f \notin referenced' \cup members' <=> f \notin referenced \cup members)
  BY PlaceStays
<1>2. up[f] \in Seq(Request)
  BY Typed
<1>3. /\ ToSet(up'[f]) \subseteq ToSet(up[f])
      /\ \A R : Respects(up[f], R) => Respects(up'[f], R)
  BY <1>2, Cut
<1>4. up[f] = <<>> => up'[f] = <<>>
  <2>1. up[f] = <<>> => k = 0
    BY <1>2
  <2> QED
    BY <2>1, <1>2
<1>5. LinkHolds(f)'
  <2>1. ASSUME NEW n \in ToSet(down'[f])
        PROVE  DownHolds(f, n)'
    <3>1. DownHolds(f, n)
      BY <1>0, <2>1 DEF LinkHolds
    <3> QED
      BY <3>1, <1>1, <1>4 DEF DownHolds
  <2>2. ASSUME NEW r \in ToSet(up'[f])
        PROVE  UpHolds(f, r)'
    <3>1. UpHolds(f, r)
      BY <1>0, <1>3, <2>2 DEF LinkHolds
    <3> QED
      BY <3>1, <1>1 DEF UpHolds
  <2>3. Respects(down'[f], OneReply) /\ Respects(up'[f], RequestsFit)
    BY <1>0, <1>3 DEF LinkHolds
  <2> QED
    BY <2>1, <2>2, <2>3, <1>0, <1>1 DEF LinkHolds
<1>6. ASSUME Linked(f)
      PROVE  AsksHold(f)'
  <2>1. /\ \A n : n.kind = "START" => (n \in ToSet(down'[f]) <=> n \in ToSet(down[f]))
        /\ Respects(down'[f], OneStart)
        /\ \A m \in ToSet(up'[f]) : m.kind = "ANSWER" => m \in ToSet(up[f])
    BY <1>0, <1>3, <1>6 DEF AsksHold
  <2> QED
    BY <2>1, <1>0, <1>6, AsksStay
<1> QED
  BY <1>1, <1>5, <1>6 DEF FederateHolds

(***************************************************************************)
(* What the RTIG does with a request.                                        *)
(***************************************************************************)

\* The head of a stream is read or not, and a notice may be sent that is no reply.
ReadAndNotified(g) ==
    /\ up'[g] \in {up[g], Tail(up[g])} /\ (up[g] = <<>> => up'[g] = <<>>)
    /\ \/ down'[g] = down[g]
       \/ \E n \in Notice : /\ n.kind \notin Replies /\ down'[g] = Append(down[g], n)
                            /\ n.kind = "START" => g \in members
    /\ rtia'[g] = rtia[g] /\ commands'[g] = commands[g] /\ duties'[g] = duties[g]

LEMMA StreamRead ==
    ASSUME TypeOK, NEW g \in Federate,
           up'[g] \in {up[g], Tail(up[g])}, up[g] = <<>> => up'[g] = <<>>
    PROVE  /\ ToSet(up'[g]) \subseteq ToSet(up[g])
           /\ \A R : Respects(up[g], R) => Respects(up'[g], R)
<1>1. CASE up'[g] = up[g]
  BY <1>1
<1>2. CASE up[g] # <<>> /\ up'[g] = Tail(up[g])
  <2>1. up[g] \in Seq(Request)
    BY Typed
  <2>2. /\ ToSet(up[g]) = {Head(up[g])} \cup ToSet(up'[g])
        /\ \A R : Respects(up[g], R) => Respects(up'[g], R)
    BY <2>1, <1>2, Taken
  <2> QED
    BY <2>2
<1> QED
  BY <1>1, <1>2

LEMMA LinkStaysHeld ==
    ASSUME TypeOK, NEW g \in Federate, LinkHolds(g), PlaceKept(g), ReadAndNotified(g)
    PROVE  LinkHolds(g)'
<1>1. /\ Linked(g)' = Linked(g) /\ (g \in members' <=> g \in members)
      /\ (g \in referenced' <=> g \in referenced)
      /\ (g \notin referenced' \cup members' <=> g \notin referenced \cup members)
  BY PlaceStays
<1>2. /\ ToSet(up'[g]) \subseteq ToSet(up[g])
      /\ \A R : Respects(up[g], R) => Respects(up'[g], R)
      /\ up[g] = <<>> => up'[g] = <<>>
  BY StreamRead DEF ReadAndNotified
<1>3. down[g] \in Seq(Notice) /\ ToSet(down[g]) \subseteq Notice
  BY Typed
<1>4. /\ \A n \in ToSet(down'[g]) : n \in ToSet(down[g]) \/
            (n \in Notice /\ n.kind \notin Replies /\ (n.kind = "START" => g \in members))
      /\ Respects(down'[g], OneReply)
  <2>1. CASE down'[g] = down[g]
    BY <2>1 DEF LinkHolds
  <2>2. ASSUME NEW n \in Notice, n.kind \notin Replies, down'[g] = Append(down[g], n),
               n.kind = "START" => g \in members
        PROVE  /\ \A x \in ToSet(down'[g]) : x \in ToSet(down[g]) \/ x = n
               /\ Respects(down'[g], OneReply)
    <3>1. /\ ToSet(down'[g]) = ToSet(down[g]) \cup {n}
          /\ Respects(down'[g], OneReply) <=>
               Respects(down[g], OneReply) /\ \A x \in ToSet(down[g]) : <<x, n>> \in OneReply
      BY <1>3, <2>2, Appended
    <3>2. \A x \in ToSet(down[g]) : <<x, n>> \in OneReply
      BY <1>3, <2>2, Relations
    <3> QED
      BY <3>1, <3>2 DEF LinkHolds
  <2> QED
    BY <2>1, <2>2 DEF ReadAndNotified
<1>5. \A n \in ToSet(down'[g]) : DownHolds(g, n)'
  <2>1. \A n \in ToSet(down[g]) : DownHolds(g, n)
    BY DEF LinkHolds
  <2>2. rtia'[g] = rtia[g]
    BY DEF ReadAndNotified
  <2> QED
    BY <2>1, <2>2, <1>1, <1>2, <1>4 DEF DownHolds, Replies
<1>6. \A m \in ToSet(up'[g]) : UpHolds(g, m)'
  <2>1. \A m \in ToSet(up'[g]) : UpHolds(g, m)
    BY <1>2 DEF LinkHolds
  <2>2. rtia'[g] = rtia[g]
    BY DEF ReadAndNotified
  <2> QED
    BY <2>1, <2>2, <1>1, <1>4 DEF UpHolds
<1>7. rtia'[g] = rtia[g] /\ commands'[g] = commands[g] /\ duties'[g] = duties[g]
  BY DEF ReadAndNotified
<1>8. g \notin referenced' \cup members' => \A n \in ToSet(down'[g]) : n.kind # "START"
  BY <1>1, <1>4 DEF LinkHolds
<1> QED
  BY <1>1, <1>2, <1>4, <1>5, <1>6, <1>7, <1>8 DEF LinkHolds

\* A point of the next number is given to g, and g may be told.
PointGiven(g, p) ==
    \/ down'[g] = down[g] /\ owed'[g] = owed[g]
    \/ down'[g] \in {down[g], Append(down[g], Start(p))} /\ owed'[g] = owed[g] \cup {p}
    \/ down'[g] = Append(down[g], Exception) /\ owed'[g] \in {owed[g], owed[g] \cup {p}}

LEMMA NothingAskedOf ==
    ASSUME TypeOK, NEW g \in Federate, AsksHold(g), NEW x \in Label \cup SavesAndRestores,
           ~ \E p \in owed[g] : p.of = x
    PROVE  ~ Told(g, x) /\ ~ Queued(g, x) /\ ~ Due(g, x) /\ ~ Answering(g, x)
<1>1. ~ Told(g, x) /\ ~ Queued(g, x)
  BY DEF Told, Queued, AsksHold, InTransit
<1>2. ~ Due(g, x) /\ ~ Answering(g, x)
  BY DEF Due, AsksHold
<1> QED
  BY <1>1, <1>2

LEMMA AsksAPoint ==
    ASSUME TypeOK, NEW g \in Federate, AsksHold(g), ReadAndNotified(g),
           NEW p \in Point, \A q \in pending : q.of # p.of, PointGiven(g, p)
    PROVE  AsksHold(g)'
<1>0. rtia'[g] = rtia[g] /\ commands'[g] = commands[g] /\ duties'[g] = duties[g]
  BY DEF ReadAndNotified
<1>1. ToSet(up'[g]) \subseteq ToSet(up[g])
  BY StreamRead DEF ReadAndNotified
<1>2. /\ down[g] \in Seq(Notice) /\ ToSet(down[g]) \subseteq Notice
      /\ owed[g] \subseteq pending
  BY Typed
<1>3. /\ Start(p) \in Notice /\ Start(p).kind = "START" /\ Start(p).point = p
      /\ Exception \in Notice /\ Exception.kind = "EXCEPTION"
  BY Notices
<1>4. p.of \in Label \cup SavesAndRestores
  BY Points
<1>5. ~ Told(g, p.of) /\ ~ Queued(g, p.of) /\ ~ Due(g, p.of) /\ ~ Answering(g, p.of)
  BY <1>2, <1>4, NothingAskedOf
<1>6. /\ \A n \in ToSet(down'[g]) : n \in ToSet(down[g]) \/ n = Exception
                                     \/ (n = Start(p) /\ p \in owed'[g])
      /\ Respects(down'[g], OneStart)
      /\ owed'[g] \in {owed[g], owed[g] \cup {p}}
  <2>0. Respects(down[g], OneStart)
    BY DEF AsksHold
  <2>1. CASE down'[g] = down[g]
    BY <2>0, <2>1 DEF PointGiven
  <2>2. CASE down'[g] = Append(down[g], Start(p)) /\ owed'[g] = owed[g] \cup {p}
    <3>1. /\ ToSet(down'[g]) = ToSet(down[g]) \cup {Start(p)}
          /\ Respects(down'[g], OneStart) <=>
               Respects(down[g], OneStart) /\ \A x \in ToSet(down[g]) : <<x, Start(p)>> \in OneStart
      BY <1>2, <1>3, <2>2, Appended
    <3>2. \A x \in ToSet(down[g]) : x.kind = "START" => x.point.of # p.of
      BY <1>5 DEF Told
    <3>3. \A x \in ToSet(down[g]) : <<x, Start(p)>> \in OneStart
      BY <3>2, <1>2, <1>3, Relations
    <3> QED
      BY <3>1, <3>3, <2>0, <2>2
  <2>3. CASE /\ down'[g] = Append(down[g], Exception)
             /\ owed'[g] \in {owed[g], owed[g] \cup {p}}
    <3>1. /\ ToSet(down'[g]) = ToSet(down[g]) \cup {Exception}
          /\ Respects(down'[g], OneStart) <=>
               Respects(down[g], OneStart) /\ \A x \in ToSet(down[g]) : <<x, Exception>> \in OneStart
      BY <1>2, <1>3, <2>3, Appended
    <3>2. \A x \in ToSet(down[g]) : <<x, Exception>> \in OneStart
      BY <1>2, <1>3, Relations
    <3> QED
      BY <3>1, <3>2, <2>0, <2>3
  <2> QED
    BY <2>1, <2>2, <2>3 DEF PointGiven
<1>7. \A n \in InTransit(g)' : n.kind = "START" => n.point \in owed'[g]
  <2>1. \A n \in InTransit(g) : n.kind = "START" => n.point \in owed'[g]
    BY <1>6 DEF AsksHold
  <2> QED
    BY <2>1, <1>0, <1>3, <1>6 DEF InTransit
<1>8. ASSUME NEW x \in Label \cup SavesAndRestores
      PROVE  AskedOnce(g, x)' /\ (Answering(g, x)' => \E q \in owed'[g] : q.of = x)
  <2>1. AskedOnce(g, x) /\ (Answering(g, x) => \E q \in owed[g] : q.of = x)
    BY DEF AsksHold
  <2>2. Queued(g, x)' = Queued(g, x) /\ Due(g, x)' = Due(g, x)
    BY <1>0 DEF Queued, Due
  <2>3. Answering(g, x)' => Answering(g, x)
    BY <1>1 DEF Answering
  <2>4. CASE x = p.of
    BY <2>2, <2>3, <2>4, <1>5 DEF AskedOnce
  <2>5. CASE x # p.of
    <3>1. Told(g, x)' => Told(g, x)
      BY <2>5, <1>3, <1>6 DEF Told
    <3> QED
      BY <3>1, <2>1, <2>2, <2>3, <1>6 DEF AskedOnce
  <2> QED
    BY <2>4, <2>5
<1>9. duties'[g] \subseteq owed'[g] /\ Respects(commands'[g], OneStart)
  BY <1>0, <1>6 DEF AsksHold
<1> QED
  BY <1>6, <1>7, <1>8, <1>9 DEF AsksHold

\* What is sent but announces goes behind them.
LEMMA NotAnnounced ==
    ASSUME TypeOK, NEW g \in Federate, Respects(down[g], OneStart),
           \/ down'[g] = down[g]
           \/ \E n \in Notice : n.kind # "START" /\ down'[g] = Append(down[g], n)
    PROVE  /\ \A n : n.kind = "START" => (n \in ToSet(down'[g]) <=> n \in ToSet(down[g]))
           /\ Respects(down'[g], OneStart)
<1>1. CASE down'[g] = down[g]
  BY <1>1
<1>2. ASSUME NEW n \in Notice, n.kind # "START", down'[g] = Append(down[g], n)
      PROVE  /\ \A x : x.kind = "START" => (x \in ToSet(down'[g]) <=> x \in ToSet(down[g]))
             /\ Respects(down'[g], OneStart)
  <2>0. down[g] \in Seq(Notice) /\ ToSet(down[g]) \subseteq Notice
    BY Typed
  <2>1. /\ ToSet(down'[g]) = ToSet(down[g]) \cup {n}
        /\ Respects(down'[g], OneStart) <=>
             Respects(down[g], OneStart) /\ \A x \in ToSet(down[g]) : <<x, n>> \in OneStart
    BY <1>2, <2>0, Appended
  <2>2. \A x \in ToSet(down[g]) : <<x, n>> \in OneStart
    BY <1>2, <2>0, Relations
  <2> QED
    BY <2>1, <2>2, <1>2
<1> QED
  BY <1>1, <1>2

LEMMA AsksStayUnannounced ==
    ASSUME TypeOK, NEW g \in Federate, AsksHold(g), ReadAndNotified(g),
           \/ down'[g] = down[g]
           \/ \E n \in Notice : n.kind # "START" /\ down'[g] = Append(down[g], n),
           owed'[g] = owed[g]
    PROVE  AsksHold(g)'
<1>1. rtia'[g] = rtia[g] /\ commands'[g] = commands[g] /\ duties'[g] = duties[g]
  BY DEF ReadAndNotified
<1>2. ToSet(up'[g]) \subseteq ToSet(up[g])
  BY StreamRead DEF ReadAndNotified
<1>3. Respects(down[g], OneStart)
  BY DEF AsksHold
<1>4. /\ \A n : n.kind = "START" => (n \in ToSet(down'[g]) <=> n \in ToSet(down[g]))
      /\ Respects(down'[g], OneStart)
  BY <1>3, NotAnnounced
<1> QED
  BY <1>1, <1>2, <1>4, AsksStay

\* The answer of g is read, and g owes it no more.
LEMMA AsksAnswered ==
    ASSUME TypeOK, NEW g \in Federate, AsksHold(g), LinkHolds(g), ReadAndNotified(g),
           \/ down'[g] = down[g]
           \/ \E n \in Notice : n.kind # "START" /\ down'[g] = Append(down[g], n),
           up[g] # <<>>, up'[g] = Tail(up[g]), Head(up[g]).kind = "ANSWER",
           owed'[g] = Answered(owed[g], Head(up[g]).of)
    PROVE  /\ AsksHold(g)'
           /\ \A m \in ToSet(up'[g]) : m.kind = "ANSWER" => m.of # Head(up[g]).of
<1> DEFINE y == Head(up[g]).of
<1>1. rtia'[g] = rtia[g] /\ commands'[g] = commands[g] /\ duties'[g] = duties[g]
  BY DEF ReadAndNotified
<1>2. up[g] \in Seq(Request) /\ ToSet(up[g]) \subseteq Request /\ InTransit(g) \subseteq Notice
      /\ owed[g] \subseteq pending /\ pending \subseteq Point
  BY Typed
<1>3. /\ Head(up[g]) \in Request /\ ToSet(up[g]) = {Head(up[g])} \cup ToSet(up'[g])
      /\ \A R : Respects(up[g], R) =>
                  Respects(up'[g], R) /\ \A x \in ToSet(up'[g]) : <<Head(up[g]), x>> \in R
  BY <1>2, Taken
<1>4. \A m \in ToSet(up'[g]) : m.kind = "ANSWER" => m.of # y
  <2>1. \A m \in ToSet(up'[g]) : <<Head(up[g]), m>> \in RequestsFit /\ m \in Request
    BY <1>2, <1>3 DEF LinkHolds
  <2> QED
    BY <2>1, <1>3, Relations
<1>5. Answering(g, y) /\ y \in Label \cup SavesAndRestores
  BY <1>3, Requests DEF Answering
<1>6. ~ Told(g, y) /\ ~ Queued(g, y) /\ ~ Due(g, y)
  BY <1>5 DEF AsksHold, AskedOnce
<1> HIDE DEF y
<1>7. owed'[g] = {p \in owed[g] : p.of # y}
  BY DEF Answered, y
<1>8. /\ \A n : n.kind = "START" => (n \in ToSet(down'[g]) <=> n \in ToSet(down[g]))
      /\ Respects(down'[g], OneStart)
  BY NotAnnounced DEF AsksHold
<1>9. \A n \in InTransit(g)' : n.kind = "START" => n.point \in owed'[g]
  <2> SUFFICES ASSUME NEW n \in InTransit(g)', n.kind = "START"
               PROVE  n.point \in owed'[g]
    OBVIOUS
  <2>1. n \in InTransit(g)
    BY <1>1, <1>8 DEF InTransit
  <2>2. n.point \in owed[g] /\ n.point.of # y
    BY <2>1, <1>6 DEF AsksHold, Told, Queued, InTransit
  <2> QED
    BY <2>2, <1>7
<1>10. duties'[g] \subseteq owed'[g]
  BY <1>1, <1>6, <1>7 DEF AsksHold, Due
<1>11. ASSUME NEW x \in Label \cup SavesAndRestores
       PROVE  AskedOnce(g, x)' /\ (Answering(g, x)' => \E p \in owed'[g] : p.of = x)
  <2>1. AskedOnce(g, x) /\ (Answering(g, x) => \E p \in owed[g] : p.of = x)
    BY DEF AsksHold
  <2>2. /\ Told(g, x)' <=> Told(g, x)
        /\ Queued(g, x)' = Queued(g, x) /\ Due(g, x)' = Due(g, x)
    BY <1>1, <1>8 DEF Told, Queued, Due
  <2>3. (Answering(g, x)' => Answering(g, x)) /\ (x = y => ~ Answering(g, x)')
    BY <1>3, <1>4 DEF Answering
  <2> QED
    BY <2>1, <2>2, <2>3, <1>7 DEF AskedOnce
<1>12. Respects(commands'[g], OneStart)
  BY <1>1 DEF AsksHold
<1> QED
  BY <1>4, <1>8, <1>9, <1>10, <1>11, <1>12 DEF AsksHold, y

(***************************************************************************)
(* Joining, resigning and being killed.                                      *)
(***************************************************************************)

\* Nothing is known of a federate that has not joined yet, nor of its points.
LEMMA JoinAccepted ==
    ASSUME TypeOK, NEW f \in Federate, FederateHolds(f), IsFiniteSet(pending),
           up[f] # <<>>, Head(up[f]).kind = "JOIN", up'[f] = Tail(up[f]),
           f \notin referenced, f \in members', f \notin unlinked', f \in referenced',
           NEW points, points = {p \in pending : p.of \in Label}, owed'[f] = points,
           down'[f] = Send(f, IF rtia[f] = "lost" THEN down[f]
                                ELSE down[f] \o SetToSeq({Start(p) : p \in points}),
                           [kind |-> "JOINED"]),
           rtia'[f] = rtia[f], commands'[f] = commands[f], duties'[f] = duties[f]
    PROVE  /\ FederateHolds(f)'
           /\ down'[f] \in Seq(Notice)
           /\ \A n : n.kind = "END" => (n \in InTransit(f)' <=> n \in InTransit(f))
<1> DEFINE S == {Start(p) : p \in points}
           announces == SetToSeq(S)
           joined == [kind |-> "JOINED"]
<1>0. LinkHolds(f)
  BY DEF FederateHolds
<1>1. /\ up[f] \in Seq(Request) /\ down[f] \in Seq(Notice) /\ ToSet(down[f]) \subseteq Notice
      /\ ToSet(up[f]) \subseteq Request /\ pending \subseteq Point
  BY Typed
<1>2. /\ Head(up[f]) \in Request /\ ToSet(up[f]) = {Head(up[f])} \cup ToSet(up'[f])
      /\ \A R : Respects(up[f], R) =>
                  Respects(up'[f], R) /\ \A x \in ToSet(up'[f]) : <<Head(up[f]), x>> \in R
  BY <1>1, Taken
<1>3. ToSet(up'[f]) = {}
  <2>1. \A x \in ToSet(up'[f]) : <<Head(up[f]), x>> \in RequestsFit /\ x \in Request
    BY <1>0, <1>1, <1>2 DEF LinkHolds
  <2> QED
    BY <2>1, <1>2, Relations
<1>4. /\ f \notin members /\ rtia[f] \in {"joining", "lost"}
      /\ \A n \in ToSet(down[f]) : n.kind \notin Replies
  BY <1>0, <1>2 DEF LinkHolds, UpHolds
<1>5. /\ duties[f] = {} /\ commands[f] = <<>>
      /\ \A n \in ToSet(down[f]) : n.kind # "START"
  BY <1>0, <1>4 DEF LinkHolds
<1>6. ToSet(commands[f]) = {}
  BY <1>5, EmptyStream
<1>7. /\ announces \in Seq(S) /\ ToSet(announces) = S
      /\ \A R : (\A x, y \in S : x # y => <<x, y>> \in R) => Respects(announces, R)
  <2>1. IsFiniteSet(points)
    BY FS_Subset
  <2>2. IsFiniteSet(S)
    <3>1. [p \in points |-> Start(p)] \in Surjection(points, S)
      BY DEF Surjection
    <3> QED
      BY <2>1, <3>1, FS_Surjection
  <2> QED
    BY <2>2, Listed
<1>8. /\ S \subseteq Notice
      /\ \A n \in S : n.kind = "START" /\ n.point \in points /\ n = Start(n.point)
  <2>1. ASSUME NEW p \in points
        PROVE  Start(p) \in Notice /\ Start(p).kind = "START" /\ Start(p).point = p
    <3>1. p \in Point
      BY <1>1
    <3> QED
      BY <3>1, Notices
  <2> QED
    BY <2>1
<1>9. joined \in Notice /\ joined.kind = "JOINED"
  BY Notices DEF Replies
<1> HIDE DEF S, announces, joined
<1>10. \A x, y \in S : x # y => x.point.of # y.point.of
  BY <1>8 DEF TypeOK
<1>11. announces \in Seq(Notice)
  BY <1>7, <1>8, SeqMonotonic
<1>12. /\ down'[f] \in Seq(Notice) /\ ToSet(down[f]) \subseteq ToSet(down'[f])
       /\ \A n \in ToSet(down'[f]) : \/ n \in ToSet(down[f]) \/ n \in S
                                     \/ n = joined /\ rtia[f] = "joining"
       /\ Respects(down'[f], OneReply) /\ Respects(down'[f], OneStart)
  <2>0. Respects(down[f], OneReply) /\ Respects(down[f], OneStart)
    <3>1. \A i \in 1 .. Len(down[f]) : down[f][i] \in ToSet(down[f]) /\ down[f][i] \in Notice
      BY <1>1, Holds
    <3>2. \A i, j \in 1 .. Len(down[f]) : <<down[f][i], down[f][j]>> \in OneStart
      BY <3>1, <1>5, Relations
    <3> QED
      BY <3>2, <1>0 DEF LinkHolds, Respects
  <2>1. CASE rtia[f] = "lost"
    <3>1. down'[f] = down[f]
      BY <2>1 DEF Send
    <3> QED
      BY <3>1, <2>0, <1>1
  <2>2. CASE rtia[f] # "lost"
    <3> DEFINE q == down[f] \o announces
    <3>1. rtia[f] = "joining" /\ down'[f] = Append(q, joined)
      BY <2>2, <1>4 DEF Send, announces, S, joined
    <3>2. /\ q \in Seq(Notice) /\ ToSet(q) = ToSet(down[f]) \cup S
          /\ \A R : /\ Respects(down[f], R) /\ Respects(announces, R)
                    /\ \A x \in ToSet(down[f]), y \in S : <<x, y>> \in R
                  => Respects(q, R)
      BY <1>1, <1>7, <1>11, Joined
    <3>3. Respects(announces, OneReply) /\ Respects(announces, OneStart)
      <4>1. \A x, y \in S : x # y => <<x, y>> \in OneReply /\ <<x, y>> \in OneStart
        BY <1>8, <1>10, Notices, Relations
      <4> QED
        BY <4>1, <1>7
    <3>4. \A x \in ToSet(down[f]), y \in S : <<x, y>> \in OneReply /\ <<x, y>> \in OneStart
      BY <1>1, <1>4, <1>5, <1>8, Relations
    <3>5. Respects(q, OneReply) /\ Respects(q, OneStart)
      BY <2>0, <3>2, <3>3, <3>4
    <3> HIDE DEF q
    <3>6. /\ Append(q, joined) \in Seq(Notice)
          /\ ToSet(Append(q, joined)) = ToSet(q) \cup {joined}
          /\ \A R : Respects(Append(q, joined), R) <=>
                      Respects(q, R) /\ \A x \in ToSet(q) : <<x, joined>> \in R
      BY <3>2, <1>9, Appended
    <3>7. \A x \in ToSet(q) : <<x, joined>> \in OneReply /\ <<x, joined>> \in OneStart
      <4>1. \A x \in ToSet(q) : x \in Notice /\ x.kind \notin Replies
        BY <3>2, <1>1, <1>4, <1>8, Notices
      <4> QED
        BY <4>1, <1>9, Relations
    <3> QED
      BY <3>1, <3>2, <3>5, <3>6, <3>7
  <2> QED
    BY <2>1, <2>2
<1>13. Linked(f)'
  BY DEF Linked
<1>14. LinkHolds(f)'
  <2>1. \A n \in ToSet(down'[f]) : DownHolds(f, n)'
    BY <1>4, <1>8, <1>9, <1>12, <1>13 DEF DownHolds, Replies
  <2>2. Respects(up'[f], RequestsFit)
    BY <1>0, <1>2 DEF LinkHolds
  <2> QED
    BY <2>1, <2>2, <1>3, <1>4, <1>12, <1>13 DEF LinkHolds
<1>15. AsksHold(f)'
  <2>1. \A n \in InTransit(f)' : n.kind = "START" => n.point \in owed'[f]
    BY <1>5, <1>6, <1>8, <1>9, <1>12 DEF InTransit
  <2>2. ASSUME NEW x
        PROVE  ~ Queued(f, x)' /\ ~ Due(f, x)' /\ ~ Answering(f, x)'
    BY <1>3, <1>5, <1>6 DEF Queued, Due, Answering
  <2>3. Respects(commands'[f], OneStart)
    BY <1>5, EmptyStream
  <2> QED
    BY <2>1, <2>2, <2>3, <1>5, <1>12 DEF AsksHold, AskedOnce
<1>16. \A n : n.kind = "END" => (n \in InTransit(f)' <=> n \in InTransit(f))
  BY <1>6, <1>8, <1>9, <1>12 DEF InTransit
<1> QED
  BY <1>12, <1>13, <1>14, <1>15, <1>16 DEF FederateHolds

LEMMA ReplySent ==
    ASSUME TypeOK, NEW f \in Federate, LinkHolds(f),
           \A n \in ToSet(down[f]) : n.kind \notin Replies,
           NEW kind \in Replies, down'[f] = Send(f, down[f], [kind |-> kind])
    PROVE  /\ down'[f] \in Seq(Notice) /\ ToSet(down[f]) \subseteq ToSet(down'[f])
           /\ \A n \in ToSet(down'[f]) : \/ n \in ToSet(down[f])
                                         \/ n.kind = kind /\ n.kind \notin {"START", "END"}
           /\ Respects(down'[f], OneReply)
<1> DEFINE m == [kind |-> kind]
<1>1. down[f] \in Seq(Notice) /\ ToSet(down[f]) \subseteq Notice
  BY Typed
<1>2. m \in Notice /\ m.kind = kind /\ m.kind \notin {"START", "END"}
  BY Notices DEF Replies
<1> HIDE DEF m
<1>3. /\ Append(down[f], m) \in Seq(Notice)
      /\ ToSet(Append(down[f], m)) = ToSet(down[f]) \cup {m}
      /\ Respects(Append(down[f], m), OneReply) <=>
           Respects(down[f], OneReply) /\ \A x \in ToSet(down[f]) : <<x, m>> \in OneReply
  BY <1>1, <1>2, Appended
<1>4. \A x \in ToSet(down[f]) : <<x, m>> \in OneReply
  BY <1>1, <1>2, Relations
<1>5. down'[f] \in {down[f], Append(down[f], m)}
  BY Sent DEF m
<1>6. Respects(down[f], OneReply)
  BY DEF LinkHolds
<1> QED
  BY <1>1, <1>2, <1>3, <1>4, <1>5, <1>6

\* The request to join or to resign is the last one of the federate.
LEMMA LastRequest ==
    ASSUME TypeOK, NEW f \in Federate, LinkHolds(f), up[f] # <<>>,
           Head(up[f]).kind \in {"JOIN", "RESIGN"}, up'[f] = Tail(up[f])
    PROVE  /\ up'[f] = <<>> /\ ToSet(up'[f]) = {} /\ Respects(up'[f], RequestsFit)
           /\ UpHolds(f, Head(up[f]))
           /\ \A n \in ToSet(down[f]) : n.kind \notin Replies
<1>1. up[f] \in Seq(Request) /\ ToSet(up[f]) \subseteq Request
  BY Typed
<1>2. /\ Head(up[f]) \in Request /\ ToSet(up[f]) = {Head(up[f])} \cup ToSet(up'[f])
      /\ up'[f] \in Seq(Request)
      /\ \A R : Respects(up[f], R) =>
                  Respects(up'[f], R) /\ \A x \in ToSet(up'[f]) : <<Head(up[f]), x>> \in R
  BY <1>1, Taken
<1>3. ToSet(up'[f]) = {}
  <2>1. \A x \in ToSet(up'[f]) : <<Head(up[f]), x>> \in RequestsFit /\ x \in Request
    BY <1>1, <1>2 DEF LinkHolds
  <2> QED
    BY <2>1, <1>2, Relations
<1>4. up'[f] = <<>>
  <2>1. up'[f] # <<>> => Head(up'[f]) \in ToSet(up'[f])
    BY <1>2, Taken, ZenonT(40)
  <2> QED
    BY <2>1, <1>3
<1>5. UpHolds(f, Head(up[f]))
  BY <1>2 DEF LinkHolds
<1>6. \A n \in ToSet(down[f]) : n.kind \notin Replies
  BY <1>5 DEF UpHolds
<1> QED
  BY <1>3, <1>4, <1>5, <1>6, EmptyStream

\* f is a member, but its link does not refer to it.
LEMMA LinkRefused ==
    ASSUME TypeOK, NEW f \in Federate, FederateHolds(f),
           up[f] # <<>>, Head(up[f]).kind = "JOIN", up'[f] = Tail(up[f]),
           f \in members', f \in unlinked',
           down'[f] = Send(f, down[f], [kind |-> "JOIN_REFUSED"]),
           rtia'[f] = rtia[f], commands'[f] = commands[f], duties'[f] = duties[f]
    PROVE  /\ FederateHolds(f)'
           /\ down'[f] \in Seq(Notice)
           /\ \A n : n.kind = "END" => (n \in InTransit(f)' <=> n \in InTransit(f))
<1>0. LinkHolds(f)
  BY DEF FederateHolds
<1>1. /\ ToSet(up'[f]) = {} /\ Respects(up'[f], RequestsFit) /\ up'[f] = <<>>
      /\ UpHolds(f, Head(up[f]))
      /\ \A n \in ToSet(down[f]) : n.kind \notin Replies
  BY <1>0, LastRequest
<1>2. rtia[f] \in {"joining", "lost"}
  BY <1>1 DEF UpHolds
<1>3. /\ down'[f] \in Seq(Notice) /\ ToSet(down[f]) \subseteq ToSet(down'[f])
      /\ \A n \in ToSet(down'[f]) :
            n \in ToSet(down[f]) \/ (n.kind = "JOIN_REFUSED" /\ n.kind \notin {"START", "END"})
      /\ Respects(down'[f], OneReply)
  <2>1. "JOIN_REFUSED" \in Replies
    BY DEF Replies
  <2> QED
    BY <2>1, <1>0, <1>1, ReplySent
<1>4. \A n \in ToSet(down'[f]) : DownHolds(f, n)'
  BY <1>1, <1>2, <1>3 DEF DownHolds, Replies
<1>5. ~ Linked(f)'
  BY DEF Linked
<1>6. LinkHolds(f)'
  BY <1>1, <1>2, <1>3, <1>4, <1>5 DEF LinkHolds
<1>7. \A n : n.kind = "END" => (n \in InTransit(f)' <=> n \in InTransit(f))
  BY <1>3 DEF InTransit
<1> QED
  BY <1>3, <1>5, <1>6, <1>7 DEF FederateHolds

\* f has resigned, and knows of it when its link is open.
LEMMA ResignAccepted ==
    ASSUME TypeOK, NEW f \in Federate, FederateHolds(f),
           up[f] # <<>>, Head(up[f]).kind = "RESIGN", up'[f] = Tail(up[f]),
           f \notin members', referenced' = referenced,
           down'[f] = Send(f, down[f], [kind |-> "RESIGNED"]),
           rtia'[f] = rtia[f], commands'[f] = commands[f], duties'[f] = duties[f]
    PROVE  /\ FederateHolds(f)'
           /\ down'[f] \in Seq(Notice)
           /\ \A n : n.kind = "END" => (n \in InTransit(f)' <=> n \in InTransit(f))
<1>0. LinkHolds(f)
  BY DEF FederateHolds
<1>1. /\ ToSet(up'[f]) = {} /\ Respects(up'[f], RequestsFit) /\ up'[f] = <<>>
      /\ UpHolds(f, Head(up[f]))
      /\ \A n \in ToSet(down[f]) : n.kind \notin Replies
  BY <1>0, LastRequest
<1>2. rtia[f] \in {"resigning", "ending", "lost"} /\ Linked(f)
  BY <1>1 DEF UpHolds
<1>3. /\ down'[f] \in Seq(Notice) /\ ToSet(down[f]) \subseteq ToSet(down'[f])
      /\ \A n \in ToSet(down'[f]) :
            n \in ToSet(down[f]) \/ (n.kind = "RESIGNED" /\ n.kind \notin {"START", "END"})
      /\ Respects(down'[f], OneReply)
  <2>1. "RESIGNED" \in Replies
    BY DEF Replies
  <2> QED
    BY <2>1, <1>0, <1>1, ReplySent
<1>4. \A n \in ToSet(down'[f]) : DownHolds(f, n)'
  BY <1>1, <1>2, <1>3 DEF DownHolds, Replies
<1>5. ~ Linked(f)' /\ f \in referenced'
  BY <1>0, <1>2 DEF Linked, LinkHolds
<1>6. LinkHolds(f)'
  BY <1>1, <1>2, <1>3, <1>4, <1>5 DEF LinkHolds
<1>7. \A n : n.kind = "END" => (n \in InTransit(f)' <=> n \in InTransit(f))
  BY <1>3 DEF InTransit
<1> QED
  BY <1>3, <1>5, <1>6, <1>7 DEF FederateHolds

LEMMA FederateKilled ==
    ASSUME TypeOK, NEW f \in Federate, FederateHolds(f), rtia[f] = "lost", up[f] = <<>>,
           Linked(f), f \notin members', referenced' = referenced,
           up'[f] = up[f], down'[f] = down[f],
           rtia'[f] = rtia[f], commands'[f] = commands[f], duties'[f] = duties[f]
    PROVE  FederateHolds(f)'
<1>1. LinkHolds(f) /\ f \in referenced
  BY DEF FederateHolds, LinkHolds
<1>2. \A n \in ToSet(down'[f]) : DownHolds(f, n)'
  BY DEF DownHolds
<1>3. ToSet(up'[f]) = {} /\ Respects(up'[f], RequestsFit) /\ ~ Linked(f)'
  BY EmptyStream DEF Linked
<1>4. LinkHolds(f)'
  BY <1>1, <1>2, <1>3 DEF LinkHolds
<1> QED
  BY <1>3, <1>4 DEF FederateHolds

(***************************************************************************)
(* The steps of Rendezvous, in terms of what implements it.                  *)
(***************************************************************************)

AbstractStep == [Abstract!Next]_(Abstract!vars)

\* The federates of S have the same points to answer, the same ends to hear of.
SameRemaining(S) == \A g \in S : Remaining(g)' = Remaining(g)
SameNews(S) == \A g \in S : News(g)' = News(g)

LEMMA Stutters ==
    ASSUME UNCHANGED <<members, pending, round, Lost, Refusals>>,
           SameRemaining(Federate), SameNews(Federate)
    PROVE  AbstractStep
<1>1. /\ [g \in Federate |-> Remaining(g)]' = [g \in Federate |-> Remaining(g)]
      /\ [g \in Federate |-> News(g)]' = [g \in Federate |-> News(g)]
  BY DEF SameRemaining, SameNews
<1> QED
  BY <1>1 DEF AbstractStep, Abstract!vars

LEMMA Enters ==
    ASSUME NEW f \in Federate, f \notin members, members' = members \cup {f},
           UNCHANGED <<pending, round, Lost, Refusals>>,
           Remaining(f)' \subseteq pending, SameRemaining(Federate \ {f}), SameNews(Federate)
    PROVE  AbstractStep
<1>1. /\ [g \in Federate |-> Remaining(g)]' =
            [[g \in Federate |-> Remaining(g)] EXCEPT ![f] = [g \in Federate |-> Remaining(g)]'[f]]
      /\ [g \in Federate |-> News(g)]' = [g \in Federate |-> News(g)]
      /\ [g \in Federate |-> Remaining(g)]'[f] \subseteq pending
  BY DEF SameRemaining, SameNews
<1>2. Abstract!Enter(f)
  BY <1>1 DEF Abstract!Enter
<1> QED
  BY <1>2 DEF AbstractStep, Abstract!Next

LEMMA Leaves ==
    ASSUME NEW f \in Federate, members' = members \ {f},
           UNCHANGED <<pending, round, Lost, Refusals>>,
           Remaining(f)' = {}, SameRemaining(Federate \ {f}), SameNews(Federate)
    PROVE  AbstractStep
<1>1. /\ [g \in Federate |-> Remaining(g)]' = [[g \in Federate |-> Remaining(g)] EXCEPT ![f] = {}]
      /\ [g \in Federate |-> News(g)]' = [g \in Federate |-> News(g)]
  BY DEF SameRemaining, SameNews
<1>2. Abstract!Leave(f)
  BY <1>1 DEF Abstract!Leave
<1> QED
  BY <1>2 DEF AbstractStep, Abstract!Next

LEMMA Loses ==
    ASSUME NEW f \in Federate, f \notin Lost, Lost' = Lost \cup {f},
           Refusals' = {x \in Refusals : x.by # f},
           UNCHANGED <<members, pending, round>>,
           Remaining(f) \subseteq Remaining(f)', Remaining(f)' \subseteq pending,
           SameRemaining(Federate \ {f}), SameNews(Federate)
    PROVE  AbstractStep
<1>1. /\ [g \in Federate |-> Remaining(g)]' =
            [[g \in Federate |-> Remaining(g)] EXCEPT ![f] = [g \in Federate |-> Remaining(g)]'[f]]
      /\ [g \in Federate |-> News(g)]' = [g \in Federate |-> News(g)]
      /\ [g \in Federate |-> Remaining(g)][f] \subseteq [g \in Federate |-> Remaining(g)]'[f]
      /\ [g \in Federate |-> Remaining(g)]'[f] \subseteq pending
  BY DEF SameRemaining, SameNews
<1>2. Abstract!Lose(f)
  BY <1>1 DEF Abstract!Lose
<1> QED
  BY <1>2 DEF AbstractStep, Abstract!Next

LEMMA Hears ==
    ASSUME NEW f \in Federate, NEW n \in News(f), News(f)' = News(f) \ {n},
           UNCHANGED <<members, pending, round, Lost, Refusals>>,
           SameRemaining(Federate), SameNews(Federate \ {f})
    PROVE  AbstractStep
<1>1. /\ [g \in Federate |-> Remaining(g)]' = [g \in Federate |-> Remaining(g)]
      /\ [g \in Federate |-> News(g)]' =
            [[g \in Federate |-> News(g)] EXCEPT ![f] = [g \in Federate |-> News(g)][f] \ {n}]
      /\ n \in [g \in Federate |-> News(g)][f]
  BY DEF SameRemaining, SameNews
<1>2. Abstract!Hear(f)
  BY <1>1 DEF Abstract!Hear
<1> QED
  BY <1>2 DEF AbstractStep, Abstract!Next

LEMMA Answers ==
    ASSUME NEW f \in Federate, f \in members, f \notin Lost, NEW p \in Remaining(f),
           NEW ok \in BOOLEAN,
           Remaining(f)' = Remaining(f) \ {p},
           Refusals' = IF ok THEN Refusals ELSE Refusals \cup {[by |-> f, point |-> p]},
           UNCHANGED <<members, pending, round, Lost>>,
           SameRemaining(Federate \ {f}), SameNews(Federate)
    PROVE  AbstractStep
<1>1. /\ [g \in Federate |-> Remaining(g)]' =
            [[g \in Federate |-> Remaining(g)] EXCEPT
                ![f] = [g \in Federate |-> Remaining(g)][f] \ {p}]
      /\ [g \in Federate |-> News(g)]' = [g \in Federate |-> News(g)]
      /\ p \in [g \in Federate |-> Remaining(g)][f]
  BY DEF SameRemaining, SameNews
<1>2. Abstract!Answer(f, p, ok)
  BY <1>1 DEF Abstract!Answer
<1> QED
  BY <1>1, <1>2 DEF AbstractStep, Abstract!Next

LEMMA Begins ==
    ASSUME NEW p \in Point, p.round = round + 1, round' = round + 1,
           \A q \in pending : q.of # p.of, pending' = pending \cup {p},
           NEW T \in SUBSET members,
           \A g \in Federate :
              Remaining(g)' = IF g \in T THEN Remaining(g) \cup {p} ELSE Remaining(g),
           UNCHANGED <<members, Lost, Refusals>>, SameNews(Federate)
    PROVE  AbstractStep
<1>1. p = [of |-> p.of, round |-> round + 1] /\ p.of \in Label \cup SavesAndRestores
  BY DEF Point, SavesAndRestores
<1>2. /\ [g \in Federate |-> Remaining(g)]' =
            [g \in Federate |-> IF g \in T THEN [h \in Federate |-> Remaining(h)][g] \cup {p}
                                          ELSE [h \in Federate |-> Remaining(h)][g]]
      /\ [g \in Federate |-> News(g)]' = [g \in Federate |-> News(g)]
  BY DEF SameNews
<1>3. Abstract!Begin(p.of, T)
  BY <1>1, <1>2 DEF Abstract!Begin
<1> QED
  BY <1>1, <1>3 DEF AbstractStep, Abstract!Next

LEMMA Finishes ==
    ASSUME NEW p \in pending, pending' = pending \ {p}, NEW ok \in BOOLEAN,
           \A g \in Federate : p \notin Remaining(g),
           ok => \A x \in Refusals : x.point # p,
           NEW S \in SUBSET members,
           \A g \in S : News(g)' = News(g) \cup {[point |-> p, ok |-> ok]},
           SameNews(Federate \ S),
           UNCHANGED <<members, round, Lost, Refusals>>, SameRemaining(Federate)
    PROVE  AbstractStep
<1>1. /\ [g \in Federate |-> Remaining(g)]' = [g \in Federate |-> Remaining(g)]
      /\ [g \in Federate |-> News(g)]' =
            [g \in Federate |-> IF g \in S
               THEN [h \in Federate |-> News(h)][g] \cup {[point |-> p, ok |-> ok]}
               ELSE [h \in Federate |-> News(h)][g]]
      /\ \A g \in Federate : p \notin [h \in Federate |-> Remaining(h)][g]
  BY DEF SameRemaining, SameNews
<1>2. ok => ~ Abstract!Refused(p)
  BY DEF Abstract!Refused
<1>3. Abstract!Finish(p, ok, S)
  BY <1>1, <1>2 DEF Abstract!Finish
<1> QED
  BY <1>3 DEF AbstractStep, Abstract!Next

\* What is left to answer, and what there is to hear, follow from what f owes and the
\* answers and the ends on its streams.
LEMMA RemainingStays ==
    ASSUME NEW g, owed'[g] = owed[g],
           \A m : m.kind = "ANSWER" => (m \in ToSet(up'[g]) <=> m \in ToSet(up[g]))
    PROVE  Remaining(g)' = Remaining(g)
<1>1. \A x : Answering(g, x)' <=> Answering(g, x)
  BY DEF Answering
<1> QED
  BY <1>1 DEF Remaining

LEMMA NewsStays ==
    ASSUME NEW g,
           \A n : n.kind = "END" => (n \in InTransit(g)' <=> n \in InTransit(g))
    PROVE  News(g)' = News(g)
BY DEF News

LEMMA StandingStays ==
    ASSUME TypeOK, failed' = failed,
           \A g \in Federate : rtia'[g] = "lost" <=> rtia[g] = "lost"
    PROVE  Lost' = Lost /\ Refusals' = Refusals
<1>1. \A x \in failed : x.by \in Federate
  BY DEF TypeOK
<1> QED
  BY <1>1 DEF Lost, Refusals

(***************************************************************************)
(* The actions of a federate and its RTIA keep the invariant, and do nothing *)
(* that Rendezvous does not allow.                                           *)
(***************************************************************************)

LEMMA Parts ==
    ASSUME FederationInvariant
    PROVE  /\ TypeOK /\ EndsHold /\ FailuresHold
           /\ \A g \in Federate : FederateHolds(g)
BY DEF FederationInvariant, FederateHolds

\* An action of f leaves the others and the RTIG alone.
OnlyMoves(f) ==
    \A g \in Federate \ {f} :
        /\ rtia'[g] = rtia[g] /\ up'[g] = up[g] /\ down'[g] = down[g]
        /\ commands'[g] = commands[g] /\ duties'[g] = duties[g]

LEMMA PlacesKept ==
    ASSUME UNCHANGED rtigVars, NEW g
    PROVE  PlaceKept(g) /\ owed'[g] = owed[g]
BY DEF rtigVars, PlaceKept, Member, Unlinked, Referenced

LEMMA RtiaMoves ==
    ASSUME FederationInvariant, NEW f \in Federate, UNCHANGED rtigVars, OnlyMoves(f),
           TypeOK', FederateHolds(f)', FailuresHold', rtia[f] # "lost",
           \A m \in InTransit(f)' : m.kind = "END" => m \in InTransit(f),
           \A x \in failed' : x \in failed \/ x.point \in pending
    PROVE  FederationInvariant'
<1>1. ASSUME NEW g \in Federate \ {f}
      PROVE  Untouched(g) /\ InTransit(g)' = InTransit(g)
  BY <1>1, PlacesKept DEF OnlyMoves, Untouched, PlaceKept, InTransit
<1>2. EndsHold'
  <2>1. \A g \in Federate : \A m \in InTransit(g)' : m.kind = "END" => m \in InTransit(g)
    BY <1>1
  <2>2. pending' = pending /\ round' = round
    BY DEF rtigVars
  <2>3. \A g \in Federate : rtia[g] = "lost" => rtia'[g] = "lost"
    BY DEF OnlyMoves
  <2> QED
    BY <2>1, <2>2, <2>3, Parts, EndsStayHeld
<1> QED
  BY <1>1, <1>2, OneMoves

LEMMA RtiaForgetsNoFailure ==
    ASSUME TypeOK, FailuresHold, NEW f \in Federate, UNCHANGED rtigVars, OnlyMoves(f),
           failed' = failed,
           \/ rtia'[f] = "lost"
           \/ /\ rtia[f] # "lost"
              /\ \A m \in ToSet(up[f]) : m.kind = "ANSWER" => m \in ToSet(up'[f])
    PROVE  FailuresHold'
<1>1. \A p \in pending' : p \in pending /\ (Status(p.of)' => Status(p.of))
  BY DEF rtigVars, Status
<1>2. round' = round
  BY DEF rtigVars
<1>3. ASSUME NEW g \in Federate
      PROVE  \/ rtia'[g] = "lost"
             \/ /\ rtia[g] # "lost"
                /\ \A m \in ToSet(up[g]) : m.kind = "ANSWER" => m \in ToSet(up'[g])
  BY DEF OnlyMoves
<1> QED
  BY <1>1, <1>2, <1>3, FailuresStayHeld

\* A step of an RTIA or its federate that the federation makes nothing of.
LEMMA RtiaStutters ==
    ASSUME TypeOK, NEW f \in Federate, UNCHANGED rtigVars, OnlyMoves(f), failed' = failed,
           rtia'[f] = "lost" <=> rtia[f] = "lost",
           \A m : m.kind = "ANSWER" => (m \in ToSet(up'[f]) <=> m \in ToSet(up[f])),
           \A n : n.kind = "END" => (n \in InTransit(f)' <=> n \in InTransit(f))
    PROVE  AbstractStep
<1>1. \A g \in Federate : rtia'[g] = "lost" <=> rtia[g] = "lost"
  BY DEF OnlyMoves
<1>2. Lost' = Lost /\ Refusals' = Refusals
  BY <1>1, StandingStays
<1>3. ASSUME NEW g \in Federate
      PROVE  Remaining(g)' = Remaining(g) /\ News(g)' = News(g)
  <2>1. /\ owed'[g] = owed[g]
        /\ \A m : m.kind = "ANSWER" => (m \in ToSet(up'[g]) <=> m \in ToSet(up[g]))
    BY DEF rtigVars, OnlyMoves
  <2>2. \A n : n.kind = "END" => (n \in InTransit(g)' <=> n \in InTransit(g))
    BY DEF OnlyMoves, InTransit
  <2> QED
    BY <2>1, <2>2, RemainingStays, NewsStays
<1> QED
  BY <1>2, <1>3, Stutters DEF rtigVars, SameRemaining, SameNews

LEMMA Says ==
    ASSUME TypeOK, NEW f \in Federate, NEW m \in Request, SendMessage(f, m)
    PROVE  /\ up' \in [Federate -> Seq(Request)] /\ up'[f] = Append(up[f], m)
           /\ \A g \in Federate \ {f} : up'[g] = up[g]
           /\ ToSet(up'[f]) = ToSet(up[f]) \cup {m}
<1>1. /\ up \in [Federate -> Seq(Request)] /\ up[f] \in Seq(Request)
      /\ up' = [up EXCEPT ![f] = Append(up[f], m)]
  BY DEF TypeOK, SendMessage
<1>2. Append(up[f], m) \in Seq(Request) /\ ToSet(Append(up[f], m)) = ToSet(up[f]) \cup {m}
  BY <1>1, Appended
<1> QED
  BY <1>1, <1>2

LEMMA Spends ==
    ASSUME TypeOK, NEW service \in Service, Spend(service)
    PROVE  calls' \in [Service -> Nat]
<1>1. calls \in [Service -> Nat] /\ calls' = [calls EXCEPT ![service] = calls[service] + 1]
  BY DEF TypeOK, Spend
<1> QED
  BY <1>1

LEMMA JoinKeeps ==
    ASSUME FederationInvariant, NEW f \in Federate, JoinFederationExecution(f)
    PROVE  FederationInvariant' /\ AbstractStep
<1> DEFINE m == Ask("JOIN", Save, Federate, FALSE)
<1>1. TypeOK /\ EndsHold /\ FailuresHold /\ FederateHolds(f)
  BY Parts
<1>2. m \in Request /\ m.kind = "JOIN" /\ SendMessage(f, m)
  BY PlainRequests DEF JoinFederationExecution
<1> HIDE DEF m
<1>3. /\ up' \in [Federate -> Seq(Request)] /\ up'[f] = Append(up[f], m)
      /\ \A g \in Federate \ {f} : up'[g] = up[g]
      /\ ToSet(up'[f]) = ToSet(up[f]) \cup {m}
  BY <1>1, <1>2, Says
<1>4. /\ rtia[f] \in {"out", "resigned"} /\ rtia' = [rtia EXCEPT ![f] = "joining"]
      /\ UNCHANGED <<rtigVars, my_synchronization_labels, my_is_saving, my_is_restoring,
                     commands, down, duties, waiting, failed>>
      /\ UNCHANGED calls \/ Spend("rejoin")
  BY DEF JoinFederationExecution
<1>5. TypeOK'
  <2>1. calls' \in [Service -> Nat]
    BY <1>1, <1>4, Spends DEF TypeOK, Service
  <2> QED
    BY <2>1, <1>1, <1>3, <1>4 DEF TypeOK, rtigVars
<1>6. OnlyMoves(f) /\ rtia'[f] = "joining" /\ rtia[f] # "lost"
  BY <1>1, <1>3, <1>4 DEF TypeOK, OnlyMoves
<1>7. FederateHolds(f)'
  BY <1>1, <1>2, <1>3, <1>4, <1>6, PlacesKept, OutsiderJoins
<1>8. FailuresHold'
  BY <1>1, <1>3, <1>4, <1>6, RtiaForgetsNoFailure
<1>9. InTransit(f)' = InTransit(f)
  BY <1>4 DEF InTransit
<1>10. AbstractStep
  BY <1>1, <1>2, <1>3, <1>4, <1>6, <1>9, RtiaStutters
<1> QED
  BY <1>4, <1>5, <1>6, <1>7, <1>8, <1>9, <1>10, RtiaMoves

LEMMA ResignKeeps ==
    ASSUME FederationInvariant, NEW f \in Federate, ResignFederationExecution(f)
    PROVE  FederationInvariant' /\ AbstractStep
<1> DEFINE m == Ask("RESIGN", Save, Federate, FALSE)
<1>1. TypeOK /\ EndsHold /\ FailuresHold /\ FederateHolds(f)
  BY Parts
<1>2. m \in Request /\ m.kind = "RESIGN" /\ SendMessage(f, m)
  BY PlainRequests DEF ResignFederationExecution
<1> HIDE DEF m
<1>3. /\ up' \in [Federate -> Seq(Request)] /\ up'[f] = Append(up[f], m)
      /\ \A g \in Federate \ {f} : up'[g] = up[g]
      /\ ToSet(up'[f]) = ToSet(up[f]) \cup {m}
  BY <1>1, <1>2, Says
<1>4. /\ rtia[f] = "member" /\ rtia' = [rtia EXCEPT ![f] = "resigning"]
      /\ UNCHANGED <<rtigVars, my_synchronization_labels, my_is_saving, my_is_restoring,
                     commands, down, duties, waiting, failed>>
      /\ Spend("resign")
  BY DEF ResignFederationExecution
<1>5. TypeOK'
  <2>1. calls' \in [Service -> Nat]
    BY <1>1, <1>4, Spends DEF Service
  <2> QED
    BY <2>1, <1>1, <1>3, <1>4 DEF TypeOK, rtigVars
<1>6. OnlyMoves(f) /\ rtia'[f] = "resigning"
  BY <1>1, <1>3, <1>4 DEF TypeOK, OnlyMoves
<1>7. FederateHolds(f)'
  BY <1>1, <1>2, <1>3, <1>4, <1>6, PlacesKept, MemberResigns
<1>8. FailuresHold'
  BY <1>1, <1>3, <1>4, <1>6, RtiaForgetsNoFailure
<1>9. InTransit(f)' = InTransit(f)
  BY <1>4 DEF InTransit
<1>10. AbstractStep
  BY <1>1, <1>2, <1>3, <1>4, <1>6, <1>9, RtiaStutters
<1> QED
  BY <1>4, <1>5, <1>6, <1>7, <1>8, <1>9, <1>10, RtiaMoves

LEMMA RegisterKeeps ==
    ASSUME FederationInvariant, NEW f \in Federate, NEW label \in Label,
           NEW S \in FederateSets \cup {Federate}, RegisterSynchronization(f, label, S)
    PROVE  FederationInvariant' /\ AbstractStep
<1> DEFINE m == Ask("REGISTER", label, S, FALSE)
<1>1. TypeOK /\ EndsHold /\ FailuresHold /\ FederateHolds(f)
  BY Parts
<1>2. m \in Request /\ m.kind = "REGISTER" /\ m.of = label /\ SendMessage(f, m)
  <2>1. label \in Label \cup SavesAndRestores /\ FALSE \in BOOLEAN
        /\ "REGISTER" \in {"JOIN", "RESIGN", "REGISTER", "REQUEST"}
    OBVIOUS
  <2> QED
    <3>1. m \in Request /\ m.kind = "REGISTER" /\ m.of = label
      BY DEF Ask, Request
    <3>2. SendMessage(f, m)
      BY DEF RegisterSynchronization
    <3> QED
      BY <3>1, <3>2
<1> HIDE DEF m
<1>3. /\ up' \in [Federate -> Seq(Request)] /\ up'[f] = Append(up[f], m)
      /\ \A g \in Federate \ {f} : up'[g] = up[g]
      /\ ToSet(up'[f]) = ToSet(up[f]) \cup {m}
  BY <1>1, <1>2, Says
<1>4. /\ rtia[f] = "member"
      /\ my_synchronization_labels' =
            [my_synchronization_labels EXCEPT ![f] = my_synchronization_labels[f] \cup {label}]
      /\ UNCHANGED <<rtigVars, rtia, my_is_saving, my_is_restoring, commands, down,
                     duties, waiting, failed>>
      /\ Spend("register")
  BY DEF RegisterSynchronization
<1>5. TypeOK'
  <2>1. calls' \in [Service -> Nat]
    BY <1>1, <1>4, Spends DEF Service
  <2>2. my_synchronization_labels' \in [Federate -> SUBSET Label]
    BY <1>1, <1>4 DEF TypeOK
  <2> QED
    BY <2>1, <2>2, <1>1, <1>3, <1>4 DEF TypeOK, rtigVars
<1>6. OnlyMoves(f)
  BY <1>3, <1>4 DEF OnlyMoves
<1>7. FederateHolds(f)'
  BY <1>1, <1>2, <1>3, <1>4, PlacesKept, MemberSays
<1>8. FailuresHold'
  BY <1>1, <1>3, <1>4, <1>6, RtiaForgetsNoFailure
<1>9. InTransit(f)' = InTransit(f)
  BY <1>4 DEF InTransit
<1>10. AbstractStep
  BY <1>1, <1>2, <1>3, <1>4, <1>6, <1>9, RtiaStutters
<1> QED
  BY <1>4, <1>5, <1>6, <1>7, <1>8, <1>9, <1>10, RtiaMoves

LEMMA RequestKeeps ==
    ASSUME FederationInvariant, NEW f \in Federate, NEW x \in {Save, Restore},
           NEW dated \in BOOLEAN, RequestFederationSaveOrRestore(f, x, dated)
    PROVE  FederationInvariant' /\ AbstractStep
<1> DEFINE m == Ask("REQUEST", x, Federate, dated)
<1>1. TypeOK /\ EndsHold /\ FailuresHold /\ FederateHolds(f)
  BY Parts
<1>2. /\ m \in Request /\ m.kind = "REQUEST" /\ m.of = x /\ x \in SavesAndRestores
      /\ SendMessage(f, m)
  <2>1. x \in SavesAndRestores /\ x \in Label \cup SavesAndRestores
        /\ "REQUEST" \in {"JOIN", "RESIGN", "REGISTER", "REQUEST"}
        /\ Federate \in FederateSets \cup {Federate}
    BY DEF SavesAndRestores
  <2> QED
    <3>1. m \in Request /\ m.kind = "REQUEST" /\ m.of = x
      BY <2>1, Requests
    <3>2. SendMessage(f, m)
      BY DEF RequestFederationSaveOrRestore
    <3> QED
      BY <2>1, <3>1, <3>2
<1> HIDE DEF m
<1>3. /\ up' \in [Federate -> Seq(Request)] /\ up'[f] = Append(up[f], m)
      /\ \A g \in Federate \ {f} : up'[g] = up[g]
      /\ ToSet(up'[f]) = ToSet(up[f]) \cup {m}
  BY <1>1, <1>2, Says
<1>4. /\ rtia[f] = "member" /\ waiting' = [waiting EXCEPT ![f] = TRUE]
      /\ UNCHANGED <<rtigVars, rtiaVars, commands, down, duties, failed>>
      /\ \E service \in {"save", "timed save", "restore"} : Spend(service)
  BY DEF RequestFederationSaveOrRestore
<1>5. TypeOK'
  <2>1. calls' \in [Service -> Nat]
    BY <1>1, <1>4, Spends DEF Service
  <2>2. waiting' \in [Federate -> BOOLEAN]
    BY <1>1, <1>4 DEF TypeOK
  <2> QED
    BY <2>1, <2>2, <1>1, <1>3, <1>4 DEF TypeOK, rtigVars, rtiaVars
<1>6. OnlyMoves(f) /\ rtia' = rtia
  BY <1>3, <1>4 DEF OnlyMoves, rtiaVars
<1>7. FederateHolds(f)'
  BY <1>1, <1>2, <1>3, <1>4, <1>6, PlacesKept, MemberSays
<1>8. FailuresHold'
  BY <1>1, <1>3, <1>4, <1>6, RtiaForgetsNoFailure
<1>9. InTransit(f)' = InTransit(f)
  BY <1>4 DEF InTransit
<1>10. AbstractStep
  BY <1>1, <1>2, <1>3, <1>4, <1>6, <1>9, RtiaStutters
<1> QED
  BY <1>4, <1>5, <1>6, <1>7, <1>8, <1>9, <1>10, RtiaMoves

\* A federate answers for a point, for a save or a restoration with a failure if it
\* is one.
LEMMA AnswerKeeps ==
    ASSUME FederationInvariant, NEW f \in Federate, NEW p \in duties[f], NEW ok \in BOOLEAN,
           rtia[f] = "member",
           SendMessage(f, [kind |-> "ANSWER", of |-> p.of, ok |-> ok]),
           duties' = [duties EXCEPT ![f] = duties[f] \ {p}],
           my_synchronization_labels' \in [Federate -> SUBSET Label],
           UNCHANGED <<rtigVars, rtia, my_is_saving, my_is_restoring, commands, down,
                       waiting, calls>>,
           failed' = IF ok THEN failed ELSE failed \cup {[by |-> f, point |-> p]},
           ok \/ p.of \in SavesAndRestores
    PROVE  FederationInvariant' /\ AbstractStep
<1> DEFINE m == [kind |-> "ANSWER", of |-> p.of, ok |-> ok]
<1>1. TypeOK /\ EndsHold /\ FailuresHold /\ FederateHolds(f)
  BY Parts
<1>0. p \in pending /\ p \in Point /\ p.of \in Label \cup SavesAndRestores /\ p.round <= round
  <2>1. AsksHold(f)
    BY <1>1, NothingOfAMember
  <2>2. p \in pending /\ p \in Point
    BY <2>1, <1>1, OneDuty
  <2> QED
    BY <2>2, <1>1, Points DEF EndsHold
<1>2. m \in Request /\ m.kind = "ANSWER" /\ m.of = p.of /\ m.ok = ok /\ SendMessage(f, m)
  BY <1>0, Requests
<1> HIDE DEF m
<1>3. /\ up' \in [Federate -> Seq(Request)] /\ up'[f] = Append(up[f], m)
      /\ \A g \in Federate \ {f} : up'[g] = up[g]
      /\ ToSet(up'[f]) = ToSet(up[f]) \cup {m}
  BY <1>1, <1>2, Says
<1>4. duties'[f] = duties[f] \ {p} /\ duties' \in [Federate -> SUBSET Point]
      /\ \A g \in Federate \ {f} : duties'[g] = duties[g]
  BY <1>1 DEF TypeOK
<1>5. TypeOK'
  <2>1. failed' \subseteq [by : Federate, point : Point]
    BY <1>0, <1>1 DEF TypeOK
  <2> QED
    BY <2>1, <1>1, <1>3, <1>4 DEF TypeOK, rtigVars
<1>6. OnlyMoves(f)
  BY <1>3, <1>4 DEF OnlyMoves
<1>7. FederateHolds(f)'
  BY <1>1, <1>2, <1>3, <1>4, PlacesKept, MemberSays
<1>8. FailuresHold'
  <2> SUFFICES ASSUME NEW x \in failed'
               PROVE  /\ x.point.of \in SavesAndRestores /\ x.point.round <= round'
                      /\ x.point \in pending' /\ Status(x.point.of)' =>
                            \/ rtia'[x.by] = "lost"
                            \/ \E r \in ToSet(up'[x.by]) :
                                  r.kind = "ANSWER" /\ r.of = x.point.of /\ ~ r.ok
    BY DEF FailuresHold
  <2>1. CASE x \in failed
    <3>1. /\ x.point.of \in SavesAndRestores /\ x.point.round <= round
          /\ x.point \in pending /\ Status(x.point.of) =>
                \/ rtia[x.by] = "lost"
                \/ \E r \in ToSet(up[x.by]) : r.kind = "ANSWER" /\ r.of = x.point.of /\ ~ r.ok
      BY <2>1, <1>1 DEF FailuresHold
    <3>2. x.by \in Federate
      BY <2>1, <1>1 DEF TypeOK
    <3>3. ToSet(up[x.by]) \subseteq ToSet(up'[x.by])
      BY <3>2, <1>3
    <3> QED
      BY <3>1, <3>3 DEF rtigVars, Status
  <2>2. CASE x \notin failed
    <3>1. ~ ok /\ x.point = p /\ x.by = f
      BY <2>2
    <3>2. m \in ToSet(up'[f]) /\ m.kind = "ANSWER" /\ m.of = p.of /\ ~ m.ok
      BY <3>1, <1>2, <1>3
    <3> QED
      BY <3>1, <3>2, <1>0 DEF rtigVars
  <2> QED
    BY <2>1, <2>2
<1>9. InTransit(f)' = InTransit(f)
  BY DEF InTransit
<1>10. \A x \in failed' : x \in failed \/ x.point \in pending
  BY <1>0
<1>11. AbstractStep
  <2>1. f \in members /\ AsksHold(f) /\ owed' = owed
    BY <1>1, NothingOfAMember DEF Linked, rtigVars
  <2>2. p \in owed[f] /\ ~ Answering(f, p.of) /\ \A q \in owed[f] : q.of = p.of => q = p
    BY <1>1, <2>1, OneDuty DEF TypeOK
  <2>3. \A x : Answering(f, x)' <=> Answering(f, x) \/ x = p.of
    BY <1>2, <1>3 DEF Answering
  <2>4. p \in Remaining(f) /\ Remaining(f)' = Remaining(f) \ {p}
    BY <2>1, <2>2, <2>3 DEF Remaining
  <2>5. ASSUME NEW g \in Federate
        PROVE  (g # f => Remaining(g)' = Remaining(g)) /\ News(g)' = News(g)
    <3>1. g # f => Remaining(g)' = Remaining(g)
      BY <1>3, <2>1, RemainingStays
    <3>2. News(g)' = News(g)
      BY NewsStays DEF InTransit
    <3> QED
      BY <3>1, <3>2
  <2>6. /\ Lost' = Lost /\ f \notin Lost
        /\ Refusals' = IF ok THEN Refusals ELSE Refusals \cup {[by |-> f, point |-> p]}
    BY DEF Lost, Refusals
  <2> QED
    BY <2>1, <2>4, <2>5, <2>6, Answers DEF rtigVars, SameRemaining, SameNews
<1> QED
  BY <1>5, <1>6, <1>7, <1>8, <1>9, <1>10, <1>11, RtiaMoves

LEMMA UnregisterKeeps ==
    ASSUME FederationInvariant, NEW f \in Federate, NEW p \in duties[f],
           UnregisterSynchronization(f, p)
    PROVE  FederationInvariant' /\ AbstractStep
<1>1. TypeOK
  BY Parts
<1>2. my_synchronization_labels' \in [Federate -> SUBSET Label]
  BY <1>1 DEF TypeOK, UnregisterSynchronization
<1> QED
  BY <1>2, AnswerKeeps DEF UnregisterSynchronization

LEMMA StatusKeeps ==
    ASSUME FederationInvariant, NEW f \in Federate, NEW p \in duties[f], NEW ok \in BOOLEAN,
           FederateSaveStatus(f, p, ok) \/ FederateRestoreStatus(f, p, ok)
    PROVE  FederationInvariant' /\ AbstractStep
<1>1. TypeOK
  BY Parts
<1>2. my_synchronization_labels' \in [Federate -> SUBSET Label]
      /\ UNCHANGED <<rtigVars, rtia, my_is_saving, my_is_restoring, commands, down,
                     waiting, calls>>
  BY <1>1 DEF TypeOK, FederateSaveStatus, FederateRestoreStatus, rtiaVars
<1> QED
  BY <1>2, AnswerKeeps DEF FederateSaveStatus, FederateRestoreStatus, SavesAndRestores

LEMMA ProcessKeeps ==
    ASSUME FederationInvariant, NEW f \in Federate, ProcessNetworkMessage(f)
    PROVE  FederationInvariant' /\ AbstractStep
<1>1. TypeOK /\ EndsHold /\ FailuresHold /\ FederateHolds(f)
  BY Parts
<1>2. /\ rtia[f] = "member" /\ down[f] # <<>> /\ down' = [down EXCEPT ![f] = Tail(down[f])]
      /\ UNCHANGED <<rtigVars, my_synchronization_labels, my_is_saving, my_is_restoring,
                     federateVars>>
  BY DEF ProcessNetworkMessage
<1>3. /\ down[f] \in Seq(Notice) /\ Tail(down[f]) \in Seq(Notice)
      /\ ToSet(down[f]) = {Head(down[f])} \cup ToSet(Tail(down[f]))
  <2>1. down[f] \in Seq(Notice)
    BY <1>1, Typed
  <2> QED
    BY <2>1, <1>2, Taken
<1>4. /\ down' \in [Federate -> Seq(Notice)] /\ down'[f] = Tail(down[f])
      /\ \A g \in Federate \ {f} : down'[g] = down[g]
  BY <1>1, <1>2, <1>3 DEF TypeOK
<1>5. PlaceKept(f) /\ owed'[f] = owed[f] /\ duties' = duties /\ failed' = failed
  <2>1. UNCHANGED rtigVars /\ UNCHANGED federateVars
    BY <1>2
  <2> QED
    BY <2>1, PlacesKept DEF federateVars
<1>6. CASE Head(down[f]).kind = "EXCEPTION"
  <2> DEFINE m == Ask("RESIGN", Save, Federate, FALSE)
  <2>1. m \in Request /\ m.kind = "RESIGN" /\ SendMessage(f, m)
    BY <1>6, PlainRequests DEF ProcessNetworkMessage
  <2>2. rtia' = [rtia EXCEPT ![f] = "ending"] /\ commands' = commands
    BY <1>6 DEF ProcessNetworkMessage
  <2> HIDE DEF m
  <2>3. /\ up' \in [Federate -> Seq(Request)] /\ up'[f] = Append(up[f], m)
        /\ \A g \in Federate \ {f} : up'[g] = up[g]
        /\ ToSet(up'[f]) = ToSet(up[f]) \cup {m}
    BY <1>1, <2>1, Says
  <2>4. TypeOK'
    BY <1>1, <1>2, <1>4, <2>2, <2>3 DEF TypeOK, rtigVars, federateVars
  <2>5. OnlyMoves(f) /\ rtia'[f] = "ending"
    BY <1>1, <1>4, <1>5, <2>2, <2>3 DEF TypeOK, OnlyMoves
  <2>6. FederateHolds(f)'
    BY <1>1, <1>2, <1>4, <1>5, <1>6, <2>1, <2>2, <2>3, <2>5, MemberResigns
  <2>7. FailuresHold'
    BY <1>1, <1>2, <1>5, <2>3, <2>5, RtiaForgetsNoFailure
  <2>8. /\ InTransit(f)' \subseteq InTransit(f)
        /\ InTransit(f) \subseteq InTransit(f)' \cup {Head(down[f])}
    BY <1>3, <1>4, <2>2 DEF InTransit
  <2>9. AbstractStep
    BY <1>1, <1>2, <1>5, <1>6, <2>1, <2>3, <2>5, <2>8, RtiaStutters
  <2> QED
    BY <1>2, <1>5, <2>4, <2>5, <2>6, <2>7, <2>8, <2>9, RtiaMoves
<1>7. CASE Head(down[f]).kind # "EXCEPTION"
  <2>1. /\ commands' = [commands EXCEPT ![f] = InsertCommand(commands[f], Head(down[f]))]
        /\ UNCHANGED <<rtia, up>>
    BY <1>7 DEF ProcessNetworkMessage
  <2>2. /\ commands'[f] = InsertCommand(commands[f], Head(down[f]))
        /\ \A g \in Federate \ {f} : commands'[g] = commands[g]
    BY <1>1, <2>1 DEF TypeOK
  <2>3. /\ FederateHolds(f)'
        /\ commands'[f] \in Seq({n \in Notice : n.kind \in {"START", "END"}})
        /\ InTransit(f)' = InTransit(f)
    BY <1>1, <1>2, <1>4, <1>5, <1>7, <2>1, <2>2, NoticeQueued
  <2>4. TypeOK'
    <3>1. commands' \in [Federate -> Seq({n \in Notice : n.kind \in {"START", "END"}})]
      BY <1>1, <2>1, <2>3 DEF TypeOK
    <3> QED
      BY <3>1, <1>1, <1>2, <1>4, <2>1 DEF TypeOK, rtigVars, federateVars
  <2>5. OnlyMoves(f)
    BY <1>4, <1>5, <2>1, <2>2 DEF OnlyMoves
  <2>6. FailuresHold'
    BY <1>1, <1>2, <1>5, <2>1, <2>5, RtiaForgetsNoFailure
  <2>7. AbstractStep
    BY <1>1, <1>2, <1>5, <2>1, <2>3, <2>5, RtiaStutters
  <2> QED
    BY <1>2, <1>5, <2>3, <2>4, <2>5, <2>6, <2>7, RtiaMoves
<1> QED
  BY <1>6, <1>7

LEMMA WaitKeeps ==
    ASSUME FederationInvariant, NEW f \in Federate, WaitMessage(f)
    PROVE  FederationInvariant' /\ AbstractStep
<1>1. TypeOK /\ EndsHold /\ FailuresHold /\ FederateHolds(f)
  BY Parts
<1>2. PICK i \in 1 .. Len(down[f]) :
         /\ down[f][i].kind \in (IF rtia[f] = "joining" THEN {"JOINED", "JOIN_REFUSED"}
                                                       ELSE {"RESIGNED"})
         /\ down' = [down EXCEPT ![f] = RemoveAt(down[f], i)]
         /\ rtia' = [rtia EXCEPT ![f] = StateAfter(rtia[f], down[f][i].kind)]
  BY DEF WaitMessage
<1>3. /\ rtia[f] \in {"joining", "resigning", "ending"}
      /\ UNCHANGED <<rtigVars, my_synchronization_labels, my_is_saving, my_is_restoring,
                     commands, up, federateVars>>
  BY DEF WaitMessage
<1>4. /\ rtia'[f] = StateAfter(rtia[f], down[f][i].kind) /\ down'[f] = RemoveAt(down[f], i)
      /\ \A g \in Federate \ {f} : rtia'[g] = rtia[g] /\ down'[g] = down[g]
  BY <1>1, <1>2 DEF TypeOK
<1>5. PlaceKept(f) /\ owed'[f] = owed[f] /\ duties' = duties /\ failed' = failed
  <2>1. UNCHANGED rtigVars /\ UNCHANGED federateVars
    BY <1>3
  <2> QED
    BY <2>1, PlacesKept DEF federateVars
<1>6. /\ FederateHolds(f)' /\ ToSet(down'[f]) \subseteq ToSet(down[f])
      /\ rtia'[f] \in {"member", "refused", "resigned", "gone"}
  BY <1>1, <1>2, <1>3, <1>4, <1>5, AnswerAwaited
<1>7. TypeOK'
  <2>1. down' \in [Federate -> Seq(Notice)]
    <3>1. down[f] \in Seq(Notice)
      BY <1>1, Typed
    <3>2. RemoveAt(down[f], i) \in Seq(Notice)
      BY <3>1, TakenOut
    <3> QED
      BY <3>2, <1>1, <1>2 DEF TypeOK
  <2>2. rtia' \in [Federate -> {"out", "joining", "member", "refused", "resigning",
                                "resigned", "ending", "gone", "lost"}]
    <3> HIDE DEF StateAfter
    <3> QED
      BY <1>1, <1>2, <1>4, <1>6 DEF TypeOK
  <2> QED
    BY <2>1, <2>2, <1>1, <1>3 DEF TypeOK, rtigVars, federateVars
<1>8. OnlyMoves(f)
  BY <1>3, <1>4, <1>5 DEF OnlyMoves
<1>9. FailuresHold'
  BY <1>1, <1>3, <1>5, <1>8, RtiaForgetsNoFailure
<1>10. InTransit(f)' \subseteq InTransit(f)
  BY <1>3, <1>6 DEF InTransit
<1>11. AbstractStep
  <2>1. ToSet(down[f]) = {down[f][i]} \cup ToSet(down'[f]) /\ down[f][i].kind # "END"
    <3>1. down[f] \in Seq(Notice)
      BY <1>1, Typed
    <3> QED
      BY <3>1, <1>2, <1>4, TakenOut
  <2>2. \A n : n.kind = "END" => (n \in InTransit(f)' <=> n \in InTransit(f))
    BY <1>3, <2>1 DEF InTransit
  <2> QED
    BY <1>1, <1>3, <1>5, <1>6, <1>8, <2>2, RtiaStutters
<1> QED
  BY <1>3, <1>5, <1>6, <1>7, <1>8, <1>9, <1>10, <1>11, RtiaMoves

LEMMA TickKeeps ==
    ASSUME FederationInvariant, NEW f \in Federate, Tick(f)
    PROVE  FederationInvariant' /\ AbstractStep
<1> DEFINE m == Head(commands[f])
<1>1. TypeOK /\ EndsHold /\ FailuresHold /\ FederateHolds(f)
  BY Parts
<1>2. /\ rtia[f] = "member" /\ commands[f] # <<>>
      /\ commands' = [commands EXCEPT ![f] = Tail(commands[f])]
      /\ duties' = [duties EXCEPT ![f] =
                      IF m.kind = "START" THEN duties[f] \cup {m.point} ELSE duties[f]]
      /\ my_synchronization_labels' = [my_synchronization_labels EXCEPT ![f] =
            IF m.kind = "START" /\ m.point.of \in Label
              THEN my_synchronization_labels[f] \cup {m.point.of}
              ELSE my_synchronization_labels[f]]
      /\ my_is_saving' = [my_is_saving EXCEPT ![f] =
            IF m.point.of = Save THEN m.kind = "START" ELSE my_is_saving[f]]
      /\ my_is_restoring' = [my_is_restoring EXCEPT ![f] =
            IF m.point.of = Restore THEN m.kind = "START" ELSE my_is_restoring[f]]
      /\ waiting' = [waiting EXCEPT ![f] =
            waiting[f] /\ (m.kind = "START" \/ m.point.of \in Label)]
      /\ UNCHANGED <<rtigVars, rtia, up, down, calls, failed>>
  BY DEF Tick
<1>3. commands[f] \in Seq({n \in Notice : n.kind \in {"START", "END"}})
  BY <1>1 DEF TypeOK
<1>4. /\ Tail(commands[f]) \in Seq({n \in Notice : n.kind \in {"START", "END"}})
      /\ m \in Notice /\ m.point \in Point
  <2>1. /\ Tail(commands[f]) \in Seq({n \in Notice : n.kind \in {"START", "END"}})
        /\ m \in {n \in Notice : n.kind \in {"START", "END"}}
    BY <1>2, <1>3, HeadTailProperties
  <2> QED
    BY <2>1, Notices
<1>5. /\ commands'[f] = Tail(commands[f])
      /\ duties'[f] = IF m.kind = "START" THEN duties[f] \cup {m.point} ELSE duties[f]
      /\ \A g \in Federate \ {f} : commands'[g] = commands[g] /\ duties'[g] = duties[g]
  BY <1>1, <1>2 DEF TypeOK
<1>6. PlaceKept(f) /\ owed'[f] = owed[f]
  BY <1>2, PlacesKept
<1>7. FederateHolds(f)' /\ InTransit(f)' \subseteq InTransit(f)
  BY <1>1, <1>2, <1>5, <1>6, CallbackGiven
<1> HIDE DEF m
<1>8. TypeOK'
  <2>1. commands' \in [Federate -> Seq({n \in Notice : n.kind \in {"START", "END"}})]
    BY <1>1, <1>2, <1>4 DEF TypeOK
  <2>2. duties' \in [Federate -> SUBSET Point]
    BY <1>1, <1>2, <1>4 DEF TypeOK
  <2>3. my_synchronization_labels' \in [Federate -> SUBSET Label]
    BY <1>1, <1>2 DEF TypeOK
  <2>4. /\ my_is_saving' \in [Federate -> BOOLEAN] /\ my_is_restoring' \in [Federate -> BOOLEAN]
        /\ waiting' \in [Federate -> BOOLEAN]
    <3>1. /\ my_is_saving \in [Federate -> BOOLEAN] /\ my_is_restoring \in [Federate -> BOOLEAN]
          /\ waiting \in [Federate -> BOOLEAN]
      BY <1>1 DEF TypeOK
    <3> QED
      BY <3>1, <1>2
  <2> QED
    BY <2>1, <2>2, <2>3, <2>4, <1>1, <1>2 DEF TypeOK, rtigVars
<1>9. OnlyMoves(f)
  BY <1>2, <1>5 DEF OnlyMoves
<1>10. FailuresHold'
  BY <1>1, <1>2, <1>9, RtiaForgetsNoFailure
<1>11. AbstractStep
  <2>1. InTransit(f) \subseteq InTransit(f)' \cup {m} /\ m \in InTransit(f)
    <3>1. ToSet(commands[f]) = {m} \cup ToSet(commands'[f])
      BY <1>2, <1>3, <1>5, Taken DEF m
    <3> QED
      BY <3>1, <1>2 DEF InTransit
  <2>2. Lost' = Lost /\ Refusals' = Refusals
    BY <1>1, <1>2, StandingStays
  <2>3. ASSUME NEW g \in Federate
        PROVE  Remaining(g)' = Remaining(g) /\ (g # f => News(g)' = News(g))
    <3>1. Remaining(g)' = Remaining(g)
      BY <1>2, RemainingStays DEF rtigVars
    <3>2. g # f => News(g)' = News(g)
      BY <1>2, <1>5, NewsStays DEF InTransit
    <3> QED
      BY <3>1, <3>2
  <2>4. CASE m.kind # "END" \/ News(f)' = News(f)
    <3>1. News(f)' = News(f)
      BY <1>7, <2>1, <2>4, NewsStays
    <3> QED
      BY <1>2, <2>2, <2>3, <3>1, Stutters DEF rtigVars, SameRemaining, SameNews
  <2>5. CASE m.kind = "END" /\ News(f)' # News(f)
    <3> DEFINE n == [point |-> m.point, ok |-> m.ok]
    <3>1. /\ n \in News(f) /\ News(f)' \subseteq News(f)
          /\ News(f) \subseteq News(f)' \cup {n}
      BY <1>7, <2>1, <2>5 DEF News
    <3>2. News(f)' = News(f) \ {n}
      BY <2>5, <3>1
    <3> QED
      BY <1>2, <2>2, <2>3, <3>1, <3>2, Hears DEF rtigVars, SameRemaining, SameNews
  <2> QED
    BY <2>4, <2>5
<1> QED
  BY <1>2, <1>7, <1>8, <1>9, <1>10, <1>11, RtiaMoves

LEMMA DieKeeps ==
    ASSUME FederationInvariant, NEW f \in Federate, Die(f)
    PROVE  FederationInvariant' /\ AbstractStep
<1>1. TypeOK /\ EndsHold /\ FailuresHold /\ FederateHolds(f)
  BY Parts
<1>2. PICK k \in 0 .. Len(up[f]) : up' = [up EXCEPT ![f] = SubSeq(up[f], 1, k)]
  BY DEF Die
<1>3. /\ rtia[f] \in {"member", "joining", "resigning"}
      /\ rtia' = [rtia EXCEPT ![f] = "lost"]
      /\ UNCHANGED <<rtigVars, my_synchronization_labels, my_is_saving, my_is_restoring,
                     commands, down, federateVars>>
  BY DEF Die
<1>4. up[f] \in Seq(Request) /\ SubSeq(up[f], 1, k) \in Seq(Request)
  <2>1. up[f] \in Seq(Request)
    BY <1>1, Typed
  <2> QED
    BY <2>1, Cut
<1>5. /\ rtia'[f] = "lost" /\ up'[f] = SubSeq(up[f], 1, k)
      /\ \A g \in Federate \ {f} : rtia'[g] = rtia[g] /\ up'[g] = up[g]
  BY <1>1, <1>2, <1>3 DEF TypeOK
<1>6. PlaceKept(f) /\ owed'[f] = owed[f] /\ duties' = duties /\ failed' = failed
  <2>1. UNCHANGED rtigVars /\ UNCHANGED federateVars
    BY <1>3
  <2> QED
    BY <2>1, PlacesKept DEF federateVars
<1>7. TypeOK'
  BY <1>1, <1>2, <1>3, <1>4 DEF TypeOK, rtigVars, federateVars
<1>8. FederateHolds(f)'
  BY <1>1, <1>3, <1>5, <1>6, FederateLost
<1>9. OnlyMoves(f)
  BY <1>3, <1>5, <1>6 DEF OnlyMoves
<1>10. FailuresHold'
  BY <1>1, <1>3, <1>5, <1>6, <1>9, RtiaForgetsNoFailure
<1>11. InTransit(f)' = InTransit(f)
  BY <1>3 DEF InTransit
<1>12. AbstractStep
  <2>1. ToSet(up'[f]) \subseteq ToSet(up[f])
    <3>1. up[f] \in Seq(Request)
      BY <1>1, Typed
    <3> QED
      BY <3>1, <1>5, Cut
  <2>2. /\ owed' = owed /\ owed[f] \subseteq pending
        /\ UNCHANGED <<members, pending, round>>
    BY <1>1, <1>3, Typed DEF rtigVars
  <2>3. Remaining(f) \subseteq Remaining(f)' /\ Remaining(f)' \subseteq pending
    <3>1. \A x : Answering(f, x)' => Answering(f, x)
      BY <2>1 DEF Answering
    <3> QED
      BY <2>2, <3>1 DEF Remaining
  <2>4. ASSUME NEW g \in Federate
        PROVE  (g # f => Remaining(g)' = Remaining(g)) /\ News(g)' = News(g)
    <3>1. g # f => Remaining(g)' = Remaining(g)
      BY <1>5, <2>2, RemainingStays
    <3>2. News(g)' = News(g)
      BY <1>3, NewsStays DEF InTransit
    <3> QED
      BY <3>1, <3>2
  <2>5. /\ f \notin Lost /\ Lost' = Lost \cup {f}
        /\ Refusals' = {x \in Refusals : x.by # f}
    <3>1. \A x \in failed : x.by \in Federate
      BY <1>1 DEF TypeOK
    <3> QED
      BY <3>1, <1>3, <1>5, <1>6 DEF Lost, Refusals
  <2> QED
    BY <2>2, <2>3, <2>4, <2>5, Loses DEF SameRemaining, SameNews
<1> QED
  BY <1>3, <1>6, <1>7, <1>8, <1>9, <1>10, <1>11, <1>12, RtiaMoves

(***************************************************************************)
(* The actions of the RTIG keep the invariant, and do what Rendezvous allows.*)
(***************************************************************************)

LEMMA Served ==
    ASSUME FederationInvariant, NEW f \in Federate, NEW kind, Serving(f, kind)
    PROVE  /\ TypeOK /\ EndsHold /\ FailuresHold /\ FederateHolds(f) /\ LinkHolds(f)
           /\ up[f] # <<>> /\ Head(up[f]).kind = kind /\ Head(up[f]) \in Request
           /\ UpHolds(f, Head(up[f]))
           /\ up' \in [Federate -> Seq(Request)] /\ up'[f] = Tail(up[f])
           /\ \A g \in Federate \ {f} : up'[g] = up[g]
           /\ ToSet(up[f]) = {Head(up[f])} \cup ToSet(up'[f])
           /\ rtia' = rtia /\ my_synchronization_labels' = my_synchronization_labels
           /\ my_is_saving' = my_is_saving /\ my_is_restoring' = my_is_restoring
           /\ commands' = commands /\ duties' = duties /\ waiting' = waiting
           /\ calls' = calls /\ failed' = failed
<1>1. TypeOK /\ EndsHold /\ FailuresHold /\ FederateHolds(f)
  BY Parts
<1>2. /\ up[f] # <<>> /\ Head(up[f]).kind = kind /\ up' = [up EXCEPT ![f] = Tail(up[f])]
      /\ UNCHANGED rtiaVars /\ UNCHANGED commands /\ UNCHANGED federateVars
  BY DEF Serving
<1>3. up[f] \in Seq(Request)
  BY <1>1, Typed
<1>4. /\ Head(up[f]) \in Request /\ Tail(up[f]) \in Seq(Request)
      /\ ToSet(up[f]) = {Head(up[f])} \cup ToSet(Tail(up[f]))
  BY <1>2, <1>3, Taken
<1>5. /\ up' \in [Federate -> Seq(Request)] /\ up'[f] = Tail(up[f])
      /\ \A g \in Federate \ {f} : up'[g] = up[g]
  BY <1>1, <1>2, <1>4 DEF TypeOK
<1>6. LinkHolds(f) /\ UpHolds(f, Head(up[f]))
  BY <1>1, <1>4 DEF FederateHolds, LinkHolds
<1> QED
  BY <1>1, <1>2, <1>4, <1>5, <1>6 DEF rtiaVars, federateVars

LEMMA Replied ==
    ASSUME TypeOK, NEW f \in Federate, NEW m \in Notice, Reply(f, m)
    PROVE  /\ down' \in [Federate -> Seq(Notice)] /\ down'[f] = Send(f, down[f], m)
           /\ \A g \in Federate \ {f} : down'[g] = down[g]
<1>1. down \in [Federate -> Seq(Notice)] /\ down[f] \in Seq(Notice)
  BY DEF TypeOK
<1>2. Send(f, down[f], m) \in Seq(Notice)
  BY <1>1, Sent, AppendProperties
<1> QED
  BY <1>1, <1>2 DEF Reply

\* A step of the RTIG for f alone, that takes no answer in and starts and ends
\* nothing.
LEMMA RtigMoves ==
    ASSUME FederationInvariant, NEW f \in Federate,
           rtia' = rtia, commands' = commands, duties' = duties, failed' = failed,
           round' = round, pending' = pending,
           my_save_status' = my_save_status, my_restore_status' = my_restore_status,
           \A g \in Federate \ {f} :
              up'[g] = up[g] /\ down'[g] = down[g] /\ owed'[g] = owed[g] /\ PlaceKept(g),
           \A m \in ToSet(up[f]) : m.kind = "ANSWER" => m \in ToSet(up'[f]),
           \A n \in InTransit(f)' : n.kind = "END" => n \in InTransit(f),
           TypeOK', FederateHolds(f)'
    PROVE  FederationInvariant'
<1>1. TypeOK /\ EndsHold /\ FailuresHold
  BY Parts
<1>2. \A g \in Federate \ {f} : Untouched(g) /\ InTransit(g)' = InTransit(g)
  BY DEF Untouched, PlaceKept, InTransit
<1>3. EndsHold'
  <2>1. \A g \in Federate : \A m \in InTransit(g)' : m.kind = "END" => m \in InTransit(g)
    BY <1>2
  <2> QED
    BY <2>1, <1>1, EndsStayHeld
<1>4. FailuresHold'
  <2>1. \A p \in pending' : p \in pending /\ (Status(p.of)' => Status(p.of))
    BY DEF Status
  <2>2. ASSUME NEW g \in Federate
        PROVE  \/ rtia'[g] = "lost"
               \/ /\ rtia[g] # "lost"
                  /\ \A m \in ToSet(up[g]) : m.kind = "ANSWER" => m \in ToSet(up'[g])
    OBVIOUS
  <2> QED
    BY <2>1, <2>2, <1>1, FailuresStayHeld
<1> QED
  BY <1>2, <1>3, <1>4, OneMoves

\* A step of the RTIG that takes no answer in, tells no end and asks nothing.
LEMMA RtigStutters ==
    ASSUME TypeOK, UNCHANGED <<members, pending, round, owed, rtia, failed>>,
           \A g \in Federate :
              /\ \A m : m.kind = "ANSWER" => (m \in ToSet(up'[g]) <=> m \in ToSet(up[g]))
              /\ \A n : n.kind = "END" => (n \in InTransit(g)' <=> n \in InTransit(g))
    PROVE  AbstractStep
<1>1. Lost' = Lost /\ Refusals' = Refusals
  BY StandingStays
<1>2. ASSUME NEW g \in Federate
      PROVE  Remaining(g)' = Remaining(g) /\ News(g)' = News(g)
  BY RemainingStays, NewsStays
<1> QED
  BY <1>1, <1>2, Stutters DEF SameRemaining, SameNews

LEMMA AddKeeps ==
    ASSUME FederationInvariant, NEW f \in Federate, AddFederate(f)
    PROVE  FederationInvariant' /\ AbstractStep
<1> DEFINE points == {p \in pending : p.of \in Label}
<1>1. /\ TypeOK /\ EndsHold /\ FederateHolds(f) /\ LinkHolds(f)
      /\ up[f] # <<>> /\ Head(up[f]).kind = "JOIN" /\ UpHolds(f, Head(up[f]))
      /\ up' \in [Federate -> Seq(Request)] /\ up'[f] = Tail(up[f])
      /\ \A g \in Federate \ {f} : up'[g] = up[g]
      /\ ToSet(up[f]) = {Head(up[f])} \cup ToSet(up'[f])
      /\ rtia' = rtia /\ my_synchronization_labels' = my_synchronization_labels
      /\ my_is_saving' = my_is_saving /\ my_is_restoring' = my_is_restoring
      /\ commands' = commands /\ duties' = duties /\ waiting' = waiting
      /\ calls' = calls /\ failed' = failed
  BY Served DEF AddFederate
<1>2. f \notin members
  BY <1>1 DEF UpHolds
<1>3. /\ members' = members \cup {f} /\ owed' = [owed EXCEPT ![f] = points]
      /\ UNCHANGED <<pending, my_save_status, my_restore_status, rtigUp, round>>
      /\ IF f \in referenced \/ unlinked # {}
           THEN /\ unlinked' = unlinked \cup {f}
                /\ Reply(f, [kind |-> "JOIN_REFUSED"])
                /\ UNCHANGED referenced
           ELSE /\ referenced' = referenced \cup {f}
                /\ down' = [down EXCEPT ![f] =
                     Send(f, IF rtia[f] = "lost" THEN down[f]
                               ELSE down[f] \o SetToSeq({Start(p) : p \in points}),
                          [kind |-> "JOINED"])]
                /\ UNCHANGED unlinked
  BY <1>2 DEF AddFederate
<1> HIDE DEF points
<1>4. /\ owed' \in [Federate -> SUBSET pending'] /\ owed'[f] = points
      /\ \A g \in Federate \ {f} : owed'[g] = owed[g]
      /\ members' \subseteq Federate /\ f \in members'
      /\ \A g \in Federate \ members' : owed'[g] = {}
  BY <1>1, <1>3 DEF TypeOK, points
<1>5. ASSUME \A g \in Federate \ {f} : down'[g] = down[g],
             \A n : n.kind = "END" => (n \in InTransit(f)' <=> n \in InTransit(f))
      PROVE  AbstractStep
  <2>1. Lost' = Lost /\ Refusals' = Refusals
    BY <1>1, StandingStays
  <2>2. Remaining(f)' \subseteq pending
    BY <1>3, <1>4 DEF Remaining, points
  <2>3. ASSUME NEW g \in Federate
        PROVE  (g # f => Remaining(g)' = Remaining(g)) /\ News(g)' = News(g)
    <3>1. g # f => Remaining(g)' = Remaining(g)
      BY <1>1, <1>4, RemainingStays
    <3>2. News(g)' = News(g)
      BY <1>1, <1>5, NewsStays DEF InTransit
    <3> QED
      BY <3>1, <3>2
  <2> QED
    BY <1>2, <1>3, <2>1, <2>2, <2>3, Enters DEF SameRemaining, SameNews
<1>6. CASE f \in referenced \/ unlinked # {}
  <2>1. /\ unlinked' = unlinked \cup {f} /\ referenced' = referenced
        /\ Reply(f, [kind |-> "JOIN_REFUSED"])
    BY <1>3, <1>6
  <2>2. /\ down' \in [Federate -> Seq(Notice)]
        /\ down'[f] = Send(f, down[f], [kind |-> "JOIN_REFUSED"])
        /\ \A g \in Federate \ {f} : down'[g] = down[g]
    <3>1. [kind |-> "JOIN_REFUSED"] \in Notice
      BY DEF Notice
    <3> QED
      BY <3>1, <2>1, <1>1, Replied
  <2>3. /\ FederateHolds(f)' /\ \A n : n.kind = "END" => (n \in InTransit(f)' <=> n \in InTransit(f))
    BY <1>1, <1>4, <2>1, <2>2, LinkRefused
  <2>4. TypeOK'
    BY <1>1, <1>3, <1>4, <2>1, <2>2 DEF TypeOK
  <2>5. \A g \in Federate \ {f} : PlaceKept(g)
    BY <1>3, <2>1 DEF PlaceKept, Member, Unlinked, Referenced
  <2> QED
    BY <1>1, <1>3, <1>4, <1>5, <2>2, <2>3, <2>4, <2>5, RtigMoves
<1>7. CASE ~ (f \in referenced \/ unlinked # {})
  <2>1. /\ unlinked' = unlinked /\ referenced' = referenced \cup {f}
        /\ down' = [down EXCEPT ![f] =
                     Send(f, IF rtia[f] = "lost" THEN down[f]
                               ELSE down[f] \o SetToSeq({Start(p) : p \in points}),
                          [kind |-> "JOINED"])]
    BY <1>3, <1>7
  <2>2. /\ down'[f] = Send(f, IF rtia[f] = "lost" THEN down[f]
                                ELSE down[f] \o SetToSeq({Start(p) : p \in points}),
                           [kind |-> "JOINED"])
        /\ \A g \in Federate \ {f} : down'[g] = down[g]
    BY <1>1, <2>1 DEF TypeOK
  <2>3. /\ FederateHolds(f)' /\ down'[f] \in Seq(Notice)
        /\ \A n : n.kind = "END" => (n \in InTransit(f)' <=> n \in InTransit(f))
    <3>1. IsFiniteSet(pending) /\ f \notin referenced /\ f \notin unlinked' /\ f \in referenced'
      BY <1>1, <1>7, <2>1 DEF EndsHold
    <3>2. points = {p \in pending : p.of \in Label}
      BY DEF points
    <3> QED
      BY <3>1, <3>2, <1>1, <1>4, <2>2, JoinAccepted
  <2>4. TypeOK'
    <3>1. down' \in [Federate -> Seq(Notice)]
      BY <1>1, <2>1, <2>3 DEF TypeOK
    <3> QED
      BY <3>1, <1>1, <1>3, <1>4, <2>1 DEF TypeOK
  <2>5. \A g \in Federate \ {f} : PlaceKept(g)
    BY <1>3, <2>1 DEF PlaceKept, Member, Unlinked, Referenced
  <2> QED
    BY <1>1, <1>3, <1>4, <1>5, <2>2, <2>3, <2>4, <2>5, RtigMoves
<1> QED
  BY <1>6, <1>7

LEMMA RemoveKeeps ==
    ASSUME FederationInvariant, NEW f \in Federate, RemoveFederate(f)
    PROVE  FederationInvariant' /\ AbstractStep
<1>1. /\ TypeOK /\ EndsHold /\ FederateHolds(f) /\ LinkHolds(f)
      /\ up[f] # <<>> /\ Head(up[f]).kind = "RESIGN" /\ UpHolds(f, Head(up[f]))
      /\ up' \in [Federate -> Seq(Request)] /\ up'[f] = Tail(up[f])
      /\ \A g \in Federate \ {f} : up'[g] = up[g]
      /\ ToSet(up[f]) = {Head(up[f])} \cup ToSet(up'[f])
      /\ rtia' = rtia /\ my_synchronization_labels' = my_synchronization_labels
      /\ my_is_saving' = my_is_saving /\ my_is_restoring' = my_is_restoring
      /\ commands' = commands /\ duties' = duties /\ waiting' = waiting
      /\ calls' = calls /\ failed' = failed
  BY Served DEF RemoveFederate
<1>2. Linked(f) /\ f \in members /\ f \notin unlinked
  BY <1>1 DEF UpHolds, Linked
<1>3. /\ members' = members \ {f} /\ owed' = [owed EXCEPT ![f] = {}]
      /\ Reply(f, [kind |-> "RESIGNED"])
      /\ UNCHANGED <<unlinked, referenced, pending, my_save_status, my_restore_status,
                     rtigUp, round>>
  BY <1>2 DEF RemoveFederate
<1>4. /\ owed' \in [Federate -> SUBSET pending'] /\ owed'[f] = {}
      /\ \A g \in Federate \ {f} : owed'[g] = owed[g]
      /\ members' \subseteq Federate /\ f \notin members' /\ unlinked' \subseteq members'
      /\ \A g \in Federate \ members' : owed'[g] = {}
  BY <1>1, <1>2, <1>3 DEF TypeOK
<1>5. /\ down' \in [Federate -> Seq(Notice)]
      /\ down'[f] = Send(f, down[f], [kind |-> "RESIGNED"])
      /\ \A g \in Federate \ {f} : down'[g] = down[g]
  <2>1. [kind |-> "RESIGNED"] \in Notice
    BY DEF Notice
  <2> QED
    BY <2>1, <1>1, <1>3, Replied
<1>6. FederateHolds(f)' /\ \A n : n.kind = "END" => (n \in InTransit(f)' <=> n \in InTransit(f))
  BY <1>1, <1>3, <1>4, <1>5, ResignAccepted
<1>7. TypeOK'
  BY <1>1, <1>3, <1>4, <1>5 DEF TypeOK
<1>8. \A g \in Federate \ {f} : PlaceKept(g)
  BY <1>3 DEF PlaceKept, Member, Unlinked, Referenced
<1>9. AbstractStep
  <2>1. Lost' = Lost /\ Refusals' = Refusals
    BY <1>1, StandingStays
  <2>2. Remaining(f)' = {}
    BY <1>4 DEF Remaining
  <2>3. ASSUME NEW g \in Federate
        PROVE  (g # f => Remaining(g)' = Remaining(g)) /\ News(g)' = News(g)
    <3>1. g # f => Remaining(g)' = Remaining(g)
      BY <1>1, <1>4, RemainingStays
    <3>2. News(g)' = News(g)
      BY <1>1, <1>5, <1>6, NewsStays DEF InTransit
    <3> QED
      BY <3>1, <3>2
  <2> QED
    BY <1>3, <2>1, <2>2, <2>3, Leaves DEF SameRemaining, SameNews
<1> QED
  BY <1>1, <1>3, <1>4, <1>5, <1>6, <1>7, <1>8, <1>9, RtigMoves

LEMMA KillKeeps ==
    ASSUME FederationInvariant, NEW f \in Federate, KillFederate(f)
    PROVE  FederationInvariant' /\ AbstractStep
<1>1. TypeOK /\ FederateHolds(f)
  BY Parts
<1>2. /\ rtia[f] = "lost" /\ up[f] = <<>> /\ f \in members /\ f \notin unlinked
      /\ members' = members \ {f} /\ owed' = [owed EXCEPT ![f] = {}]
      /\ UNCHANGED <<unlinked, referenced, pending, my_save_status, my_restore_status,
                     rtigUp, round, rtiaVars, commands, up, down, federateVars>>
  BY DEF KillFederate
<1>3. /\ owed' \in [Federate -> SUBSET pending']
      /\ \A g \in Federate \ {f} : owed'[g] = owed[g]
      /\ members' \subseteq Federate /\ f \notin members' /\ unlinked' \subseteq members'
      /\ \A g \in Federate \ members' : owed'[g] = {}
  BY <1>1, <1>2 DEF TypeOK
<1>4. rtia' = rtia /\ duties' = duties /\ failed' = failed
  BY <1>2 DEF rtiaVars, federateVars
<1>5. FederateHolds(f)'
  BY <1>1, <1>2, <1>3, <1>4, FederateKilled DEF Linked
<1>6. TypeOK'
  BY <1>1, <1>2, <1>3 DEF TypeOK, rtiaVars, federateVars
<1>7. \A g \in Federate \ {f} : PlaceKept(g)
  BY <1>2 DEF PlaceKept, Member, Unlinked, Referenced
<1>8. InTransit(f)' = InTransit(f)
  BY <1>2 DEF InTransit
<1>9. AbstractStep
  <2>1. Lost' = Lost /\ Refusals' = Refusals
    BY <1>1, <1>4, StandingStays
  <2>2. owed'[f] = {}
    BY <1>1, <1>2 DEF TypeOK
  <2>3. Remaining(f)' = {}
    BY <2>2 DEF Remaining
  <2>4. ASSUME NEW g \in Federate
        PROVE  (g # f => Remaining(g)' = Remaining(g)) /\ News(g)' = News(g)
    <3>1. g # f => Remaining(g)' = Remaining(g)
      BY <1>2, <1>3, RemainingStays
    <3>2. News(g)' = News(g)
      BY <1>2, NewsStays DEF InTransit
    <3> QED
      BY <3>1, <3>2
  <2> QED
    BY <1>2, <2>1, <2>3, <2>4, Leaves DEF SameRemaining, SameNews
<1> QED
  BY <1>2, <1>3, <1>4, <1>5, <1>6, <1>7, <1>8, <1>9, RtigMoves

LEMMA RespondedToSome ==
    ASSUME TypeOK, NEW S \in SUBSET Federate, NEW m \in Notice, RespondToSome(S, m)
    PROVE  /\ down' \in [Federate -> Seq(Notice)]
           /\ \A g \in Federate :
                 down'[g] = down[g] \/ (g \in S /\ down'[g] = Append(down[g], m))
<1>1. down \in [Federate -> Seq(Notice)]
  BY DEF TypeOK
<1>2. \A g \in Federate : /\ Send(g, down[g], m) \in Seq(Notice)
                          /\ Send(g, down[g], m) \in {down[g], Append(down[g], m)}
  <2> SUFFICES ASSUME NEW g \in Federate
               PROVE  /\ Send(g, down[g], m) \in Seq(Notice)
                      /\ Send(g, down[g], m) \in {down[g], Append(down[g], m)}
    OBVIOUS
  <2>1. down[g] \in Seq(Notice) /\ Append(down[g], m) \in Seq(Notice)
    BY <1>1, AppendProperties
  <2>2. Send(g, down[g], m) \in {down[g], Append(down[g], m)}
    BY Sent
  <2> QED
    BY <2>1, <2>2
<1> HIDE DEF Send
<1> QED
  BY <1>1, <1>2 DEF RespondToSome

LEMMA RespondedToAll ==
    ASSUME TypeOK, NEW f \in Federate, NEW m \in Notice, RespondToAll(f, m)
    PROVE  /\ down' \in [Federate -> Seq(Notice)]
           /\ \A g \in Federate :
                 \/ down'[g] = down[g]
                 \/ unlinked = {} /\ g \in members /\ down'[g] = Append(down[g], m)
                 \/ down'[g] = Append(down[g], Exception)
<1>1. CASE unlinked = {}
  <2>1. members \in SUBSET Federate
    BY DEF TypeOK
  <2> QED
    BY <1>1, <2>1, RespondedToSome DEF RespondToAll
<1>2. CASE unlinked # {}
  <2>1. Exception \in Notice
    BY Notices
  <2>2. /\ down' \in [Federate -> Seq(Notice)] /\ down'[f] = Send(f, down[f], Exception)
        /\ \A g \in Federate \ {f} : down'[g] = down[g]
    BY <1>2, <2>1, Replied DEF RespondToAll
  <2>3. Send(f, down[f], Exception) \in {down[f], Append(down[f], Exception)}
    BY Sent
  <2> QED
    BY <2>2, <2>3
<1> QED
  BY <1>1, <1>2

\* A point starts: those of T owe an answer for it, and some of them are told.
LEMMA PointStarts ==
    ASSUME FederationInvariant, NEW f \in Federate, NEW kind \in {"REGISTER", "REQUEST"},
           Serving(f, kind),
           UNCHANGED <<members, unlinked, referenced>>, rtigUp' \in BOOLEAN,
           my_save_status' \in BOOLEAN, my_restore_status' \in BOOLEAN,
           \A q \in pending : q.of \in SavesAndRestores /\ Status(q.of)' => Status(q.of),
           NEW p \in Point, p.round = round + 1, round' = round + 1,
           \A q \in pending : q.of # p.of, pending' = pending \cup {p},
           NEW T \in SUBSET members,
           owed' = [g \in Federate |-> IF g \in T THEN owed[g] \cup {p} ELSE owed[g]],
           down' \in [Federate -> Seq(Notice)],
           \A g \in Federate : \/ down'[g] = down[g]
                               \/ g \in T /\ down'[g] = Append(down[g], Start(p))
                               \/ down'[g] = Append(down[g], Exception)
    PROVE  FederationInvariant' /\ AbstractStep
<1>1. /\ TypeOK /\ EndsHold /\ FailuresHold
      /\ up[f] # <<>> /\ Head(up[f]).kind = kind
      /\ up' \in [Federate -> Seq(Request)] /\ up'[f] = Tail(up[f])
      /\ \A g \in Federate \ {f} : up'[g] = up[g]
      /\ ToSet(up[f]) = {Head(up[f])} \cup ToSet(up'[f])
      /\ rtia' = rtia /\ my_synchronization_labels' = my_synchronization_labels
      /\ my_is_saving' = my_is_saving /\ my_is_restoring' = my_is_restoring
      /\ commands' = commands /\ duties' = duties /\ waiting' = waiting
      /\ calls' = calls /\ failed' = failed
  BY Served
<1>2. /\ Start(p) \in Notice /\ Start(p).kind = "START" /\ Start(p).kind \notin Replies
      /\ Exception \in Notice /\ Exception.kind = "EXCEPTION" /\ Exception.kind \notin Replies
  BY Notices DEF Replies
<1>3. ASSUME NEW g \in Federate
      PROVE  /\ FederateHolds(g)'
             /\ \A m : m.kind = "END" => (m \in InTransit(g)' <=> m \in InTransit(g))
  <2>1. LinkHolds(g) /\ (Linked(g) => AsksHold(g))
    BY Parts DEF FederateHolds
  <2>2. PlaceKept(g) /\ Linked(g)' = Linked(g)
    BY DEF PlaceKept, Member, Unlinked, Referenced, Linked
  <2>3. owed'[g] = IF g \in T THEN owed[g] \cup {p} ELSE owed[g]
    OBVIOUS
  <2>4. ReadAndNotified(g)
    BY <1>1, <1>2 DEF ReadAndNotified
  <2>5. PointGiven(g, p)
    BY <2>3 DEF PointGiven
  <2>6. LinkHolds(g)'
    BY <1>1, <2>1, <2>2, <2>4, LinkStaysHeld
  <2>7. Linked(g) => AsksHold(g)'
    BY <1>1, <2>1, <2>4, <2>5, AsksAPoint
  <2>8. \A m : m.kind = "END" => (m \in InTransit(g)' <=> m \in InTransit(g))
    <3>1. down[g] \in Seq(Notice)
      BY <1>1, Typed
    <3>2. /\ ToSet(down[g]) \subseteq ToSet(down'[g])
          /\ \A m \in ToSet(down'[g]) : m \in ToSet(down[g]) \/ m = Start(p) \/ m = Exception
      <4>1. /\ ToSet(Append(down[g], Start(p))) = ToSet(down[g]) \cup {Start(p)}
            /\ ToSet(Append(down[g], Exception)) = ToSet(down[g]) \cup {Exception}
        BY <3>1, <1>2, Appended
      <4> QED
        BY <4>1
    <3> QED
      BY <3>2, <1>1, <1>2 DEF InTransit
  <2> QED
    BY <2>2, <2>6, <2>7, <2>8 DEF FederateHolds
<1>4. TypeOK'
  <2>1. /\ pending' \subseteq Point /\ \A q, r \in pending' : q.of = r.of => q = r
    BY <1>1 DEF TypeOK
  <2>2. /\ owed' \in [Federate -> SUBSET pending']
        /\ \A g \in Federate \ members : owed'[g] = {}
    BY <1>1 DEF TypeOK
  <2>3. round' \in Nat
    BY <1>1 DEF TypeOK
  <2> QED
    BY <2>1, <2>2, <2>3, <1>1 DEF TypeOK
<1>5. EndsHold'
  BY <1>1, <1>3, EndsStayHeld
<1>6. FailuresHold'
  <2>1. \A q \in pending' : \/ q \notin pending /\ q.round = round + 1
                            \/ /\ q \in pending
                               /\ q.of \in SavesAndRestores /\ Status(q.of)' => Status(q.of)
    OBVIOUS
  <2>2. ASSUME NEW g \in Federate
        PROVE  \/ rtia'[g] = "lost"
               \/ /\ rtia[g] # "lost"
                  /\ \A m \in ToSet(up[g]) : m.kind = "ANSWER" => m \in ToSet(up'[g])
    BY <1>1
  <2> QED
    BY <2>1, <2>2, <1>1, FailuresStayHeld
<1>7. AbstractStep
  <2>1. Lost' = Lost /\ Refusals' = Refusals
    BY <1>1, StandingStays
  <2>2. ASSUME NEW g \in Federate
        PROVE  /\ Remaining(g)' = IF g \in T THEN Remaining(g) \cup {p} ELSE Remaining(g)
               /\ News(g)' = News(g)
    <3>1. \A x : Answering(g, x)' <=> Answering(g, x)
      BY <1>1 DEF Answering
    <3>2. ~ Answering(g, p.of)
      <4>1. LinkHolds(g) /\ (Linked(g) => AsksHold(g)) /\ owed[g] \subseteq pending
        BY <1>1, Parts, Typed DEF FederateHolds
      <4>2. Answering(g, p.of) => Linked(g)
        BY <4>1 DEF Answering, LinkHolds, UpHolds
      <4>3. p.of \in Label \cup SavesAndRestores
        BY Points
      <4> QED
        BY <4>1, <4>2, <4>3 DEF AsksHold
    <3>3. owed'[g] = IF g \in T THEN owed[g] \cup {p} ELSE owed[g]
      OBVIOUS
    <3>4. Remaining(g)' = IF g \in T THEN Remaining(g) \cup {p} ELSE Remaining(g)
      BY <3>1, <3>2, <3>3 DEF Remaining
    <3> QED
      BY <3>4, <1>3, NewsStays
  <2>3. \A g \in Federate :
           Remaining(g)' = IF g \in T THEN Remaining(g) \cup {p} ELSE Remaining(g)
    BY <2>2
  <2>4. SameNews(Federate)
    BY <2>2 DEF SameNews
  <2> QED
    BY <2>1, <2>3, <2>4, Begins
<1> QED
  BY <1>3, <1>4, <1>5, <1>6, <1>7 DEF FederationInvariant, FederateHolds

\* A point ends, and some members are told.
LEMMA PointEnds ==
    ASSUME TypeOK, EndsHold', NEW q \in pending, pending' = pending \ {q},
           NEW n \in Notice, n.kind = "END", n.point = q,
           UNCHANGED <<members, round, rtia, commands, failed, Lost, Refusals>>,
           SameRemaining(Federate), \A g \in Federate : q \notin Remaining(g),
           \A g \in Federate : \/ down'[g] = down[g]
                               \/ g \in members /\ down'[g] = Append(down[g], n)
                               \/ down'[g] = Append(down[g], Exception)
    PROVE  AbstractStep
<1>1. PICK S \in SUBSET members :
         S = {g \in members : down'[g] = Append(down[g], n)}
  OBVIOUS
<1>2. PICK verdict \in BOOLEAN : verdict = (n.ok /\ S # {})
  OBVIOUS
<1>3. n.ok \in BOOLEAN /\ Exception \in Notice /\ Exception.kind = "EXCEPTION"
  BY Notices
<1>4. ASSUME NEW g \in S
      PROVE  g \in Federate /\ InTransit(g)' = InTransit(g) \cup {n}
  <2>1. g \in Federate /\ down[g] \in Seq(Notice) /\ down'[g] = Append(down[g], n)
    BY <1>1 DEF TypeOK
  <2>2. ToSet(down'[g]) = ToSet(down[g]) \cup {n}
    BY <2>1, <1>3, Appended
  <2> QED
    BY <2>1, <2>2 DEF InTransit
<1>5. ASSUME NEW g \in S
      PROVE  News(g)' = News(g) \cup {[point |-> q, ok |-> verdict]}
  <2>1. News(g)' = News(g) \cup {[point |-> q, ok |-> n.ok]}
    BY <1>3, <1>4 DEF News
  <2>2. verdict = n.ok
    BY <1>2, <1>3
  <2> QED
    BY <2>1, <2>2
<1>6. SameNews(Federate \ S)
  <2> SUFFICES ASSUME NEW g \in Federate \ S
               PROVE  News(g)' = News(g)
    BY DEF SameNews
  <2>1. down'[g] = down[g] \/ down'[g] = Append(down[g], Exception)
    BY <1>1
  <2>2. down[g] \in Seq(Notice)
    BY DEF TypeOK
  <2>3. ToSet(Append(down[g], Exception)) = ToSet(down[g]) \cup {Exception}
    BY <2>2, <1>3, Appended
  <2> QED
    BY <2>1, <2>3, <1>3, NewsStays DEF InTransit
<1>7. verdict => \A x \in Refusals : x.point # q
  <2> SUFFICES ASSUME NEW g \in S, NEW x \in Refusals, x.point = q
               PROVE  ~ n.ok
    BY <1>2
  <2>1. n.ok => rtia'[x.by] = "lost"
    BY <1>3, <1>4 DEF EndsHold, Refusals
  <2> QED
    BY <2>1 DEF Refusals
<1> QED
  BY <1>5, <1>7, <1>6, Finishes

\* An answer is read: f owes it no more, and when nobody does the point may end.  A
\* success is told only if every answer was one.
LEMMA PointAnswered ==
    ASSUME FederationInvariant, NEW f \in Federate, Serving(f, "ANSWER"),
           NEW y, y = Head(up[f]).of,
           UNCHANGED <<members, unlinked, referenced, rtigUp, round>>,
           my_save_status' \in BOOLEAN, my_restore_status' \in BOOLEAN,
           owed' = [owed EXCEPT ![f] = Answered(owed[f], y)],
           pending' \in {pending, Answered(pending, y)},
           pending' # pending => Owing(owed', y) = {},
           \A x \in SavesAndRestores :
              Status(x)' => Status(x) \/ (x = y /\ pending' = Answered(pending, y)),
           y \in SavesAndRestores /\ Status(y)' =>
              Head(up[f]).ok \/ pending' = Answered(pending, y),
           NEW ok \in BOOLEAN,
           ok /\ y \in SavesAndRestores => Status(y) /\ Head(up[f]).ok,
           down' \in [Federate -> Seq(Notice)],
           \A g \in Federate :
              \/ down'[g] = down[g]
              \/ /\ Owing(owed', y) = {} /\ pending' = Answered(pending, y)
                 /\ g \in members /\ down'[g] = Append(down[g], End(PendingPoint(y), ok))
              \/ down'[g] = Append(down[g], Exception)
    PROVE  FederationInvariant' /\ AbstractStep
<1>1. /\ TypeOK /\ EndsHold /\ FailuresHold /\ LinkHolds(f)
      /\ up[f] # <<>> /\ Head(up[f]).kind = "ANSWER" /\ Head(up[f]) \in Request
      /\ UpHolds(f, Head(up[f]))
      /\ up' \in [Federate -> Seq(Request)] /\ up'[f] = Tail(up[f])
      /\ \A g \in Federate \ {f} : up'[g] = up[g]
      /\ ToSet(up[f]) = {Head(up[f])} \cup ToSet(up'[f])
      /\ rtia' = rtia /\ my_synchronization_labels' = my_synchronization_labels
      /\ my_is_saving' = my_is_saving /\ my_is_restoring' = my_is_restoring
      /\ commands' = commands /\ duties' = duties /\ waiting' = waiting
      /\ calls' = calls /\ failed' = failed
  BY Served
<1>2. Linked(f) /\ AsksHold(f)
  <2>1. Linked(f)
    BY <1>1 DEF UpHolds
  <2> QED
    BY <2>1, Parts DEF FederateHolds
<1>3. PICK q \in owed[f] : q.of = y
  <2>1. Answering(f, y) /\ y \in Label \cup SavesAndRestores
    BY <1>1, Requests DEF Answering
  <2> QED
    BY <2>1, <1>2 DEF AsksHold
<1>4. q \in pending /\ q \in Point /\ PendingPoint(y) = q /\ q.round <= round
  <2>1. q \in pending /\ q \in Point
    BY <1>1, <1>3, Typed
  <2> QED
    BY <2>1, <1>1, <1>3, ThePendingPoint DEF EndsHold
<1>5. /\ owed'[f] = Answered(owed[f], y)
      /\ \A g \in Federate \ {f} : owed'[g] = owed[g]
  BY <1>1 DEF TypeOK
<1>6. /\ End(q, ok) \in Notice /\ End(q, ok).kind = "END" /\ End(q, ok).kind \notin Replies
      /\ End(q, ok).point = q /\ End(q, ok).ok = ok
      /\ Exception \in Notice /\ Exception.kind = "EXCEPTION" /\ Exception.kind \notin Replies
  BY <1>4, Notices DEF Replies
<1>7. ASSUME NEW g \in Federate
      PROVE  /\ PlaceKept(g) /\ Linked(g)' = Linked(g) /\ ReadAndNotified(g)
             /\ \/ down'[g] = down[g]
                \/ \E n \in Notice : n.kind # "START" /\ down'[g] = Append(down[g], n)
  <2>1. PlaceKept(g) /\ Linked(g)' = Linked(g)
    BY DEF PlaceKept, Member, Unlinked, Referenced, Linked
  <2>2. \/ down'[g] = down[g] \/ down'[g] = Append(down[g], End(q, ok))
        \/ down'[g] = Append(down[g], Exception)
    BY <1>4
  <2>3. ReadAndNotified(g)
    BY <1>1, <1>6, <2>2 DEF ReadAndNotified
  <2> QED
    BY <2>1, <2>2, <2>3, <1>6
<1>8. AsksHold(f)' /\ \A m \in ToSet(up'[f]) : m.kind = "ANSWER" => m.of # y
  BY <1>1, <1>2, <1>5, <1>7, AsksAnswered
<1>9. ASSUME NEW g \in Federate
      PROVE  FederateHolds(g)'
  <2>1. LinkHolds(g) /\ (Linked(g) => AsksHold(g))
    BY Parts DEF FederateHolds
  <2>2. LinkHolds(g)'
    BY <1>1, <1>7, <2>1, LinkStaysHeld
  <2>3. CASE g = f
    BY <2>2, <2>3, <1>8 DEF FederateHolds
  <2>4. CASE g # f
    <3>1. Linked(g) => AsksHold(g)'
      BY <2>1, <2>4, <1>1, <1>5, <1>7, AsksStayUnannounced
    <3> QED
      BY <3>1, <2>2, <1>7 DEF FederateHolds
  <2> QED
    BY <2>3, <2>4
<1>10. TypeOK'
  <2>1. pending' \subseteq pending
    BY DEF Answered
  <2>2. owed' \in [Federate -> SUBSET pending']
    <3>1. ASSUME NEW g \in Federate
          PROVE  owed'[g] \subseteq pending'
      <4>1. owed'[g] \subseteq pending
        BY <1>1, <1>5 DEF TypeOK, Answered
      <4>2. CASE pending' = pending
        BY <4>1, <4>2
      <4>3. CASE pending' # pending
        <5>1. \A p \in owed'[g] : p.of # y
          BY <4>3 DEF Owing
        <5> QED
          BY <5>1, <4>1 DEF Answered
      <4> QED
        BY <4>2, <4>3
    <3> QED
      BY <3>1, <1>1 DEF TypeOK
  <2>3. \A g \in Federate \ members : owed'[g] = {}
    BY <1>1, <1>5 DEF TypeOK, Answered
  <2>4. pending' \subseteq Point /\ \A p, r \in pending' : p.of = r.of => p = r
    BY <1>1, <2>1 DEF TypeOK
  <2> HIDE DEF Answered
  <2> QED
    BY <2>2, <2>3, <2>4, <1>1 DEF TypeOK
<1>11. ASSUME NEW x \in failed, x.point \in pending, Status(x.point.of),
              x.point.of = y => Head(up[f]).ok, rtia'[x.by] # "lost"
       PROVE  \E m \in ToSet(up'[x.by]) : m.kind = "ANSWER" /\ m.of = x.point.of /\ ~ m.ok
  <2>1. PICK m \in ToSet(up[x.by]) : m.kind = "ANSWER" /\ m.of = x.point.of /\ ~ m.ok
    BY <1>1, <1>11 DEF FailuresHold
  <2>2. x.by \in Federate
    BY <1>1 DEF TypeOK
  <2>3. m \in ToSet(up'[x.by])
    BY <2>1, <2>2, <1>1, <1>11
  <2> QED
    BY <2>1, <2>3
<1>12. EndsHold'
  <2>1. IsFiniteSet(pending') /\ pending' \subseteq pending
    BY <1>1, FS_Subset DEF EndsHold, Answered
  <2>2. \A p \in pending' : p.round <= round'
    BY <1>1, <2>1 DEF EndsHold
  <2>3. ASSUME NEW g \in Federate, NEW m \in InTransit(g)', m.kind = "END"
        PROVE  /\ m.point.round <= round' /\ m.point \notin pending'
               /\ m.ok => \A x \in failed' : x.point = m.point => rtia'[x.by] = "lost"
    <3>1. CASE m \in InTransit(g)
      BY <3>1, <2>1, <2>3, <1>1 DEF EndsHold
    <3>2. CASE m \notin InTransit(g)
      <4>1. m = End(q, ok) /\ Owing(owed', y) = {} /\ pending' = Answered(pending, y)
        <5>1. down[g] \in Seq(Notice)
          BY <1>1, Typed
        <5>2. m \in ToSet(down'[g]) /\ m \notin ToSet(down[g])
          BY <2>3, <3>2, <1>1 DEF InTransit
        <5>3. m # Exception
          BY <2>3, <1>6
        <5>4. CASE down'[g] = Append(down[g], Exception)
          <6>1. ToSet(down'[g]) = ToSet(down[g]) \cup {Exception}
            BY <5>1, <5>4, <1>6, Appended
          <6> QED
            BY <6>1, <5>2, <5>3
        <5>5. CASE /\ Owing(owed', y) = {} /\ pending' = Answered(pending, y)
                   /\ down'[g] = Append(down[g], End(q, ok))
          <6>1. ToSet(down'[g]) = ToSet(down[g]) \cup {End(q, ok)}
            BY <5>1, <5>5, <1>6, Appended
          <6> QED
            BY <6>1, <5>2, <5>5
        <5> QED
          BY <5>2, <5>4, <5>5, <1>4
      <4>2. m.point = q /\ m.ok = ok /\ q \notin pending'
        BY <4>1, <1>3, <1>6 DEF Answered
      <4>3. ASSUME ok, NEW x \in failed, x.point = q, rtia'[x.by] # "lost"
            PROVE  FALSE
        <5>1. y \in SavesAndRestores
          BY <4>3, <1>1, <1>3 DEF FailuresHold
        <5>2. PICK r \in ToSet(up'[x.by]) : r.kind = "ANSWER" /\ r.of = y
          BY <4>3, <5>1, <1>3, <1>4, <1>11
        <5>3. x.by \in Federate /\ x.by # f
          BY <5>2, <1>8, <1>1 DEF TypeOK
        <5>4. r \in ToSet(up[x.by])
          BY <5>2, <5>3, <1>1
        <5>5. LinkHolds(x.by) /\ (Linked(x.by) => AsksHold(x.by))
          BY <5>3, Parts DEF FederateHolds
        <5>6. Linked(x.by)
          BY <5>2, <5>4, <5>5 DEF LinkHolds, UpHolds
        <5>7. Answering(x.by, y) /\ y \in Label \cup SavesAndRestores
          BY <5>1, <5>2, <5>4 DEF Answering
        <5>8. \E p \in owed[x.by] : p.of = y
          BY <5>5, <5>6, <5>7 DEF AsksHold
        <5> QED
          BY <5>3, <5>8, <4>1, <1>5 DEF Owing
      <4> QED
        BY <4>2, <4>3, <1>1, <1>4
    <3> QED
      BY <3>1, <3>2
  <2> QED
    BY <2>1, <2>2, <2>3 DEF EndsHold
<1>13. FailuresHold'
  <2> SUFFICES ASSUME NEW x \in failed
               PROVE  /\ x.point.of \in SavesAndRestores /\ x.point.round <= round'
                      /\ x.point \in pending' /\ Status(x.point.of)' =>
                            \/ rtia'[x.by] = "lost"
                            \/ \E m \in ToSet(up'[x.by]) :
                                  m.kind = "ANSWER" /\ m.of = x.point.of /\ ~ m.ok
    BY <1>1 DEF FailuresHold
  <2>1. x.point.of \in SavesAndRestores /\ x.point.round <= round'
    BY <1>1 DEF FailuresHold
  <2>2. ASSUME x.point \in pending', Status(x.point.of)'
        PROVE  /\ x.point \in pending /\ Status(x.point.of)
               /\ x.point.of = y => Head(up[f]).ok
    <3>1. x.point \in pending
      BY <2>2 DEF Answered
    <3>2. x.point.of = y => pending' # Answered(pending, y)
      BY <2>2 DEF Answered
    <3> HIDE DEF Answered, Status
    <3> QED
      BY <3>1, <3>2, <2>1, <2>2
  <2> QED
    BY <2>1, <2>2, <1>11
<1>14. AbstractStep
  <2>1. Lost' = Lost /\ Refusals' = Refusals
    BY <1>1, StandingStays
  <2>2. ASSUME NEW g \in Federate
        PROVE  Remaining(g)' = Remaining(g)
    <3>1. CASE g # f
      BY <3>1, <1>1, <1>5, RemainingStays
    <3>2. CASE g = f
      <4>1. \A x : Answering(f, x) <=> Answering(f, x)' \/ x = y
        BY <1>1 DEF Answering
      <4>2. \A p \in owed'[f] : p.of # y
        BY <1>5 DEF Answered
      <4>3. owed'[f] = {p \in owed[f] : p.of # y}
        BY <1>5 DEF Answered
      <4> QED
        BY <4>1, <4>2, <4>3, <3>2 DEF Remaining
    <3> QED
      BY <3>1, <3>2
  <2>3. CASE pending' = pending
    <3>1. pending' # Answered(pending, y)
      BY <2>3, <1>3, <1>4 DEF Answered
    <3>2. ASSUME NEW g \in Federate
          PROVE  News(g)' = News(g)
      <4>1. down[g] \in Seq(Notice)
        BY <1>1, Typed
      <4>2. ToSet(down'[g]) = ToSet(down[g]) \/ ToSet(down'[g]) = ToSet(down[g]) \cup {Exception}
        BY <4>1, <3>1, <1>6, Appended
      <4> QED
        BY <4>2, <1>1, <1>6, NewsStays DEF InTransit
    <3> QED
      BY <2>1, <2>2, <2>3, <3>2, Stutters DEF SameRemaining, SameNews
  <2>4. CASE pending' # pending
    <3>1. pending' = pending \ {q} /\ \A g \in Federate : q \notin Remaining(g)
      <4>1. \A p \in pending : p.of = y => p = q
        BY <1>1, <1>3, <1>4 DEF TypeOK
      <4>2. pending' = Answered(pending, y) /\ Owing(owed', y) = {}
        BY <2>4
      <4>3. \A g \in Federate : q \notin owed'[g]
        BY <4>2, <1>3 DEF Owing
      <4> QED
        BY <4>1, <4>2, <4>3, <1>3, <2>2 DEF Answered, Remaining
    <3>2. PICK n \in Notice : n.kind = "END" /\ n.point = q /\ n = End(q, ok)
      BY <1>6
    <3>3. \A g \in Federate : \/ down'[g] = down[g]
                              \/ g \in members /\ down'[g] = Append(down[g], n)
                              \/ down'[g] = Append(down[g], Exception)
      BY <1>4, <3>2
    <3>4. SameRemaining(Federate)
      BY <2>2 DEF SameRemaining
    <3>5. UNCHANGED <<members, round, rtia, commands, failed, Lost, Refusals>>
      BY <1>1, <2>1
    <3> QED
      BY <1>1, <1>4, <1>12, <3>1, <3>2, <3>3, <3>4, <3>5, PointEnds
  <2> QED
    BY <2>3, <2>4
<1> QED
  BY <1>9, <1>10, <1>12, <1>13, <1>14 DEF FederationInvariant, FederateHolds

LEMMA RegisterPointKeeps ==
    ASSUME FederationInvariant, NEW f \in Federate, RegisterPoint(f)
    PROVE  FederationInvariant' /\ AbstractStep
<1> DEFINE label == Head(up[f]).of
           S == Head(up[f]).to
           p == NewPoint(label)
<1>0. Serving(f, "REGISTER")
  BY DEF RegisterPoint
<1>1. /\ TypeOK /\ EndsHold /\ FailuresHold /\ FederateHolds(f) /\ LinkHolds(f)
      /\ up[f] # <<>> /\ Head(up[f]).kind = "REGISTER" /\ Head(up[f]) \in Request
      /\ UpHolds(f, Head(up[f]))
      /\ up' \in [Federate -> Seq(Request)] /\ up'[f] = Tail(up[f])
      /\ \A g \in Federate \ {f} : up'[g] = up[g]
      /\ ToSet(up[f]) = {Head(up[f])} \cup ToSet(up'[f])
      /\ rtia' = rtia /\ my_synchronization_labels' = my_synchronization_labels
      /\ my_is_saving' = my_is_saving /\ my_is_restoring' = my_is_restoring
      /\ commands' = commands /\ duties' = duties /\ waiting' = waiting
      /\ calls' = calls /\ failed' = failed
  BY <1>0, Served
<1>2. /\ Linked(f) /\ f \in members /\ label \in Label
      /\ S \in FederateSets \cup {Federate}
  BY <1>1, Requests DEF UpHolds, Linked
<1>3. /\ UNCHANGED <<members, unlinked, referenced, my_save_status, my_restore_status>>
      /\ IF f \notin members \/ IsPending(label)
           THEN UNCHANGED <<pending, owed, down, rtigUp, round>>
           ELSE /\ round' = round + 1
                /\ IF S = Federate THEN RegisterForAll(f, label)
                                   ELSE RegisterForSet(f, label, S)
  BY DEF RegisterPoint
<1> HIDE DEF label, S
<1>4. CASE IsPending(label)
  <2>1. UNCHANGED <<pending, owed, down, rtigUp, round>>
    BY <1>3, <1>4
  <2>2. ASSUME NEW g \in Federate
        PROVE  FederateHolds(g)'
    <3>1. PlaceKept(g) /\ Linked(g)' = Linked(g)
      BY <1>3 DEF PlaceKept, Member, Unlinked, Referenced, Linked
    <3>2. ReadAndNotified(g)
      BY <1>1, <2>1 DEF ReadAndNotified
    <3>3. LinkHolds(g) /\ (Linked(g) => AsksHold(g))
      BY Parts DEF FederateHolds
    <3>4. LinkHolds(g)'
      BY <1>1, <3>1, <3>2, <3>3, LinkStaysHeld
    <3>5. Linked(g) => AsksHold(g)'
      BY <1>1, <2>1, <3>2, <3>3, AsksStayUnannounced
    <3> QED
      BY <3>1, <3>4, <3>5 DEF FederateHolds
  <2>3. \A g \in Federate \ {f} : PlaceKept(g)
    BY <1>3 DEF PlaceKept, Member, Unlinked, Referenced
  <2>4. TypeOK'
    BY <1>1, <1>3, <2>1 DEF TypeOK
  <2>5. InTransit(f)' = InTransit(f)
    BY <1>1, <2>1 DEF InTransit
  <2>6. \A m \in ToSet(up[f]) : m.kind = "ANSWER" => m \in ToSet(up'[f])
    BY <1>1
  <2>7. AbstractStep
    BY <1>1, <1>3, <2>1, RtigStutters DEF InTransit
  <2> QED
    BY <1>1, <1>3, <2>1, <2>2, <2>3, <2>4, <2>5, <2>6, <2>7, RtigMoves
<1>5. CASE ~ IsPending(label)
  <2>1. /\ p \in Point /\ p.of = label /\ p.round = round + 1 /\ round \in Nat
    <3>1. round \in Nat
      BY <1>1 DEF TypeOK
    <3> QED
      BY <3>1, <1>2, NewPoints
  <2>2. /\ round' = round + 1
        /\ IF S = Federate THEN RegisterForAll(f, label) ELSE RegisterForSet(f, label, S)
    BY <1>2, <1>3, <1>5
  <2>3. \A q \in pending : q.of # p.of
    BY <1>5, <2>1 DEF IsPending
  <2> HIDE DEF p
  <2>4. pending' = pending \cup {p}
    BY <2>2 DEF RegisterForAll, RegisterForSet, p
  <2>5. Start(p) \in Notice /\ Start(p) = Start(NewPoint(label))
    BY <2>1, Notices DEF p
  <2>6. \E T \in SUBSET members :
           /\ owed' = [g \in Federate |-> IF g \in T THEN owed[g] \cup {p} ELSE owed[g]]
           /\ down' \in [Federate -> Seq(Notice)]
           /\ \A g \in Federate : \/ down'[g] = down[g]
                                  \/ g \in T /\ down'[g] = Append(down[g], Start(p))
                                  \/ down'[g] = Append(down[g], Exception)
           /\ rtigUp' \in BOOLEAN
    <3>0. down \in [Federate -> Seq(Notice)] /\ members \subseteq Federate /\ rtigUp \in BOOLEAN
      BY <1>1 DEF TypeOK
    <3>1. CASE S = Federate
      <4>1. /\ owed' = [g \in Federate |->
                         IF g \in members THEN owed[g] \cup {p} ELSE owed[g]]
            /\ RespondToAll(f, Start(p)) /\ UNCHANGED rtigUp
        BY <2>2, <3>1 DEF RegisterForAll, p
      <4>2. /\ down' \in [Federate -> Seq(Notice)]
            /\ \A g \in Federate :
                 \/ down'[g] = down[g]
                 \/ unlinked = {} /\ g \in members /\ down'[g] = Append(down[g], Start(p))
                 \/ down'[g] = Append(down[g], Exception)
        BY <1>1, <2>5, <4>1, RespondedToAll
      <4> QED
        BY <3>0, <4>1, <4>2
    <3>2. CASE S # Federate /\ S = {}
      <4>1. /\ owed' = [g \in Federate |-> IF g \in {} THEN owed[g] \cup {p} ELSE owed[g]]
            /\ rtigUp' = rtigUp /\ down' = down
        BY <2>2, <3>2 DEF RegisterForSet, p
      <4>2. {} \in SUBSET members
        OBVIOUS
      <4>3. /\ down' \in [Federate -> Seq(Notice)] /\ rtigUp' \in BOOLEAN
            /\ \A g \in Federate : down'[g] = down[g]
        BY <3>0, <4>1
      <4> QED
        BY <4>1, <4>2, <4>3
    <3>3. CASE S # Federate /\ S # {} /\ f \notin S /\ S \subseteq members
      <4>1. /\ owed' = [g \in Federate |->
                         IF g \in S \cup {f} THEN owed[g] \cup {p} ELSE owed[g]]
            /\ RespondToSome(S, Start(p)) /\ UNCHANGED rtigUp
        BY <2>2, <3>3 DEF RegisterForSet, p
      <4>2. S \in SUBSET Federate /\ S \cup {f} \in SUBSET members
        BY <1>2, <3>0, <3>3
      <4>3. /\ down' \in [Federate -> Seq(Notice)]
            /\ \A g \in Federate :
                 down'[g] = down[g] \/ (g \in S /\ down'[g] = Append(down[g], Start(p)))
        BY <1>1, <2>5, <4>1, <4>2, RespondedToSome
      <4> QED
        BY <3>0, <4>1, <4>2, <4>3
    <3>4. CASE S # Federate /\ S # {} /\ ~ (f \notin S /\ S \subseteq members)
      <4>1. PICK T \in SUBSET ((S \cap members) \ {f}) :
               /\ owed' = [g \in Federate |->
                            IF g \in T \cup {f} THEN owed[g] \cup {p} ELSE owed[g]]
               /\ rtigUp' \in BOOLEAN /\ UNCHANGED down
        BY <2>2, <3>4 DEF RegisterForSet, p
      <4>2. T \cup {f} \in SUBSET members
        BY <1>2
      <4> QED
        BY <3>0, <4>1, <4>2
    <3> QED
      BY <3>1, <3>2, <3>3, <3>4
  <2>7. /\ my_save_status' \in BOOLEAN /\ my_restore_status' \in BOOLEAN
        /\ \A q \in pending : Status(q.of)' => Status(q.of)
    BY <1>1, <1>3 DEF TypeOK, Status
  <2> QED
    BY <1>0, <1>3, <2>1, <2>2, <2>3, <2>4, <2>6, <2>7, PointStarts
<1> QED
  BY <1>4, <1>5

LEMMA SaveOrRestoreKeeps ==
    ASSUME FederationInvariant, NEW f \in Federate, SaveOrRestore(f)
    PROVE  FederationInvariant' /\ AbstractStep
<1> DEFINE x == Head(up[f]).of
           p == NewPoint(x)
<1>0. Serving(f, "REQUEST")
  BY DEF SaveOrRestore
<1>1. /\ TypeOK /\ EndsHold /\ FailuresHold /\ FederateHolds(f) /\ LinkHolds(f)
      /\ up[f] # <<>> /\ Head(up[f]).kind = "REQUEST" /\ Head(up[f]) \in Request
      /\ UpHolds(f, Head(up[f]))
      /\ up' \in [Federate -> Seq(Request)] /\ up'[f] = Tail(up[f])
      /\ \A g \in Federate \ {f} : up'[g] = up[g]
      /\ ToSet(up[f]) = {Head(up[f])} \cup ToSet(up'[f])
      /\ rtia' = rtia /\ my_synchronization_labels' = my_synchronization_labels
      /\ my_is_saving' = my_is_saving /\ my_is_restoring' = my_is_restoring
      /\ commands' = commands /\ duties' = duties /\ waiting' = waiting
      /\ calls' = calls /\ failed' = failed
  BY <1>0, Served
<1>2. Linked(f) /\ f \in members /\ x \in SavesAndRestores
  BY <1>1 DEF UpHolds, Linked
<1>3. /\ UNCHANGED <<members, unlinked, referenced>>
      /\ IF f \notin members \/ IsPending(x)
           THEN /\ Reply(f, Exception)
                /\ UNCHANGED <<pending, owed, my_save_status, my_restore_status, rtigUp,
                               round>>
           ELSE /\ round' = round + 1
                /\ pending' = pending \cup {p}
                /\ owed' = [g \in Federate |->
                     IF g \in members THEN owed[g] \cup {p} ELSE owed[g]]
                /\ my_save_status' = (my_save_status \/ x = Save)
                /\ my_restore_status' = (my_restore_status \/ x = Restore)
                /\ RespondToAll(f, Start(p))
                /\ rtigUp' = ~(Head(up[f]).dated /\ unlinked = {})
  BY DEF SaveOrRestore
<1> HIDE DEF x, p
<1>4. CASE IsPending(x)
  <2>1. UNCHANGED <<pending, owed, my_save_status, my_restore_status, rtigUp, round>>
        /\ Reply(f, Exception)
    BY <1>3, <1>4
  <2>2. Exception \in Notice /\ Exception.kind = "EXCEPTION" /\ Exception.kind \notin Replies
    BY Notices DEF Replies
  <2>3. /\ down' \in [Federate -> Seq(Notice)]
        /\ down'[f] \in {down[f], Append(down[f], Exception)}
        /\ \A g \in Federate \ {f} : down'[g] = down[g]
    BY <1>1, <2>1, <2>2, Replied, Sent
  <2>4. PlaceKept(f) /\ Linked(f)' = Linked(f) /\ \A g \in Federate : PlaceKept(g)
    BY <1>3 DEF PlaceKept, Member, Unlinked, Referenced, Linked
  <2>5. ReadAndNotified(f)
    BY <1>1, <2>2, <2>3 DEF ReadAndNotified
  <2>6. FederateHolds(f)'
    <3>1. LinkHolds(f) /\ (Linked(f) => AsksHold(f))
      BY <1>1 DEF FederateHolds
    <3>2. LinkHolds(f)'
      BY <1>1, <2>4, <2>5, <3>1, LinkStaysHeld
    <3>3. Linked(f) => AsksHold(f)'
      <4>1. \/ down'[f] = down[f]
            \/ \E n \in Notice : n.kind # "START" /\ down'[f] = Append(down[f], n)
        BY <2>2, <2>3
      <4> QED
        BY <1>1, <2>1, <2>5, <3>1, <4>1, AsksStayUnannounced
    <3> QED
      BY <2>4, <3>2, <3>3 DEF FederateHolds
  <2>7. TypeOK'
    BY <1>1, <1>3, <2>1, <2>3 DEF TypeOK
  <2>8. \A n : n.kind = "END" => (n \in InTransit(f)' <=> n \in InTransit(f))
    <3>1. down[f] \in Seq(Notice)
      BY <1>1, Typed
    <3>2. ToSet(Append(down[f], Exception)) = ToSet(down[f]) \cup {Exception}
      BY <3>1, <2>2, Appended
    <3> QED
      BY <3>2, <1>1, <2>2, <2>3 DEF InTransit
  <2>9. \A m \in ToSet(up[f]) : m.kind = "ANSWER" => m \in ToSet(up'[f])
    BY <1>1
  <2>10. AbstractStep
    <3>1. ASSUME NEW g \in Federate
          PROVE  /\ \A m : m.kind = "ANSWER" => (m \in ToSet(up'[g]) <=> m \in ToSet(up[g]))
                 /\ \A n : n.kind = "END" => (n \in InTransit(g)' <=> n \in InTransit(g))
      BY <1>1, <2>3, <2>8 DEF InTransit
    <3> QED
      BY <1>1, <1>3, <2>1, <3>1, RtigStutters
  <2> QED
    BY <1>1, <2>1, <2>3, <2>4, <2>6, <2>7, <2>8, <2>9, <2>10, RtigMoves
<1>5. CASE ~ IsPending(x)
  <2>1. /\ p \in Point /\ p.of = x /\ p.round = round + 1 /\ round \in Nat
    <3>1. round \in Nat /\ x \in Label \cup SavesAndRestores
      BY <1>1, <1>2 DEF TypeOK
    <3> QED
      BY <3>1, NewPoints DEF p
  <2>2. /\ round' = round + 1 /\ pending' = pending \cup {p}
        /\ owed' = [g \in Federate |-> IF g \in members THEN owed[g] \cup {p} ELSE owed[g]]
        /\ my_save_status' = (my_save_status \/ x = Save)
        /\ my_restore_status' = (my_restore_status \/ x = Restore)
        /\ RespondToAll(f, Start(p))
        /\ rtigUp' = ~(Head(up[f]).dated /\ unlinked = {})
    BY <1>2, <1>3, <1>5
  <2>3. \A q \in pending : q.of # x /\ q.of # p.of
    BY <1>5, <2>1 DEF IsPending
  <2>4. Start(p) \in Notice
    BY <2>1, Notices
  <2>5. /\ down' \in [Federate -> Seq(Notice)]
        /\ \A g \in Federate :
             \/ down'[g] = down[g]
             \/ unlinked = {} /\ g \in members /\ down'[g] = Append(down[g], Start(p))
             \/ down'[g] = Append(down[g], Exception)
    BY <1>1, <2>2, <2>4, RespondedToAll
  <2>6. my_save_status' \in BOOLEAN /\ my_restore_status' \in BOOLEAN /\ rtigUp' \in BOOLEAN
    BY <2>2
  <2>7. \A q \in pending : q.of \in SavesAndRestores /\ Status(q.of)' => Status(q.of)
    <3> SUFFICES ASSUME NEW q \in pending, q.of \in SavesAndRestores
                 PROVE  Status(q.of)' => Status(q.of)
      OBVIOUS
    <3>1. q.of # x
      BY <2>3
    <3>2. CASE q.of = Save
      BY <3>1, <3>2, <2>2 DEF Status
    <3>3. CASE q.of = Restore
      BY <3>1, <3>3, <2>2 DEF Status, Save, Restore
    <3> QED
      BY <3>2, <3>3 DEF SavesAndRestores
  <2>8. members \in SUBSET members
    OBVIOUS
  <2> QED
    BY <1>0, <1>3, <2>1, <2>2, <2>3, <2>5, <2>6, <2>7, <2>8, PointStarts
<1> QED
  BY <1>4, <1>5

LEMMA LabelAchievedKeeps ==
    ASSUME FederationInvariant, NEW f \in Federate, LabelAchieved(f)
    PROVE  FederationInvariant' /\ AbstractStep
<1> DEFINE label == Head(up[f]).of
<1>0. Serving(f, "ANSWER") /\ label \in Label
  BY DEF LabelAchieved
<1>1. /\ TypeOK /\ FederateHolds(f) /\ Head(up[f]).kind = "ANSWER" /\ UpHolds(f, Head(up[f]))
      /\ Head(up[f]) \in ToSet(up[f])
  BY <1>0, Served
<1>2. Linked(f) /\ f \in members /\ AsksHold(f)
  BY <1>1 DEF UpHolds, Linked, FederateHolds
<1>3. f \in Owing(owed, label)
  <2>1. Answering(f, label)
    BY <1>1 DEF Answering
  <2> QED
    BY <2>1, <1>0, <1>2 DEF AsksHold, Owing
<1>4. /\ UNCHANGED <<members, unlinked, referenced, my_save_status, my_restore_status,
                     rtigUp, round>>
      /\ owed' = [owed EXCEPT ![f] = Answered(owed[f], label)]
      /\ IF Owing(owed', label) = {}
           THEN /\ pending' = Answered(pending, label)
                /\ RespondToAll(f, End(PendingPoint(label), TRUE))
           ELSE UNCHANGED <<pending, down>>
  BY <1>2, <1>3 DEF LabelAchieved
<1>5. label \notin SavesAndRestores
  BY <1>0, ConstantsAssumption DEF SavesAndRestores
<1>6. \A x \in SavesAndRestores : Status(x)' = Status(x)
  BY <1>4 DEF Status
<1>7. End(PendingPoint(label), TRUE) \in Notice
  <2>1. PICK q \in owed[f] : q.of = label
    BY <1>3 DEF Owing
  <2>2. q \in pending /\ q \in Point /\ PendingPoint(label) = q
    BY <2>1, <1>1, Typed, ThePendingPoint
  <2> QED
    BY <2>2, Notices
<1>8. /\ down' \in [Federate -> Seq(Notice)]
      /\ \A g \in Federate :
           \/ down'[g] = down[g]
           \/ /\ Owing(owed', label) = {} /\ pending' = Answered(pending, label)
              /\ g \in members /\ down'[g] = Append(down[g], End(PendingPoint(label), TRUE))
           \/ down'[g] = Append(down[g], Exception)
  <2>1. CASE Owing(owed', label) = {}
    BY <1>1, <1>4, <1>7, <2>1, RespondedToAll
  <2>2. CASE Owing(owed', label) # {}
    BY <1>1, <1>4, <2>2 DEF TypeOK
  <2> QED
    BY <2>1, <2>2
<1>9. /\ pending' \in {pending, Answered(pending, label)}
      /\ pending' # pending => Owing(owed', label) = {}
      /\ my_save_status' \in BOOLEAN /\ my_restore_status' \in BOOLEAN
  BY <1>1, <1>4 DEF TypeOK
<1> HIDE DEF label
<1> QED
  <2>1. label = Head(up[f]).of
    BY DEF label
  <2> QED
    BY <2>1, <1>0, <1>4, <1>5, <1>6, <1>8, <1>9, PointAnswered

LEMMA SaveStatusKeeps ==
    ASSUME FederationInvariant, NEW f \in Federate, SaveStatus(f)
    PROVE  FederationInvariant' /\ AbstractStep
<1> DEFINE ok == Head(up[f]).ok
           status == my_save_status /\ ok
<1>0. Serving(f, "ANSWER") /\ Head(up[f]).of = Save
  BY DEF SaveStatus
<1>1. /\ TypeOK /\ FederateHolds(f) /\ Head(up[f]).kind = "ANSWER" /\ UpHolds(f, Head(up[f]))
      /\ Head(up[f]) \in ToSet(up[f]) /\ Head(up[f]) \in Request
  BY <1>0, Served
<1>2. /\ Linked(f) /\ f \in members /\ AsksHold(f) /\ Save \in SavesAndRestores
      /\ ok \in BOOLEAN /\ my_save_status \in BOOLEAN /\ my_restore_status \in BOOLEAN
  <2>1. Linked(f) /\ f \in members /\ AsksHold(f) /\ Save \in SavesAndRestores
    BY <1>1 DEF UpHolds, Linked, FederateHolds, SavesAndRestores
  <2>2. ok \in BOOLEAN
    BY <1>1, Requests
  <2> QED
    BY <2>1, <2>2, <1>1 DEF TypeOK
<1>3. /\ UNCHANGED <<members, unlinked, referenced, my_restore_status, rtigUp, round>>
      /\ owed' = [owed EXCEPT ![f] = Answered(owed[f], Save)]
      /\ IF Owing(owed', Save) # {}
           THEN my_save_status' = status /\ UNCHANGED <<pending, down>>
           ELSE \E written \in BOOLEAN :
                  /\ RespondToAll(f, End(PendingPoint(Save), status /\ written))
                  /\ IF unlinked = {}
                       THEN pending' = Answered(pending, Save) /\ my_save_status' = TRUE
                       ELSE my_save_status' = (status /\ written) /\ UNCHANGED pending
  BY <1>2 DEF SaveStatus
<1>4. \A b \in BOOLEAN : End(PendingPoint(Save), b) \in Notice
  <2>1. Answering(f, Save)
    BY <1>0, <1>1 DEF Answering
  <2>2. PICK q \in owed[f] : q.of = Save
    BY <2>1, <1>2 DEF AsksHold
  <2>3. q \in pending /\ q \in Point /\ PendingPoint(Save) = q
    BY <2>2, <1>1, Typed, ThePendingPoint
  <2> QED
    BY <2>3, Notices
<1>5. Status(Restore)' = Status(Restore) /\ Status(Save) = my_save_status
      /\ Status(Save)' = my_save_status'
  BY <1>3 DEF Status, Save, Restore
<1> HIDE DEF ok, status
<1>6. CASE Owing(owed', Save) # {}
  <2>1. my_save_status' = status /\ pending' = pending /\ down' = down
    BY <1>3, <1>6
  <2>2. /\ \A x \in SavesAndRestores : Status(x)' => Status(x)
        /\ Status(Save)' => Head(up[f]).ok
        /\ my_save_status' \in BOOLEAN /\ my_restore_status' \in BOOLEAN
    BY <1>2, <1>3, <1>5, <2>1 DEF status, ok, SavesAndRestores
  <2>3. down' \in [Federate -> Seq(Notice)]
    BY <1>1, <2>1 DEF TypeOK
  <2> QED
    BY <1>0, <1>3, <1>6, <2>1, <2>2, <2>3, PointAnswered
<1>7. CASE Owing(owed', Save) = {}
  <2>1. PICK written \in BOOLEAN :
           /\ RespondToAll(f, End(PendingPoint(Save), status /\ written))
           /\ IF unlinked = {}
                THEN pending' = Answered(pending, Save) /\ my_save_status' = TRUE
                ELSE my_save_status' = (status /\ written) /\ UNCHANGED pending
    BY <1>3, <1>7
  <2> DEFINE good == status /\ written
  <2>2. /\ good \in BOOLEAN
        /\ good => Status(Save) /\ Head(up[f]).ok
    BY <1>5 DEF status, ok
  <2> HIDE DEF good
  <2>3. RespondToAll(f, End(PendingPoint(Save), good)) /\ End(PendingPoint(Save), good) \in Notice
    BY <1>4, <2>1, <2>2 DEF good
  <2>4. /\ down' \in [Federate -> Seq(Notice)]
        /\ \A g \in Federate :
             \/ down'[g] = down[g]
             \/ /\ unlinked = {} /\ g \in members
                /\ down'[g] = Append(down[g], End(PendingPoint(Save), good))
             \/ down'[g] = Append(down[g], Exception)
    BY <1>1, <2>3, RespondedToAll
  <2>5. CASE unlinked = {}
    <3>1. pending' = Answered(pending, Save) /\ my_save_status' = TRUE
      BY <2>1, <2>5
    <3>2. \A x \in SavesAndRestores :
            Status(x)' => Status(x) \/ (x = Save /\ pending' = Answered(pending, Save))
      BY <3>1, <1>5 DEF SavesAndRestores
    <3>3. my_save_status' \in BOOLEAN /\ my_restore_status' \in BOOLEAN
      BY <1>2, <1>3, <3>1
    <3> QED
      BY <1>0, <1>2, <1>3, <1>7, <2>2, <2>4, <3>1, <3>2, <3>3, PointAnswered
  <2>6. CASE unlinked # {}
    <3>1. pending' = pending /\ my_save_status' = good
      BY <2>1, <2>6 DEF good
    <3>2. /\ \A x \in SavesAndRestores : Status(x)' => Status(x)
          /\ Status(Save)' => Head(up[f]).ok
      BY <3>1, <1>5, <2>2 DEF SavesAndRestores
    <3> QED
      BY <1>0, <1>2, <1>3, <1>7, <2>2, <2>4, <2>6, <3>1, <3>2, PointAnswered
  <2> QED
    BY <2>5, <2>6
<1> QED
  BY <1>6, <1>7

LEMMA RestoreStatusKeeps ==
    ASSUME FederationInvariant, NEW f \in Federate, RestoreStatus(f)
    PROVE  FederationInvariant' /\ AbstractStep
<1> DEFINE ok == Head(up[f]).ok
           status == my_restore_status /\ ok
<1>0. Serving(f, "ANSWER") /\ Head(up[f]).of = Restore
  BY DEF RestoreStatus
<1>1. /\ TypeOK /\ FederateHolds(f) /\ Head(up[f]).kind = "ANSWER" /\ UpHolds(f, Head(up[f]))
      /\ Head(up[f]) \in ToSet(up[f]) /\ Head(up[f]) \in Request
  BY <1>0, Served
<1>2. /\ Linked(f) /\ f \in members /\ AsksHold(f) /\ Restore \in SavesAndRestores
      /\ ok \in BOOLEAN /\ my_save_status \in BOOLEAN /\ my_restore_status \in BOOLEAN
  <2>1. Linked(f) /\ f \in members /\ AsksHold(f) /\ Restore \in SavesAndRestores
    BY <1>1 DEF UpHolds, Linked, FederateHolds, SavesAndRestores
  <2>2. ok \in BOOLEAN
    BY <1>1, Requests
  <2> QED
    BY <2>1, <2>2, <1>1 DEF TypeOK
<1>3. /\ UNCHANGED <<members, unlinked, referenced, my_save_status, rtigUp, round>>
      /\ owed' = [owed EXCEPT ![f] = Answered(owed[f], Restore)]
      /\ IF Owing(owed', Restore) # {}
           THEN my_restore_status' = status /\ UNCHANGED <<pending, down>>
           ELSE /\ RespondToAll(f, End(PendingPoint(Restore), status))
                /\ IF unlinked = {}
                     THEN pending' = Answered(pending, Restore) /\ my_restore_status' = TRUE
                     ELSE my_restore_status' = status /\ UNCHANGED pending
  BY <1>2 DEF RestoreStatus
<1>4. \A b \in BOOLEAN : End(PendingPoint(Restore), b) \in Notice
  <2>1. Answering(f, Restore)
    BY <1>0, <1>1 DEF Answering
  <2>2. PICK q \in owed[f] : q.of = Restore
    BY <2>1, <1>2 DEF AsksHold
  <2>3. q \in pending /\ q \in Point /\ PendingPoint(Restore) = q
    BY <2>2, <1>1, Typed, ThePendingPoint
  <2> QED
    BY <2>3, Notices
<1>5. Status(Save)' = Status(Save) /\ Status(Restore) = my_restore_status
      /\ Status(Restore)' = my_restore_status'
  BY <1>3 DEF Status, Save, Restore
<1>6. /\ status \in BOOLEAN
      /\ status => Status(Restore) /\ Head(up[f]).ok
  BY <1>5
<1> HIDE DEF ok, status
<1>7. CASE Owing(owed', Restore) # {}
  <2>1. my_restore_status' = status /\ pending' = pending /\ down' = down
    BY <1>3, <1>7
  <2>2. /\ \A x \in SavesAndRestores : Status(x)' => Status(x)
        /\ Status(Restore)' => Head(up[f]).ok
        /\ my_save_status' \in BOOLEAN /\ my_restore_status' \in BOOLEAN
    BY <1>2, <1>3, <1>5, <1>6, <2>1 DEF SavesAndRestores
  <2>3. down' \in [Federate -> Seq(Notice)]
    BY <1>1, <2>1 DEF TypeOK
  <2> QED
    BY <1>0, <1>3, <1>7, <2>1, <2>2, <2>3, PointAnswered
<1>8. CASE Owing(owed', Restore) = {}
  <2>3. /\ RespondToAll(f, End(PendingPoint(Restore), status))
        /\ End(PendingPoint(Restore), status) \in Notice
    BY <1>3, <1>4, <1>6, <1>8
  <2>4. /\ down' \in [Federate -> Seq(Notice)]
        /\ \A g \in Federate :
             \/ down'[g] = down[g]
             \/ /\ unlinked = {} /\ g \in members
                /\ down'[g] = Append(down[g], End(PendingPoint(Restore), status))
             \/ down'[g] = Append(down[g], Exception)
    BY <1>1, <2>3, RespondedToAll
  <2>5. CASE unlinked = {}
    <3>1. pending' = Answered(pending, Restore) /\ my_restore_status' = TRUE
      BY <1>3, <1>8, <2>5
    <3>2. \A x \in SavesAndRestores :
            Status(x)' => Status(x) \/ (x = Restore /\ pending' = Answered(pending, Restore))
      BY <3>1, <1>5 DEF SavesAndRestores
    <3> QED
      BY <1>0, <1>2, <1>3, <1>6, <1>8, <2>4, <3>1, <3>2, PointAnswered
  <2>6. CASE unlinked # {}
    <3>1. pending' = pending /\ my_restore_status' = status
      BY <1>3, <1>8, <2>6
    <3>2. /\ \A x \in SavesAndRestores : Status(x)' => Status(x)
          /\ Status(Restore)' => Head(up[f]).ok
      BY <3>1, <1>5, <1>6 DEF SavesAndRestores
    <3> QED
      BY <1>0, <1>2, <1>3, <1>6, <1>8, <2>4, <2>6, <3>1, <3>2, PointAnswered
  <2> QED
    BY <2>5, <2>6
<1> QED
  BY <1>7, <1>8

(***************************************************************************)
(* The theorems.                                                             *)
(***************************************************************************)

LEMMA FederationInitially ==
    ASSUME Init
    PROVE  FederationInvariant /\ Abstract!Init
<1>1. \A g \in Federate : up[g] = <<>> /\ down[g] = <<>> /\ commands[g] = <<>>
  BY DEF Init
<1>2. ToSet(<<>>) = {} /\ \A R : Respects(<<>>, R)
  BY EmptyStream
<1>3. TypeOK
  <2>1. /\ up \in [Federate -> Seq(Request)] /\ down \in [Federate -> Seq(Notice)]
        /\ commands \in [Federate -> Seq({n \in Notice : n.kind \in {"START", "END"}})]
    BY DEF Init
  <2> QED
    BY <2>1, ConstantsAssumption DEF Init, TypeOK
<1>4. ASSUME NEW g \in Federate
      PROVE  LinkHolds(g) /\ AsksHold(g)
  <2>1. duties[g] = {} /\ owed[g] = {} /\ InTransit(g) = {}
    BY <1>1, <1>2 DEF Init, InTransit
  <2>2. LinkHolds(g)
    BY <1>1, <1>2 DEF Init, LinkHolds, Linked
  <2>3. AsksHold(g)
    BY <1>1, <1>2, <2>1 DEF AsksHold, AskedOnce, Told, Queued, Due, Answering
  <2> QED
    BY <2>2, <2>3
<1>5. EndsHold
  BY <1>1, <1>2, FS_EmptySet DEF Init, EndsHold, InTransit
<1>6. FailuresHold
  BY DEF Init, FailuresHold
<1>7. Abstract!Init
  <2>1. \A g \in Federate : Remaining(g) = {} /\ News(g) = {}
    BY <1>1, <1>2 DEF Init, Remaining, News, InTransit
  <2>2. Lost = {} /\ Refusals = {}
    BY DEF Init, Lost, Refusals
  <2> QED
    BY <2>1, <2>2 DEF Init, Abstract!Init
<1> QED
  BY <1>3, <1>4, <1>5, <1>6, <1>7 DEF FederationInvariant

LEMMA FederationStuttering ==
    ASSUME FederationInvariant, UNCHANGED vars
    PROVE  FederationInvariant' /\ AbstractStep
<1>1. UNCHANGED rtigVars /\ UNCHANGED rtiaVars /\ UNCHANGED federateVars
      /\ UNCHANGED <<commands, up, down>>
  BY DEF vars
<1>2. TypeOK /\ EndsHold /\ FailuresHold /\ \A g \in Federate : FederateHolds(g)
  BY Parts
<1>3. TypeOK'
  BY <1>1, <1>2 DEF TypeOK, rtigVars, rtiaVars, federateVars
<1>4. ASSUME NEW g \in Federate
      PROVE  FederateHolds(g)'
  <2>1. Untouched(g)
    BY <1>1 DEF Untouched, Member, Unlinked, Referenced, rtigVars, rtiaVars, federateVars
  <2> QED
    BY <2>1, <1>2, UntouchedHolds
<1>5. EndsHold'
  BY <1>1, <1>2 DEF EndsHold, InTransit, rtigVars, rtiaVars, federateVars
<1>6. FailuresHold'
  BY <1>1, <1>2 DEF FailuresHold, Status, rtigVars, rtiaVars, federateVars
<1>7. AbstractStep
  BY <1>1, <1>2, RtigStutters DEF InTransit, rtigVars, rtiaVars, federateVars
<1> QED
  BY <1>3, <1>4, <1>5, <1>6, <1>7 DEF FederationInvariant, FederateHolds

LEMMA FederationStep ==
    ASSUME FederationInvariant, [Next]_vars
    PROVE  FederationInvariant' /\ AbstractStep
<1>1. CASE UNCHANGED vars
  BY <1>1, FederationStuttering
<1>2. ASSUME NEW f \in Federate, RtiaStep(f)
      PROVE  FederationInvariant' /\ AbstractStep
  <2>1. CASE JoinFederationExecution(f)
    BY <2>1, JoinKeeps
  <2>2. CASE ResignFederationExecution(f)
    BY <2>2, ResignKeeps
  <2>3. CASE \E label \in Label, S \in FederateSets \cup {Federate} :
               RegisterSynchronization(f, label, S)
    BY <2>3, RegisterKeeps
  <2>4. CASE \E p \in duties[f] : UnregisterSynchronization(f, p)
    BY <2>4, UnregisterKeeps
  <2>5. CASE \E x \in {Save, Restore}, dated \in BOOLEAN :
               RequestFederationSaveOrRestore(f, x, dated)
    BY <2>5, RequestKeeps
  <2>6. CASE \E p \in duties[f], ok \in BOOLEAN :
               FederateSaveStatus(f, p, ok) \/ FederateRestoreStatus(f, p, ok)
    BY <2>6, StatusKeeps
  <2>7. CASE ProcessNetworkMessage(f)
    BY <2>7, ProcessKeeps
  <2>8. CASE WaitMessage(f)
    BY <2>8, WaitKeeps
  <2>9. CASE Tick(f)
    BY <2>9, TickKeeps
  <2>10. CASE Die(f)
    BY <2>10, DieKeeps
  <2> QED
    BY <1>2, <2>1, <2>2, <2>3, <2>4, <2>5, <2>6, <2>7, <2>8, <2>9, <2>10 DEF RtiaStep
<1>3. ASSUME NEW f \in Federate, RtigStep(f)
      PROVE  FederationInvariant' /\ AbstractStep
  BY <1>3, AddKeeps, RemoveKeeps, KillKeeps, RegisterPointKeeps, LabelAchievedKeeps,
     SaveOrRestoreKeeps, SaveStatusKeeps, RestoreStatusKeeps DEF RtigStep
<1> QED
  BY <1>1, <1>2, <1>3 DEF Next

\* Every federate is asked once for each point it owes, and no point ends before
\* the last answer, whatever federates join, resign or are lost
\* (src/RTIG/Federation.cc, add, remove, kill, addSynchronization,
\* unregisterSynchronization, federateSaveStatus and federateRestoreStatus).
THEOREM PointsAreKept == Spec => []FederationInvariant
<1>1. Init => FederationInvariant
  BY FederationInitially
<1>2. FederationInvariant /\ [Next]_vars => FederationInvariant'
  BY FederationStep
<1> QED
  BY <1>1, <1>2, PTL DEF Spec

\* The variables hold what they are declared to hold: at most one point is pending
\* for a label, the save and the restoration, and only members owe answers.
THEOREM FederationTypes == Spec => []TypeOK
<1>1. FederationInvariant => TypeOK
  BY DEF FederationInvariant
<1> QED
  BY <1>1, PointsAreKept, PTL

\* When anyone is told that a point is over (federationSynchronized, federation
\* (not) saved or restored), every linked member that was told of it has answered,
\* and a success is reported only if no answer was a failure, but for one that was
\* lost with its federate.
THEOREM PointsEndTogether == Spec => []EndsTogether
<1>1. ASSUME FederationInvariant
      PROVE  EndsTogether
  <2> SUFFICES ASSUME NEW f \in Federate, NEW m \in InTransit(f), m.kind = "END"
               PROVE  /\ m.ok => \A x \in failed : x.point = m.point => rtia[x.by] = "lost"
                      /\ \A g \in members \ unlinked :
                           /\ m.point \notin duties[g]
                           /\ Start(m.point) \notin InTransit(g)
    BY DEF EndsTogether
  <2>1. /\ m.point \notin pending
        /\ m.ok => \A x \in failed : x.point = m.point => rtia[x.by] = "lost"
    BY <1>1 DEF FederationInvariant, EndsHold
  <2>2. ASSUME NEW g \in members \ unlinked
        PROVE  m.point \notin duties[g] /\ Start(m.point) \notin InTransit(g)
    <3>1. g \in Federate /\ Linked(g)
      BY <1>1 DEF FederationInvariant, TypeOK, Linked
    <3>2. AsksHold(g) /\ owed[g] \subseteq pending
      BY <1>1, <3>1 DEF FederationInvariant, TypeOK
    <3>3. m.point \notin owed[g]
      BY <2>1, <3>2
    <3>4. Start(m.point).kind = "START" /\ Start(m.point).point = m.point
      BY DEF Start
    <3> QED
      BY <3>2, <3>3, <3>4 DEF AsksHold
  <2> QED
    BY <2>1, <2>2
<1> QED
  BY <1>1, PointsAreKept, PTL

\* The RTIG, the RTIAs and the streams between them, for any number of federates,
\* implement Rendezvous: all that becomes of the synchronization points, saves and
\* restorations of a federation, whoever joins, resigns or is lost meanwhile, could
\* become of them if every answer and every end were seen at once
\* (src/RTIG/Federation.cc and src/RTIA/FederationManagement.cc).
THEOREM RefinesRendezvous == Spec => ImplementsRendezvous
<1>1. Init => Abstract!Init
  BY FederationInitially
<1>2. FederationInvariant /\ [Next]_vars => [Abstract!Next]_(Abstract!vars)
  BY FederationStep DEF AbstractStep
<1> QED
  BY <1>1, <1>2, PointsAreKept, PTL DEF Spec, ImplementsRendezvous, Abstract!Spec
=============================================================================
