-------------------------------- MODULE Folding --------------------------------
(***************************************************************************)
(* Induction, and what it says of FoldLeft.  Both are stated with sets and *)
(* functions in place of predicates and operators, so that they can be     *)
(* cited: a predicate is the set of numbers that have it, and a step of a  *)
(* fold a function on the values it goes through.                          *)
(***************************************************************************)
EXTENDS Naturals, Sequences, SequencesExt, Selection, FiniteSetTheorems, WellFoundedInduction,
        TLAPS

(* Every set of numbers that is not empty has a least one.                 *)
LEMMA LeastNumber ==
  ASSUME NEW T, T \subseteq Nat, T # {}
  PROVE  \E n \in T : \A m \in T : n <= m
  <1> DEFINE R == OpToRel(<, Nat)
  <1>1. IsWellFoundedOn(R, Nat)
    BY NatLessThanWellFounded
  <1>2. \A m, n \in Nat : m < n => <<m, n>> \in R
    BY DEF OpToRel
  <1> HIDE DEF R
  <1>3. PICK n \in T : \A m \in T : ~ (<<m, n>> \in R)
    BY <1>1, WFMin
  <1>4. ASSUME NEW m \in T PROVE n <= m
    <2>1. ~ (m < n)
      BY <1>2, <1>3
    <2> QED BY <2>1
  <1> QED BY <1>4

(* Induction up to n.                                                      *)
LEMMA UpTo ==
  ASSUME NEW n \in Nat, NEW G, 0 \in G, \A i \in 1..n : i - 1 \in G => i \in G
  PROVE  \A i \in 0..n : i \in G
  <1> DEFINE T == {i \in 0..n : i \notin G}
  <1> SUFFICES ASSUME T # {} PROVE FALSE
    OBVIOUS
  <1>1. PICK least \in T : \A m \in T : least <= m
    <2>1. T \subseteq Nat
      OBVIOUS
    <2> HIDE DEF T
    <2> QED BY <2>1, LeastNumber
  <1>2. least \in 1..n
    BY <1>1
  <1>3. least - 1 \in G
    BY <1>1, <1>2
  <1> QED BY <1>1, <1>2, <1>3

LEMMA LastOf ==
  ASSUME NEW k \in Nat, NEW t \in SUBSET (1..k), k \in t
  PROVE  Max(t) = k /\ t \ {k} \in SUBSET (1..(k - 1))
  <1>1. \A i \in t : k >= i
    OBVIOUS
  <1>2. \A x \in t : (\A y \in t : x >= y) => x = k
    BY <1>1
  <1>3. Max(t) = k
    BY <1>1, <1>2 DEF Max
  <1>4. t \ {k} \subseteq 1..(k - 1)
    OBVIOUS
  <1> QED BY <1>3, <1>4

(* What the definition of FoldLeft needs to be one: there is a function    *)
(* that gives the result for each part of the sequence.                    *)
Folded(g, values, step, base, s, n) ==
  /\ g \in [SUBSET (1..n) -> values]
  /\ \A t \in SUBSET (1..n) :
       /\ g[t] = IF t = {} THEN base ELSE step[<<g[t \ {Max(t)}], s[Max(t)]>>]
       /\ t # {} => Max(t) \in t

LEMMA FoldExists ==
  ASSUME NEW values, NEW elements, NEW step \in [values \X elements -> values],
         NEW base \in values, NEW n \in Nat, NEW s \in [1..n -> elements]
  PROVE  \E g : Folded(g, values, step, base, s, n)
  <1> DEFINE G == {k \in 0..n : \E g : Folded(g, values, step, base, s, k)}
  <1>1. 0 \in G
    <2> DEFINE g == [t \in SUBSET (1..0) |-> base]
    <2>1. SUBSET (1..0) = {{}}
      OBVIOUS
    <2>2. Folded(g, values, step, base, s, 0)
      BY <2>1 DEF Folded
    <2> QED BY <2>2
  <1>2. ASSUME NEW k \in 1..n, k - 1 \in G PROVE k \in G
    <2>1. PICK g : Folded(g, values, step, base, s, k - 1)
      BY <1>2
    <2> DEFINE h == [t \in SUBSET (1..k) |->
                       IF k \in t THEN step[<<g[t \ {k}], s[k]>>] ELSE g[t]]
    <2>2. \A t \in SUBSET (1..k) : k \notin t => t \in SUBSET (1..(k - 1))
      OBVIOUS
    <2>3. \A t \in SUBSET (1..k) : k \in t => Max(t) = k /\ t \ {k} \in SUBSET (1..(k - 1))
      BY LastOf
    <2>4. \A t \in SUBSET (1..(k - 1)) : t \in SUBSET (1..k) /\ k \notin t /\ h[t] = g[t]
      OBVIOUS
    <2>5. g \in [SUBSET (1..(k - 1)) -> values]
      BY <2>1 DEF Folded
    <2>6. h \in [SUBSET (1..k) -> values]
      BY <2>2, <2>3, <2>5
    <2>7. ASSUME NEW t \in SUBSET (1..k)
          PROVE  h[t] = IF t = {} THEN base ELSE step[<<h[t \ {Max(t)}], s[Max(t)]>>]
      <3>1. CASE k \in t
        <4>1. h[t] = step[<<g[t \ {k}], s[k]>>] /\ t # {}
          BY <3>1
        <4>2. h[t \ {k}] = g[t \ {k}] /\ Max(t) = k
          BY <2>3, <2>4, <3>1
        <4> QED BY <4>1, <4>2
      <3>2. CASE k \notin t
        <4>1. t \in SUBSET (1..(k - 1)) /\ h[t] = g[t]
          BY <2>2, <3>2
        <4>2. g[t] = IF t = {} THEN base ELSE step[<<g[t \ {Max(t)}], s[Max(t)]>>]
          BY <2>1, <4>1 DEF Folded
        <4>3. t \ {Max(t)} \in SUBSET (1..(k - 1))
          BY <4>1
        <4>4. h[t \ {Max(t)}] = g[t \ {Max(t)}]
          BY <2>4, <4>3
        <4> QED BY <4>1, <4>2, <4>4
      <3> QED BY <3>1, <3>2
    <2>8. ASSUME NEW t \in SUBSET (1..k), t # {} PROVE Max(t) \in t
      <3>1. CASE k \in t
        BY <2>3, <3>1
      <3>2. CASE k \notin t
        BY <2>1, <2>2, <2>8, <3>2 DEF Folded
      <3> QED BY <3>1, <3>2
    <2> HIDE DEF h
    <2>9. Folded(h, values, step, base, s, k)
      BY <2>6, <2>7, <2>8 DEF Folded
    <2> QED BY <2>9
  <1>3. \A k \in 0..n : k \in G
    BY <1>1, <1>2, UpTo
  <1> QED BY <1>3

-----------------------------------------------------------------------------
(* The sequences that a selection goes through.                           *)
TracesOnly(h, E, s, n, S) ==
  /\ h \in [0..n -> Seq(E)] /\ h[0] = <<>> /\ h[n] = Only(s, S)
  /\ \A i \in 1..n : h[i] = IF s[i] \in S THEN Append(h[i - 1], s[i]) ELSE h[i - 1]

LEMMA OnlyTrace ==
  ASSUME NEW E, NEW S, NEW n \in Nat, NEW s \in [1..n -> E]
  PROVE  \E h : TracesOnly(h, E, s, n, S)
  <1> DEFINE step == [p \in Seq(E) \X E |-> IF p[2] \in S THEN Append(p[1], p[2]) ELSE p[1]]
             iter(g) == [t \in SUBSET (1..n) |->
                           IF t = {} THEN <<>>
                           ELSE IF s[Max(t)] \in S THEN Append(g[t \ {Max(t)}], s[Max(t)])
                           ELSE g[t \ {Max(t)}]]
             it == CHOOSE g : g = iter(g)
  <1>1. Only(s, S) = it[1..n]
    <2>1. DOMAIN s = 1..n
      OBVIOUS
    <2> QED BY <2>1 DEF Only, FoldLeft, MapThenFoldSet
  <1>2. step \in [Seq(E) \X E -> Seq(E)] /\ <<>> \in Seq(E)
    OBVIOUS
  <1>3. PICK g : Folded(g, Seq(E), step, <<>>, s, n)
    <2> DEFINE base == <<>>
    <2>1. base \in Seq(E)
      OBVIOUS
    <2> HIDE DEF step, base
    <2>2. \E g : Folded(g, Seq(E), step, base, s, n)
      BY <1>2, <2>1, FoldExists
    <2> QED BY <2>2 DEF base
  <1>4. ASSUME NEW t \in SUBSET (1..n)
        PROVE  g[t] = IF t = {} THEN <<>>
                      ELSE IF s[Max(t)] \in S THEN Append(g[t \ {Max(t)}], s[Max(t)])
                      ELSE g[t \ {Max(t)}]
    <2>1. CASE t = {}
      BY <1>3, <2>1 DEF Folded
    <2>2. CASE t # {}
      <3>1. Max(t) \in 1..n /\ t \ {Max(t)} \in SUBSET (1..n)
        BY <1>3, <2>2 DEF Folded
      <3>2. g[t \ {Max(t)}] \in Seq(E) /\ s[Max(t)] \in E
        BY <1>3, <3>1 DEF Folded
      <3>3. g[t] = step[<<g[t \ {Max(t)}], s[Max(t)]>>]
        BY <1>3, <2>2 DEF Folded
      <3> QED BY <2>2, <3>2, <3>3
    <2> QED BY <2>1, <2>2
  <1>5. g = iter(g)
    <2>1. DOMAIN g = SUBSET (1..n) /\ g = [t \in SUBSET (1..n) |-> g[t]]
      BY <1>3 DEF Folded
    <2> QED BY <1>4, <2>1
  <1>6. it = iter(it)
    BY <1>5
  <1>7. it[{}] = <<>>
    <2>1. {} \in SUBSET (1..n)
      OBVIOUS
    <2> HIDE DEF it
    <2> QED BY <1>6, <2>1
  <1>8. ASSUME NEW i \in 1..n
        PROVE  it[1..i] = IF s[i] \in S THEN Append(it[1..(i - 1)], s[i]) ELSE it[1..(i - 1)]
    <2>1. 1..i \in SUBSET (1..n) /\ 1..i # {} /\ i \in 1..i /\ (1..i) \ {i} = 1..(i - 1)
      OBVIOUS
    <2>2. Max(1..i) = i
      BY <2>1, LastOf
    <2> HIDE DEF it
    <2> QED BY <1>6, <2>1, <2>2
  <1> DEFINE h == [i \in 0..n |-> it[1..i]]
  <1> HIDE DEF it
  <1>9. /\ h[0] = <<>> /\ h[n] = Only(s, S)
        /\ \A i \in 1..n : h[i] = IF s[i] \in S THEN Append(h[i - 1], s[i]) ELSE h[i - 1]
    <2>1. h[0] = <<>>
      <3>1. 1..0 = {}
        OBVIOUS
      <3> QED BY <1>7, <3>1
    <2>2. \A i \in 1..n : i \in 0..n /\ i - 1 \in 0..n
      OBVIOUS
    <2> QED BY <1>1, <1>8, <2>1, <2>2
  <1> DEFINE G == {i \in 0..n : h[i] \in Seq(E)}
  <1> HIDE DEF h
  <1>10. \A i \in 0..n : i \in G
    <2>1. 0 \in G
      <3>1. <<>> \in Seq(E) /\ 0 \in 0..n
        OBVIOUS
      <3> QED BY <1>9, <3>1
    <2>2. ASSUME NEW i \in 1..n, i - 1 \in G PROVE i \in G
      <3> DEFINE q == h[i - 1]
      <3>1. q \in Seq(E) /\ s[i] \in E /\ i \in 0..n
        BY <2>2
      <3>2. Append(q, s[i]) \in Seq(E)
        BY <3>1
      <3>3. h[i] = IF s[i] \in S THEN Append(q, s[i]) ELSE q
        BY <1>9
      <3>4. h[i] \in Seq(E)
        <4> HIDE DEF q
        <4> QED BY <3>1, <3>2, <3>3
      <3> QED BY <3>1, <3>4
    <2> HIDE DEF G
    <2> QED BY <2>1, <2>2, UpTo
  <1>11. h = [i \in 0..n |-> h[i]] /\ \A i \in 0..n : h[i] \in Seq(E)
    BY <1>10 DEF h
  <1>12. h \in [0..n -> Seq(E)]
    BY <1>11
  <1> QED BY <1>9, <1>12 DEF TracesOnly

(* One more element.                                                       *)
LEMMA AppendSet ==
  ASSUME NEW E, NEW q \in Seq(E), NEW x \in E
  PROVE  /\ ToSet(Append(q, x)) = ToSet(q) \cup {x}
         /\ IsInjective(q) /\ x \notin ToSet(q) => IsInjective(Append(q, x))
         /\ Append(q, x) \in Seq(E) /\ Len(Append(q, x)) = Len(q) + 1 /\ Len(q) \in Nat
  <1> DEFINE r == Append(q, x)  n == Len(q)
  <1>1. /\ r \in Seq(E) /\ n \in Nat /\ Len(r) = n + 1 /\ r[n + 1] = x
        /\ DOMAIN q = 1..n /\ DOMAIN r = 1..(n + 1)
        /\ \A i \in 1..n : r[i] = q[i]
    OBVIOUS
  <1> HIDE DEF r, n
  <1>2. 1..(n + 1) = (1..n) \cup {n + 1}
    BY <1>1
  <1>3. ToSet(r) = ToSet(q) \cup {x}
    BY <1>1, <1>2 DEF ToSet
  <1>4. ASSUME IsInjective(q), x \notin ToSet(q) PROVE IsInjective(r)
    BY <1>1, <1>2, <1>4 DEF IsInjective, ToSet
  <1> QED BY <1>1, <1>3, <1>4 DEF r, n

(* A selection has the selected elements, none more often than before.     *)
LEMMA OnlyFacts ==
  ASSUME NEW E, NEW S, NEW s \in Seq(E)
  PROVE  /\ Only(s, S) \in Seq(E) /\ ToSet(Only(s, S)) = ToSet(s) \cap S
         /\ Len(Only(s, S)) <= Len(s)
         /\ IsInjective(s) => IsInjective(Only(s, S))
  <1> DEFINE n == Len(s)
  <1>1. n \in Nat /\ s \in [1..n -> E] /\ DOMAIN s = 1..n
    OBVIOUS
  <1> HIDE DEF n
  <1>2. PICK h : TracesOnly(h, E, s, n, S)
    BY <1>1, OnlyTrace
  <1>3. /\ h \in [0..n -> Seq(E)] /\ h[0] = <<>> /\ h[n] = Only(s, S)
         /\ \A i \in 1..n : h[i] = IF s[i] \in S THEN Append(h[i - 1], s[i]) ELSE h[i - 1]
    BY <1>2 DEF TracesOnly
  <1> DEFINE G == {i \in 0..n : /\ ToSet(h[i]) = {s[j] : j \in 1..i} \cap S
                                /\ Len(h[i]) <= i
                                /\ IsInjective(s) => IsInjective(h[i])}
  <1>4. 0 \in G
    <2>1. ToSet(<<>>) = {} /\ IsInjective(<<>>) /\ Len(<<>>) = 0
      BY DEF ToSet, IsInjective
    <2>2. {s[j] : j \in 1..0} = {}
      OBVIOUS
    <2> QED BY <1>1, <1>3, <2>1, <2>2
  <1>5. ASSUME NEW i \in 1..n, i - 1 \in G PROVE i \in G
    <2> DEFINE q == h[i - 1]  x == s[i]  had == {s[j] : j \in 1..(i - 1)}
    <2>1. q \in Seq(E) /\ x \in E /\ h[i] = IF x \in S THEN Append(q, x) ELSE q
      BY <1>1, <1>3
    <2>2. ToSet(q) = had \cap S /\ Len(q) <= i - 1 /\ (IsInjective(s) => IsInjective(q))
      BY <1>5
    <2>3. 1..i = (1..(i - 1)) \cup {i} /\ {s[j] : j \in 1..i} = had \cup {x}
      OBVIOUS
    <2>4. IsInjective(s) => x \notin had
      BY <1>1 DEF IsInjective
    <2> HIDE DEF q, x, had
    <2>5. CASE x \in S
      <3>1. /\ ToSet(h[i]) = ToSet(q) \cup {x} /\ Len(h[i]) = Len(q) + 1 /\ Len(q) \in Nat
            /\ IsInjective(q) /\ x \notin ToSet(q) => IsInjective(h[i])
        BY <2>1, <2>5, AppendSet
      <3>2. ToSet(h[i]) = {s[j] : j \in 1..i} \cap S
        BY <2>2, <2>3, <2>5, <3>1
      <3>3. Len(h[i]) <= i
        BY <2>2, <3>1
      <3>5. IsInjective(s) => IsInjective(h[i])
        BY <2>2, <2>4, <3>1
      <3>4. i \in 0..n
        BY <1>1
      <3> QED BY <3>2, <3>3, <3>4, <3>5
    <2>6. CASE x \notin S
      <3>1. h[i] = q /\ ToSet(q) = {s[j] : j \in 1..i} \cap S
        BY <2>1, <2>2, <2>3, <2>6
      <3>2. Len(q) \in Nat /\ i \in 0..n
        BY <1>1, <2>1
      <3>3. Len(q) <= i
        BY <2>2, <3>2
      <3> QED BY <2>2, <3>1, <3>2, <3>3
    <2> QED BY <2>5, <2>6
  <1>6. \A i \in 1..n : i - 1 \in G => i \in G
    BY <1>5
  <1> HIDE DEF G
  <1>7. n \in G
    BY <1>1, <1>4, <1>6, UpTo
  <1>8. /\ ToSet(h[n]) = {s[j] : j \in 1..n} \cap S /\ Len(h[n]) <= n
        /\ IsInjective(s) => IsInjective(h[n])
    BY <1>7 DEF G
  <1>9. h[n] \in Seq(E) /\ ToSet(s) = {s[j] : j \in 1..n}
    BY <1>1, <1>3 DEF ToSet
  <1> QED BY <1>3, <1>8, <1>9 DEF n
================================================================================
